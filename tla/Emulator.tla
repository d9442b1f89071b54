------------------------------ MODULE Emulator ------------------------------
(***************************************************************************)
(* The USB/IP server of src/moonusb/emulator.lua: one client at a time,    *)
(* whose stream of operations and commands is read with blocking receives, *)
(* and a user script that answers a command at once, later from a timer,   *)
(* or not at all.  The clients, the script and the timers are external.    *)
(***************************************************************************)
EXTENDS Integers, Sequences

CONSTANTS
  Client,   \* connections
  Nil,
  MaxSeq,   \* bound on the commands of a client
  Window,   \* bound on the messages in transit from a client
  Length,   \* lengths of buffers and of data
  CancelsTimers  \* does the script cancel its timers in the callback detached?

ASSUME EmulatorAssumption ==
  /\ Nil \notin Client /\ MaxSeq \in Nat /\ Window \in Nat \ {0} /\ Length \subseteq Nat
  /\ CancelsTimers \in BOOLEAN

VARIABLES
  client,    \* the connected client; once closed, the last one
  phase,     \* where start is: "accept", the receive it is about to make, or "stopped"
  submit,    \* the submit command whose data is to be received, or Nil
  deferred,  \* the responses the script has left to timers: [owner, submit]
  backlog,   \* connections to be accepted, in order
  conn,      \* conn[c]: "out", "queued", "served" or "closed" by the server
  left,      \* the clients that have closed their end
  reset,     \* those of them whose connection was reset
  say,       \* say[c]: what client c sends next
  seqnum,    \* seqnum[c]: the number of its next command
  stream,    \* stream[c]: what it has sent that has not been received
  sent       \* sent[c]: the responses sent to it

server == <<client, phase, submit, deferred>>
net == <<backlog, conn, left, reset, say, seqnum>>
vars == <<server, net, stream, sent>>

Op == [kind : {"op"}, op : {"devlist", "import", "unknown"}]
Busid == [kind : {"busid"}, ours : BOOLEAN]
Submit == [kind : {"submit"}, seqnum : 1 .. MaxSeq, direction : {"in", "out"}, length : Length,
           iso : BOOLEAN]
Unlink == [kind : {"unlink"}, seqnum : 1 .. MaxSeq, victim : 1 .. MaxSeq]
Unknown == [kind : {"unknown"}]
Data == [kind : {"data"}, seqnum : 1 .. MaxSeq, iso : BOOLEAN]
\* The descriptors of the packets of an isochronous submit, which follow it and its data.
Packets == [kind : {"packets"}]
Message == Op \cup Busid \cup Submit \cup Unlink \cup Unknown \cup Data \cup Packets

Init ==
  /\ client = Nil /\ phase = "accept" /\ submit = Nil /\ deferred = {}
  /\ backlog = <<>>
  /\ conn = [c \in Client |-> "out"]
  /\ left = {} /\ reset = {}
  /\ say = [c \in Client |-> "op"]
  /\ seqnum = [c \in Client |-> 1]
  /\ stream = [c \in Client |-> <<>>]
  /\ sent = [c \in Client |-> {}]

-----------------------------------------------------------------------------
(* Clients: they keep to the format of the protocol, and leave at any time. *)

Connect(c) ==
  /\ conn[c] = "out"
  /\ conn' = [conn EXCEPT ![c] = "queued"]
  /\ backlog' = Append(backlog, c)
  /\ UNCHANGED <<server, left, reset, say, seqnum, stream, sent>>

Imported(c) == [ret |-> "import", ok |-> TRUE] \in sent[c]

\* c sends u next, and what it sends after u.
Utters(c, u) ==
  \/ say[c] = "op" /\ u \in Op
  \/ say[c] = "busid" /\ u \in Busid
  \/ say[c] = "data" /\ u \in Data /\ u.seqnum = seqnum[c] - 1 /\ ~ u.iso
  \/ say[c] = "isodata" /\ u \in Data /\ u.seqnum = seqnum[c] - 1 /\ u.iso
  \/ say[c] = "packets" /\ u \in Packets
  \/ say[c] = "cmd" /\ Imported(c) /\ u \in Unknown
  \/ say[c] = "cmd" /\ Imported(c) /\ u \in Submit /\ u.seqnum = seqnum[c]
  \/ say[c] = "cmd" /\ Imported(c) /\ u \in Unlink /\ u.seqnum = seqnum[c] /\ u.victim < u.seqnum

After(u) ==
  IF u.kind = "op" THEN IF u.op = "import" THEN "busid" ELSE "none"
  ELSE IF u.kind = "submit" /\ u.direction = "out" /\ u.length > 0
       THEN IF u.iso THEN "isodata" ELSE "data"
  ELSE IF u.kind \in {"submit", "data"} /\ u.iso THEN "packets"
  ELSE "cmd"

Send(c) ==
  /\ conn[c] \in {"queued", "served"} /\ c \notin left
  /\ Len(stream[c]) < Window
  /\ \E u \in Message :
       /\ Utters(c, u)
       /\ stream' = [stream EXCEPT ![c] = Append(@, u)]
       /\ say' = [say EXCEPT ![c] = After(u)]
       /\ seqnum' = [seqnum EXCEPT ![c] = IF u.kind \in {"submit", "unlink"} THEN @ + 1 ELSE @]
  /\ UNCHANGED <<server, backlog, conn, left, reset, sent>>

\* A client closes its end; what it has sent arrives, or is lost by a reset.
Leave(c) ==
  /\ conn[c] \in {"queued", "served"} /\ c \notin left
  /\ left' = left \cup {c}
  /\ \/ UNCHANGED <<reset, stream>>
     \/ reset' = reset \cup {c} /\ stream' = [stream EXCEPT ![c] = <<>>]
  /\ UNCHANGED <<server, backlog, conn, say, seqnum, sent>>

-----------------------------------------------------------------------------
(* The server.                                                             *)

\* server:accept takes the first connection of the backlog.
TakeFirst ==
  /\ phase = "accept" /\ backlog # <<>>
  /\ client' = Head(backlog) /\ backlog' = Tail(backlog)
  /\ conn' = [conn EXCEPT ![client'] = "served"]
  /\ UNCHANGED <<submit, deferred, left, reset, say, seqnum, stream, sent>>

Accept == TakeFirst /\ client' \notin reset /\ phase' = "op"

\* getpeername has no port for a connection that was reset in the backlog: the %d it
\* is printed with raises an error, which ends start, the connection not closed.
AcceptReset == TakeFirst /\ client' \in reset /\ phase' = "stopped"

\* The message the next receive finds.
Arriving ==
  IF phase # "accept" /\ stream[client] # <<>> THEN {Head(stream[client])} ELSE {}

\* A receive in phase p takes u, or returns nil because the client has left.
Receive(p, u) ==
  /\ phase = p /\ u \in Arriving
  /\ stream' = [stream EXCEPT ![client] = Tail(@)]
ReceiveNil(p) == phase = p /\ stream[client] = <<>> /\ client \in left /\ UNCHANGED stream

Reply(r) == sent' = [sent EXCEPT ![client] = @ \cup {r}]

\* (Mutant: the end of the connection without client:close.)
CloseLeavesOpen ==
  /\ phase' = "accept" /\ submit' = Nil
  /\ UNCHANGED <<client, backlog, conn, left, reset, say, seqnum>>

Close ==
  /\ conn' = [conn EXCEPT ![client] = "closed"]
  /\ phase' = "accept" /\ submit' = Nil
  /\ UNCHANGED <<client, backlog, left, reset, say, seqnum>>

\* receive_op has returned false.
Refuse == Close /\ UNCHANGED deferred

\* (Mutant: the callback detached is not called.)
DetachSilent == Close /\ UNCHANGED deferred

\* receive_cmd has returned false: the callback detached, in which the script may
\* cancel its timers (the default does nothing), and the end of the connection.
Detach == Close /\ deferred' = IF CancelsTimers THEN {} ELSE deferred

ReceiveOp(u) ==
  \/ /\ Receive("op", u) /\ u.kind = "op" /\ u.op = "devlist"
     /\ Reply([ret |-> "devlist"])
     /\ Refuse
  \/ /\ Receive("op", u) /\ u.kind = "op" /\ u.op = "import"
     /\ phase' = "busid"
     /\ UNCHANGED <<client, submit, deferred, net, sent>>
  \/ /\ Receive("op", u) /\ ~ (u.kind = "op" /\ u.op \in {"devlist", "import"})
     /\ Refuse
     /\ UNCHANGED sent

ReceiveBusid(u) ==
  \/ /\ Receive("busid", u) /\ u.kind = "busid" /\ u.ours
     /\ Reply([ret |-> "import", ok |-> TRUE])
     /\ phase' = "attached"
     /\ UNCHANGED <<client, submit, deferred, net>>
  \/ /\ Receive("busid", u) /\ ~ (u.kind = "busid" /\ u.ours)
     /\ Reply([ret |-> "import", ok |-> FALSE])
     /\ Refuse

NoOp == (ReceiveNil("op") \/ ReceiveNil("busid")) /\ Refuse /\ UNCHANGED sent

\* send_submit_response: data longer than the buffer is truncated.  owner and room,
\* not in the message, tell which client asked, and for how much.
SubmitResponse(d, n) ==
  [ret |-> "submit", owner |-> d.owner, seqnum |-> d.submit.seqnum,
   length |-> IF n > d.submit.length THEN d.submit.length ELSE n,
   room |-> d.submit.length]

\* send_unlink_response.
UnlinkResponse(u) == [ret |-> "unlink", owner |-> client, seqnum |-> u.victim]

\* The callback receive_submit: the script answers, defers the answer, or does neither.
ReceiveSubmitCallback(s) ==
  LET d == [owner |-> client, submit |-> s]
  IN  \/ (\E n \in Length : Reply(SubmitResponse(d, n))) /\ UNCHANGED deferred
      \/ deferred' = deferred \cup {d} /\ UNCHANGED sent
      \/ UNCHANGED <<deferred, sent>>

\* The callback receive_unlink: the script answers, and may cancel a timer.
ReceiveUnlinkCallback(u) ==
  /\ Reply(UnlinkResponse(u))
  /\ deferred' \in {deferred,
                    {d \in deferred : d.submit.seqnum # u.victim \/ d.owner # client}}

\* (Mutant: data expected after every submit with a buffer.)
HasDataAlways(s) == s.length > 0

\* The submits whose data is received.
HasData(s) == s.direction = "out" /\ s.length > 0

\* Descriptors of packets are not received with their submit: they are taken for the
\* next header, whose command is the offset of the first packet, 0, thus unknown.
ReceiveCmd(u) ==
  \/ /\ Receive("attached", u) /\ u.kind = "submit" /\ HasData(u)
     /\ phase' = "data" /\ submit' = u
     /\ UNCHANGED <<client, deferred, net, sent>>
  \/ /\ Receive("attached", u) /\ u.kind = "submit" /\ ~ HasData(u)
     /\ ReceiveSubmitCallback(u)
     /\ UNCHANGED <<client, phase, submit, net>>
  \/ /\ Receive("attached", u) /\ u.kind = "unlink"
     /\ ReceiveUnlinkCallback(u)
     /\ UNCHANGED <<client, phase, submit, net>>
  \/ /\ Receive("attached", u) /\ u.kind \notin {"submit", "unlink"}
     /\ Detach
     /\ UNCHANGED sent

ReceiveData(u) ==
  /\ Receive("data", u)
  /\ ReceiveSubmitCallback(submit)
  /\ phase' = "attached" /\ submit' = Nil
  /\ UNCHANGED <<client, net>>

\* (Mutant: the loop goes on when the client has gone.)
NoCmdStays == ReceiveNil("data") /\ Detach /\ UNCHANGED sent

NoCmd == (ReceiveNil("attached") \/ ReceiveNil("data")) /\ Detach /\ UNCHANGED sent

\* timers.trigger, at the top of the loop: a response goes to the client of now.
Trigger(d) ==
  /\ phase = "attached" /\ d \in deferred
  /\ \E n \in Length : Reply(SubmitResponse(d, n))
  /\ deferred' = deferred \ {d}
  /\ UNCHANGED <<client, phase, submit, net, stream>>

Serve ==
  \/ Accept \/ AcceptReset
  \/ \E u \in Arriving : ReceiveOp(u) \/ ReceiveBusid(u) \/ ReceiveCmd(u) \/ ReceiveData(u)
  \/ NoOp \/ NoCmd

Next ==
  \/ \E c \in Client : Connect(c) \/ Send(c) \/ Leave(c)
  \/ Serve
  \/ \E d \in deferred : Trigger(d)

\* The loop runs on, and clients leave in the end.
Fairness == WF_vars(Serve) /\ \A c \in Client : WF_vars(Leave(c))

Spec == Init /\ [][Next]_vars
FairSpec == Spec /\ Fairness
-----------------------------------------------------------------------------
(* Properties.                                                             *)

\* The types of the variables.
TypeOK ==
  /\ client \in Client \cup {Nil}
  /\ phase \in {"accept", "op", "busid", "attached", "data", "stopped"}
  /\ IF phase = "data" THEN submit \in Submit ELSE submit = Nil
  /\ deferred \subseteq [owner : Client, submit : Submit]
  /\ conn \in [Client -> {"out", "queued", "served", "closed"}]
  /\ \A c \in Client : conn[c] = "served" <=> phase # "accept" /\ c = client
  /\ left \subseteq Client /\ reset \subseteq left
  /\ seqnum \in [Client -> 1 .. MaxSeq + 1]
  /\ stream \in [Client -> Seq(Message)]

\* The server is never out of step with the stream of a client that keeps to the
\* protocol, but where a submit is isochronous: it takes headers for headers, and for
\* a submit's data the data the client has sent with it, whatever the direction and
\* the length of the buffer.  What it takes for a header and is not one is always the
\* packets of an isochronous submit, which end the session.
InStep ==
  TypeOK /\ (phase # "accept" /\ stream[client] # <<>> =>
    LET u == Head(stream[client])
    IN  /\ phase = "op" => u \in Op
        /\ phase = "busid" => u \in Busid
        /\ phase = "attached" => u \in Submit \cup Unlink \cup Unknown \cup Packets
        /\ phase = "data" => u \in Data /\ u.seqnum = submit.seqnum)

\* A response, deferred or not, goes to the client that sent the command, and its
\* data is no longer than the client asked for, if the script cancels its timers in
\* detached: detached is called however a session ends, before the next client is
\* accepted.  A script that leaves them running may answer one client on the
\* connection of another.
AnswersOwner ==
  CancelsTimers => \A c \in Client : \A r \in sent[c] :
    /\ r.ret \in {"submit", "unlink"} => r.owner = c
    /\ r.ret = "submit" => r.length <= r.room

\* Every client that connects is served and closed, whatever those before it have
\* left unfinished when they left, unless one has been reset before it was accepted:
\* start then ends in an error, and nobody is served any more.
Served ==
  \A c \in Client : conn[c] = "queued" ~> conn[c] = "closed" \/ phase = "stopped"
=============================================================================
