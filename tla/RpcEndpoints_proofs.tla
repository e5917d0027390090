------------------------ MODULE RpcEndpoints_proofs ------------------------
(***************************************************************************)
(* Proofs about pw_rpc's endpoints, for any number of call objects, RPCs,  *)
(* channels, packets on the way, losses and threads.                       *)
(*                                                                         *)
(* Base is the type invariant. Two inductive invariants rest on it: Once   *)
(* says who is still going to end each call of the client, and Ordered     *)
(* relates the list of an endpoint to its call objects, in the middle of   *)
(* CloseChannel too.                                                       *)
(***************************************************************************)
EXTENDS RpcEndpoints, SequenceLemmas

(***************************************************************************)
(* Types: records, lists, packets and tasks, and how the parts of          *)
(* operations change them.                                                 *)
(***************************************************************************)

(* The calls the client starts, in the order it starts them. *)
Gens == 1..MaxStarted

(* The records of call objects and of packets. *)
CallRec == [active : BOOLEAN, chan : Channels \cup {Unassigned}, rpc : Rpcs \cup {"none"},
            id : Nat, gen : Nat, stream : BOOLEAN]
PacketTypes == {"REQUEST", "CLIENT_STREAM", "CLIENT_STREAM_END", "CLIENT_ERROR",
                "RESPONSE", "SERVER_STREAM", "SERVER_ERROR"}
PacketRec == [type : PacketTypes, chan : Channels, rpc : Rpcs, id : Nat, gen : Gens]

(* A call object that holds a call: its call id is the one NewCallId gave the call. *)
Live(k) ==
  /\ k \in CallRec /\ k.active /\ k.chan \in Channels /\ k.rpc \in Rpcs
  /\ k.gen \in Gens /\ k.id = k.gen % MaxCallId

(* A packet carries the ids of the call it is of. *)
Packet(p) == p \in PacketRec /\ p.id = p.gen % MaxCallId

(* A call object holds a call or is closed; MarkClosed leaves nothing behind. *)
CallsOK(cl) ==
  /\ cl \in [AllCalls -> CallRec]
  /\ \A c \in AllCalls : Live(cl[c]) \/ cl[c] = Closed

(* Endpoints list their own call objects only. *)
ListsOK(ls) == ls \in [Ends -> Seq(AllCalls)] /\ \A e \in Ends : ls[e] \in Seq(Own(e))

(* The packets on the way are packets of calls. *)
WireOK(n) == n \in [Ends -> Seq(PacketRec)] /\ \A e \in Ends : \A i \in 1..Len(n[e]) : Packet(n[e][i])

(* An operation that has given the lock up. A Start that will go on with object c finds the
   call it registered there, or none. *)
TaskOK(cl, t) ==
  /\ t.e \in Ends /\ t.cb \in ClientCalls \cup {NoCallback}
  /\ t.at = "close" => t.ch \in Channels /\ t.c \in Own(t.e)
  /\ t.at = "start" => /\ t.e = "client" /\ t.c \in ClientCalls /\ t.gen \in Gens
                       /\ cl[t.c].active => cl[t.c].gen = t.gen
  /\ t.at = "handler" => t.e = "server"

(* No two unfinished Starts use one call object. *)
TasksOK(cl, ts) ==
  /\ \A t \in ts : TaskOK(cl, t)
  /\ \A t, u \in ts : t.at = "start" /\ u.at = "start" /\ t.c = u.c => t = u

(* The channels, the number of calls started, whose callbacks the objects hold and how many
   callbacks have run. *)
OthersOK(op, n, h, en) ==
  /\ op \in [Ends -> SUBSET Channels] /\ n \in 0..MaxStarted
  /\ h \in [ClientCalls -> Gens \cup {0}] /\ en \in [Gens -> Int]

(* The type invariant, with what the members say of each other. *)
Base ==
  /\ CallsOK(call) /\ ListsOK(list) /\ WireOK(net) /\ TasksOK(call, tasks)
  /\ OthersOK(open, started, held, ended)

(* What RpcAssumption says of the constants. *)
LEMMA ConstantFacts ==
  /\ MaxCallId \in Nat \ {0} /\ MaxStarted \in Nat
  /\ Head_ \notin AllCalls /\ NoCallback \notin AllCalls /\ Unassigned \notin Channels
  /\ \A e \in Ends : Own(e) \subseteq AllCalls
  /\ Own("client") = ClientCalls /\ Own("server") = ServerCalls \cup {Responder}
  /\ "client" \in Ends /\ "server" \in Ends
  /\ ClientCalls \subseteq AllCalls /\ Responder \in AllCalls /\ ServerCalls \subseteq AllCalls
  /\ \A c \in Own("client") : c \notin Own("server")
  BY RpcAssumption DEF Own, AllCalls, Ends

(* f with v at x. Lemmas state effects with it, so that they can be matched by name. *)
Update(f, x, v) == [f EXCEPT ![x] = v]

(* What MarkClosed leaves of a call object. *)
LEMMA ClosedFacts == Closed \in CallRec /\ ~Closed.active /\ Closed.chan = Unassigned
  BY DEF Closed, CallRec

(* One call object changes. *)
LEMMA OneCall ==
  ASSUME NEW cl, CallsOK(cl), NEW c \in AllCalls, NEW k, Live(k) \/ k = Closed,
         NEW ds, ds = Update(cl, c, k)
  PROVE  CallsOK(ds) /\ ds[c] = k /\ \A x \in AllCalls : x # c => ds[x] = cl[x]
  <1>1. cl \in [AllCalls -> CallRec] /\ k \in CallRec
    BY ClosedFacts DEF CallsOK, Live
  <1>2. ds[c] = k /\ \A x \in AllCalls : x # c => ds[x] = cl[x]
    BY <1>1 DEF Update
  <1>3. ds \in [AllCalls -> CallRec]
    BY <1>1 DEF Update
  <1>4. \A x \in AllCalls : Live(ds[x]) \/ ds[x] = Closed
    BY <1>2 DEF CallsOK
  <1> QED  BY <1>2, <1>3, <1>4 DEF CallsOK

(* One list changes. *)
LEMMA OneList ==
  ASSUME NEW ls, ListsOK(ls), NEW e \in Ends, NEW s \in Seq(Own(e)),
         NEW ms, ms = Update(ls, e, s)
  PROVE  ListsOK(ms) /\ ms[e] = s /\ \A d \in Ends : d # e => ms[d] = ls[d]
  <1>1. ls \in [Ends -> Seq(AllCalls)] /\ s \in Seq(AllCalls)
    <2>1. \A i \in 1..Len(s) : s[i] \in AllCalls
      BY ConstantFacts
    <2>2. s \in Seq(AllCalls)
      BY <2>1
    <2> QED  BY <2>2 DEF ListsOK
  <1>2. ms[e] = s /\ \A d \in Ends : d # e => ms[d] = ls[d]
    BY <1>1 DEF Update
  <1>3. ms \in [Ends -> Seq(AllCalls)]
    BY <1>1 DEF Update
  <1>4. \A d \in Ends : ms[d] \in Seq(Own(d))
    BY <1>2 DEF ListsOK
  <1> QED  BY <1>2, <1>3, <1>4 DEF ListsOK

(* A call object is active exactly when it holds a live call. *)
LEMMA LiveOrClosed ==
  ASSUME NEW cl, CallsOK(cl), NEW c \in AllCalls
  PROVE  /\ cl[c] \in CallRec /\ cl[c].active \in BOOLEAN
         /\ cl[c].active => Live(cl[c])
         /\ ~cl[c].active => cl[c] = Closed
         /\ cl[c].chan \in Channels => cl[c].active
  BY ClosedFacts, ConstantFacts DEF CallsOK, Live, CallRec

(* Packets of a live call, and answers to a packet, carry the ids of the call. *)
LEMMA PacketOfCall ==
  ASSUME NEW k, Live(k), NEW type \in PacketTypes
  PROVE  Packet(MakePacket(k, type))
  BY DEF Live, CallRec, Packet, PacketRec, MakePacket

(* An answer keeps the ids of the packet it answers. *)
LEMMA PacketReply ==
  ASSUME NEW p, Packet(p), NEW type \in PacketTypes
  PROVE  Packet(Reply(p, type))
  BY DEF Packet, PacketRec, Reply

(* Sending a packet, and taking one off the wire. *)
LEMMA SentOK ==
  ASSUME NEW n, WireOK(n), NEW e \in Ends, NEW p, Packet(p)
  PROVE  WireOK(Sent(n, e, p))
  <1> DEFINE d == Peer(e)
             s == Append(n[d], p)
             m == [n EXCEPT ![d] = s]
  <1>1. d \in Ends
    BY DEF Peer, Ends
  <1>2. n \in [Ends -> Seq(PacketRec)] /\ p \in PacketRec
    BY DEF WireOK, Packet
  <1>3. n[d] \in Seq(PacketRec) /\ \A i \in 1..Len(n[d]) : Packet(n[d][i])
    BY <1>1, <1>2 DEF WireOK
  <1> HIDE DEF d
  <1>4. s \in Seq(PacketRec) /\ \A i \in 1..Len(s) : Packet(s[i])
    <2>1. s \in Seq(PacketRec) /\ Len(s) = Len(n[d]) + 1 /\ s[Len(s)] = p
          /\ \A i \in 1..Len(n[d]) : s[i] = n[d][i]
      BY <1>2, <1>3
    <2>2. Len(n[d]) \in Nat
      BY <1>3
    <2> HIDE DEF s
    <2> SUFFICES ASSUME NEW i \in 1..Len(s) PROVE Packet(s[i])
      BY <2>1
    <2>3. CASE i = Len(s)
      BY <2>1, <2>3
    <2>4. CASE i \in 1..Len(n[d])
      BY <1>3, <2>1, <2>4
    <2> QED  BY <2>1, <2>2, <2>3, <2>4
  <1> HIDE DEF s
  <1>5. WireOK(m)
    <2>1. m \in [Ends -> Seq(PacketRec)] /\ m[d] = s /\ \A x \in Ends : x # d => m[x] = n[x]
      BY <1>1, <1>2, <1>4
    <2> HIDE DEF m
    <2> QED  BY <1>4, <2>1 DEF WireOK
  <1> QED  BY <1>5 DEF Sent, s, d

(* The packet at the head is taken off the wire. *)
LEMMA TakenOK ==
  ASSUME Base, NEW e \in Ends, net[e] # <<>>
  PROVE  WireOK(Taken(e)) /\ Packet(Head(net[e]))
  <1>1. net \in [Ends -> Seq(PacketRec)] /\ \A i \in 1..Len(net[e]) : Packet(net[e][i])
    BY DEF Base, WireOK
  <1> DEFINE s == Tail(net[e])
             m == [net EXCEPT ![e] = s]
  <1>2. net[e] \in Seq(PacketRec) /\ Len(net[e]) \in Nat \ {0} /\ Head(net[e]) = net[e][1]
    BY <1>1
  <1>3. s \in Seq(PacketRec) /\ Len(s) = Len(net[e]) - 1
        /\ \A i \in 1..Len(s) : s[i] = net[e][i + 1]
    BY <1>2
  <1> HIDE DEF s
  <1>4. \A i \in 1..Len(s) : Packet(s[i])
    BY <1>1, <1>2, <1>3
  <1>5. m \in [Ends -> Seq(PacketRec)] /\ m[e] = s /\ \A x \in Ends : x # e => m[x] = net[x]
    BY <1>1, <1>3
  <1> HIDE DEF m
  <1>6. WireOK(m)
    BY <1>4, <1>5 DEF WireOK, Base
  <1>7. Packet(Head(net[e]))
    BY <1>1, <1>2
  <1> QED  BY <1>6, <1>7 DEF Taken, m, s

(* Whatever SendPacket comes to, the wire is in order; only an active call can send. *)
LEMMA OutcomeOK ==
  ASSUME Base, NEW e \in Ends, NEW k, k.active => Live(k), NEW type \in PacketTypes,
         NEW o \in Outcomes(e, k, type)
  PROVE  WireOK(o.net) /\ (o.ok => k.active)
  <1>1. WireOK(net)
    BY DEF Base
  <1>2. CASE k.active /\ k.chan \in open[e]
    <2>1. WireOK(Sent(net, e, MakePacket(k, type)))
      BY <1>1, <1>2, PacketOfCall, SentOK
    <2>2. o.net = net \/ o.net = Sent(net, e, MakePacket(k, type))
      BY <1>2 DEF Outcomes
    <2> QED  BY <1>1, <1>2, <2>1, <2>2
  <1>3. CASE ~(k.active /\ k.chan \in open[e])
    <2>1. o = [ok |-> FALSE, net |-> net, lost |-> lost]
      BY <1>3 DEF Outcomes
    <2>2. o.net = net /\ ~o.ok
      BY <2>1
    <2> QED  BY <1>1, <2>2
  <1> QED  BY <1>2, <1>3

(* A found call is on the list, is active and has the ids looked for; there is at most one. *)
LEMMA FoundCall ==
  ASSUME Base, NEW e \in Ends, NEW ch \in Channels, NEW r, NEW c \in FindCallById(e, ch, r)
  PROVE  /\ c \in Own(e) /\ c \in AllCalls /\ call[c].chan = ch /\ call[c].rpc = r
         /\ call[c].active /\ Live(call[c]) /\ c \in ToSet(list[e])
         /\ \A d \in FindCallById(e, ch, r) : d = c
  <1> DEFINE match == {i \in 1..Len(list[e]) : call[list[e][i]].chan = ch /\ call[list[e][i]].rpc = r}
             first == {j \in match : \A k \in match : j <= k}
  <1>1. list[e] \in Seq(Own(e))
    BY DEF Base, ListsOK
  <1>2. PICK i \in first : c = list[e][i]
    BY DEF FindCallById
  <1>3. i \in 1..Len(list[e]) /\ call[c].chan = ch /\ call[c].rpc = r
    BY <1>2
  <1>4. c \in Own(e) /\ c \in AllCalls /\ c \in ToSet(list[e])
    <2>1. DOMAIN list[e] = 1..Len(list[e]) /\ c = list[e][i]
      BY <1>1, <1>2
    <2>2. c \in Own(e)
      BY <1>1, <1>3, <2>1
    <2>3. c \in ToSet(list[e])
      BY <1>3, <2>1 DEF ToSet
    <2> QED  BY <2>2, <2>3, ConstantFacts
  <1>5. call[c].active /\ Live(call[c])
    BY <1>3, <1>4, LiveOrClosed DEF Base
  <1>6. ASSUME NEW d \in FindCallById(e, ch, r) PROVE d = c
    <2>1. PICK j \in first : d = list[e][j]
      BY DEF FindCallById
    <2>2. \A x, y \in first : x = y
      BY <1>1
    <2> QED  BY <1>2, <2>1, <2>2
  <1> QED  BY <1>3, <1>4, <1>5, <1>6

(* Base of the next state, by its parts. *)
LEMMA BasePrime ==
  /\ CallsOK(call') /\ ListsOK(list') /\ WireOK(net') /\ TasksOK(call', tasks')
  /\ OthersOK(open', started', held', ended')
  => Base'
  BY DEF Base, CallsOK, ListsOK, WireOK, TasksOK, OthersOK, TaskOK, Live, Packet, Gens

(* Until 2^14 calls have been started, a call id stands for one call only. *)
LEMMA SameIds ==
  ASSUME MaxStarted <= MaxCallId, NEW g \in Gens, NEW h \in Gens, g % MaxCallId = h % MaxCallId
  PROVE  g = h
  <1>1. MaxCallId \in Nat \ {0} /\ MaxStarted \in Nat
    BY ConstantFacts
  <1>2. \A x \in Gens : x \in Nat /\ 0 < x /\ x <= MaxCallId
    BY <1>1 DEF Gens
  <1>3. \A x \in Gens : x < MaxCallId => x % MaxCallId = x
    BY <1>1, <1>2
  <1>4. MaxCallId % MaxCallId = 0
    BY <1>1
  <1>5. CASE g < MaxCallId /\ h < MaxCallId
    BY <1>3, <1>5
  <1>6. CASE g = MaxCallId /\ h = MaxCallId
    BY <1>6
  <1>7. CASE g = MaxCallId /\ h < MaxCallId
    BY <1>2, <1>3, <1>4, <1>7
  <1>8. CASE g < MaxCallId /\ h = MaxCallId
    BY <1>2, <1>3, <1>4, <1>8
  <1> QED  BY <1>1, <1>2, <1>5, <1>6, <1>7, <1>8

(* Tasks are unaffected by calls that close or keep their identity. *)
LEMMA TasksFollow ==
  ASSUME NEW cl, NEW ts, TasksOK(cl, ts), NEW ds,
         \A t \in ts : t.at = "start" /\ ds[t.c].active =>
                         cl[t.c].active /\ ds[t.c].gen = cl[t.c].gen
  PROVE  TasksOK(ds, ts)
  BY DEF TasksOK, TaskOK

(* A task is added, and one is done with. *)
LEMMA AddTask ==
  ASSUME NEW cl, NEW ts, TasksOK(cl, ts), NEW t, TaskOK(cl, t),
         t.at = "start" => \A u \in ts : u.at = "start" => u.c # t.c
  PROVE  TasksOK(cl, ts \cup {t})
  BY DEF TasksOK

(* A task is done with. *)
LEMMA DropTask ==
  ASSUME NEW cl, NEW ts, TasksOK(cl, ts), NEW t
  PROVE  TasksOK(cl, ts \ {t})
  BY DEF TasksOK

(* The callback of a call is one of the client's. *)
LEMMA CallbackOK ==
  ASSUME NEW c
  PROVE  Callback(c) \in ClientCalls \cup {NoCallback} /\ (Callback(c) # NoCallback => Callback(c) = c)
  BY DEF Callback

(* An operation that is over but for its callback, if there is one. *)
LEMMA ReturnOK ==
  ASSUME NEW e \in Ends, NEW cb \in ClientCalls \cup {NoCallback}
  PROVE  \/ cb = NoCallback /\ Return(e, cb) = {}
         \/ /\ cb # NoCallback
            /\ \E t : Return(e, cb) = {t} /\ t.at = "return" /\ t.e = e /\ t.cb = cb
  <1> DEFINE t == [at |-> "return", e |-> e, c |-> Head_, ch |-> Unassigned, prev |-> Head_, cb |-> cb, gen |-> 0]
  <1>1. t.at = "return" /\ t.e = e /\ t.cb = cb
    OBVIOUS
  <1>2. Return(e, cb) = IF cb = NoCallback THEN {} ELSE {t}
    BY DEF Return, Task
  <1> HIDE DEF t
  <1> QED  BY <1>1, <1>2

(* Such a task is well formed. *)
LEMMA ReturnTasks ==
  ASSUME NEW cl, NEW ts, TasksOK(cl, ts), NEW e \in Ends, NEW cb \in ClientCalls \cup {NoCallback}
  PROVE  TasksOK(cl, ts \cup Return(e, cb))
  <1>1. CASE Return(e, cb) = {}
    BY <1>1
  <1>2. ASSUME NEW t, Return(e, cb) = {t}, t.at = "return", t.e = e, t.cb = cb
        PROVE  TasksOK(cl, ts \cup Return(e, cb))
    <2>1. TaskOK(cl, t)
      BY <1>2 DEF TaskOK
    <2>2. TasksOK(cl, ts \cup {t})
      BY <1>2, <2>1, AddTask
    <2> QED  BY <1>2, <2>2
  <1>3. \/ Return(e, cb) = {}
        \/ \E t : Return(e, cb) = {t} /\ t.at = "return" /\ t.e = e /\ t.cb = cb
    BY ReturnOK
  <1> QED  BY <1>1, <1>2, <1>3

(* Unregistering leaves the endpoint its own call objects. *)
LEMMA WithoutOK ==
  ASSUME ListsOK(list), NEW e \in Ends, NEW c
  PROVE  Without(list[e], c) \in Seq(Own(e))
  BY RemoveFirstFacts DEF Without, ListsOK

(* UnregisterAndMarkClosed. *)
LEMMA CloseCallOK ==
  ASSUME Base, NEW e \in Ends, NEW c \in Own(e),
         call' = MarkClosed(c), list' = [list EXCEPT ![e] = Without(@, c)]
  PROVE  CallsOK(call') /\ ListsOK(list') /\ TasksOK(call', tasks)
  <1>1. c \in AllCalls /\ CallsOK(call) /\ ListsOK(list) /\ TasksOK(call, tasks)
    BY ConstantFacts DEF Base
  <1>2. CallsOK(call') /\ call'[c] = Closed /\ \A x \in AllCalls : x # c => call'[x] = call[x]
    <2>1. call' = Update(call, c, Closed)
      BY DEF MarkClosed, Update
    <2> QED  BY <1>1, <2>1, OneCall
  <1>3. ListsOK(list')
    <2>1. list' = Update(list, e, Without(list[e], c))
      BY DEF Update
    <2>2. Without(list[e], c) \in Seq(Own(e))
      BY <1>1, WithoutOK
    <2> QED  BY <1>1, <2>1, <2>2, OneList, ZenonT(60)
  <1>4. \A t \in tasks : t.at = "start" => t.c \in AllCalls
    BY <1>1, ConstantFacts DEF TasksOK, TaskOK
  <1>5. TasksOK(call', tasks)
    BY <1>1, <1>2, <1>4, ClosedFacts, TasksFollow
  <1> QED  BY <1>2, <1>3, <1>5

(* HandleError of a live call. *)
LEMMA HandleErrorOK ==
  ASSUME Base, NEW e \in Ends, NEW c \in Own(e), Live(call[c]), HandleError(e, c)
  PROVE  CallsOK(call') /\ ListsOK(list') /\ TasksOK(call', tasks')
  <1>1. /\ call' = MarkClosed(c) /\ list' = [list EXCEPT ![e] = Without(@, c)]
        /\ tasks' = tasks \cup Return(e, Callback(c))
    BY DEF HandleError, Live
  <1>2. CallsOK(call') /\ ListsOK(list') /\ TasksOK(call', tasks)
    BY <1>1, CloseCallOK
  <1>3. TasksOK(call', tasks \cup Return(e, Callback(c)))
    BY <1>2, CallbackOK, ReturnTasks
  <1> QED  BY <1>1, <1>2, <1>3

(* What RegisterCall does when it finds no call to replace. *)
RegistersNew(e, c, new, t) ==
  /\ FindCallById(e, new.chan, new.rpc) = {} /\ t.cb = NoCallback
  /\ call' = Update(call, c, new)
  /\ list' = Update(list, e, <<c>> \o list[e])

(* What it does when it replaces o. *)
RegistersOver(e, c, new, t, o) ==
  /\ o \in FindCallById(e, new.chan, new.rpc) /\ t.cb = Callback(o)
  /\ call' = Update(Update(call, o, Closed), c, new)
  /\ list' = Update(list, e, <<c>> \o Without(list[e], o))

(* Either of them, and the task t it leaves. *)
Registers(e, c, new, at, t) ==
  /\ tasks' = tasks \cup {t} /\ t.at = at /\ t.e = e /\ t.c = c /\ t.gen = new.gen
  /\ RegistersNew(e, c, new, t) \/ \E o : RegistersOver(e, c, new, t, o)

(* The constructor of a call does one of these two things. *)
LEMMA RegisterFacts ==
  ASSUME Base, NEW e \in Ends, NEW c \in Own(e), NEW new, Live(new), NEW at, RegisterCall(e, c,
         new, at)
  PROVE  \E t : Registers(e, c, new, at, t)
  <1> DEFINE old == FindCallById(e, new.chan, new.rpc)
             o == CHOOSE x \in old : TRUE
             cb == IF old = {} THEN NoCallback ELSE Callback(o)
             t == Task(at, e, c, Unassigned, Head_, cb, new.gen)
  <1>1. /\ call' = [x \in AllCalls |-> IF x = c THEN new
                                       ELSE IF x \in old THEN Closed ELSE call[x]]
        /\ list' = [list EXCEPT ![e] = <<c>> \o (IF old = {} THEN @ ELSE Without(@, o))]
        /\ tasks' = tasks \cup {t}
    BY DEF RegisterCall
  <1>2. c \in AllCalls /\ call \in [AllCalls -> CallRec] /\ list \in [Ends -> Seq(AllCalls)]
    BY ConstantFacts DEF Base, CallsOK, ListsOK
  <1>3. t.at = at /\ t.e = e /\ t.c = c /\ t.gen = new.gen /\ t.cb = cb
    <2> HIDE DEF cb
    <2> QED  BY DEF Task
  <1> HIDE DEF old, t
  <1>4. CASE old = {}
    <2>1. call' = Update(call, c, new)
      BY <1>1, <1>2, <1>4 DEF Update
    <2>2. list' = Update(list, e, <<c>> \o list[e])
      BY <1>1, <1>2, <1>4 DEF Update
    <2>3. cb = NoCallback
      BY <1>4
    <2> HIDE DEF cb
    <2>4. RegistersNew(e, c, new, t)
      BY <1>3, <1>4, <2>1, <2>2, <2>3 DEF old, RegistersNew
    <2> QED  BY <1>1, <1>3, <2>4 DEF Registers
  <1>5. CASE old # {}
    <2>1. o \in old
      BY <1>5
    <2> HIDE DEF o
    <2>2. old = {o} /\ o \in AllCalls
      BY <2>1, FoundCall DEF old, Live
    <2>3. call' = Update(Update(call, o, Closed), c, new)
      BY <1>1, <1>2, <2>2 DEF Update
    <2>4. list' = Update(list, e, <<c>> \o Without(list[e], o))
      BY <1>1, <1>2, <1>5 DEF Update
    <2>5. cb = Callback(o)
      BY <1>5
    <2> HIDE DEF cb
    <2>6. t.cb = Callback(o)
      BY <1>3, <2>5
    <2>7. RegistersOver(e, c, new, t, o)
      BY <2>1, <2>3, <2>4, <2>6 DEF RegistersOver, old
    <2> QED  BY <1>1, <1>3, <2>7 DEF Registers
  <1> QED  BY <1>4, <1>5

(* SendInitialClientRequest either leaves the call under way or closes it, for on_error. *)
LEMMA SendFacts ==
  ASSUME Base, NEW c \in ClientCalls, NEW k, k.active => Live(k), NEW g, NEW l, NEW ts,
         SendInitialClientRequest(c, k, g, l, ts)
  PROVE  /\ WireOK(net') /\ held' = Update(held, c, g) /\ ended' = Given(c, g)
         /\ \/ /\ k.active /\ call' = Update(call, c, k) /\ list' = Update(list, "client", l)
               /\ tasks' = ts
            \/ /\ call' = Update(call, c, Closed)
               /\ list' = Update(list, "client", IF k.active THEN Without(l, c) ELSE l)
               /\ \E t : tasks' = ts \cup {t} /\ t.at = "return" /\ t.e = "client" /\ t.cb = c
  <1>1. "client" \in Ends /\ "REQUEST" \in PacketTypes /\ c # NoCallback
    BY ConstantFacts DEF PacketTypes
  <1>2. PICK o \in Outcomes("client", k, "REQUEST") :
          /\ net' = o.net
          /\ call' = [call EXCEPT ![c] = IF o.ok THEN k ELSE Closed]
          /\ list' = [list EXCEPT !["client"] = IF o.ok \/ ~k.active THEN l ELSE Without(l, c)]
          /\ tasks' = IF o.ok THEN ts ELSE ts \cup Return("client", c)
    BY DEF SendInitialClientRequest
  <1>3. WireOK(o.net) /\ (o.ok => k.active)
    BY <1>1, OutcomeOK
  <1>6. held' = Update(held, c, g) /\ ended' = Given(c, g)
    BY DEF SendInitialClientRequest, Update
  <1>4. CASE o.ok
    <2>1. call' = Update(call, c, k) /\ list' = Update(list, "client", l) /\ tasks' = ts
      BY <1>2, <1>4 DEF Update
    <2> QED  BY <1>2, <1>3, <1>4, <1>6, <2>1
  <1>5. CASE ~o.ok
    <2>1. call' = Update(call, c, Closed)
      BY <1>2, <1>5 DEF Update
    <2>2. list' = Update(list, "client", IF k.active THEN Without(l, c) ELSE l)
      BY <1>2, <1>5 DEF Update
    <2>3. tasks' = ts \cup Return("client", c)
      BY <1>2, <1>5
    <2>4. PICK t : Return("client", c) = {t} /\ t.at = "return" /\ t.e = "client" /\ t.cb = c
      BY <1>1, ReturnOK
    <2>5. tasks' = ts \cup {t}
      BY <2>3, <2>4
    <2> QED  BY <1>2, <1>3, <1>6, <2>1, <2>2, <2>4, <2>5
  <1> QED  BY <1>4, <1>5

(* MoveFrom moves the call over, or only closes the one dst holds. *)
LEMMA MoveFacts ==
  ASSUME Base, NEW e \in Ends, NEW dst \in Own(e), NEW src \in Own(e), MoveFrom(e, dst, src)
  PROVE  /\ dst # src /\ WireOK(net')
         /\ \/ /\ call[src].active
               /\ call' = Update(Update(call, dst, call[src]), src, Closed)
               /\ list' = Update(list, e, <<dst>> \o Without(Without(list[e], dst), src))
            \/ /\ ~call[src].active
               /\ call' = Update(call, dst, Closed)
               /\ list' = Update(list, e, Without(list[e], dst))
  <1>1. /\ dst \in AllCalls /\ src \in AllCalls /\ call \in [AllCalls -> CallRec]
        /\ list \in [Ends -> Seq(AllCalls)]
    BY ConstantFacts DEF Base, CallsOK, ListsOK
  <1>2. dst # src
    BY DEF MoveFrom
  <1>3. WireOK(net')
    <2>1. PICK o \in CloseOutcomes(e, dst) : net' = o.net
      BY DEF MoveFrom
    <2>2. call[dst].active => Live(call[dst])
      BY <1>1, LiveOrClosed DEF Base
    <2>3. LastPacket(e, dst) \in PacketTypes
      BY DEF LastPacket, PacketTypes
    <2>4. CASE SendsLast(e, dst)
      BY <2>1, <2>2, <2>3, <2>4, OutcomeOK DEF CloseOutcomes
    <2>5. CASE ~SendsLast(e, dst)
      <3>1. o = [ok |-> TRUE, net |-> net, lost |-> lost]
        BY <2>5 DEF CloseOutcomes
      <3>2. o.net = net
        BY <3>1
      <3> QED  BY <2>1, <3>2 DEF Base
    <2> QED  BY <2>4, <2>5
  <1>4. CASE call[src].active
    <2>1. call' = Update(Update(call, dst, call[src]), src, Closed)
      BY <1>4 DEF MoveFrom, Update
    <2>2. list' = Update(list, e, <<dst>> \o Without(Without(list[e], dst), src))
      BY <1>4 DEF MoveFrom, Update
    <2> QED  BY <1>2, <1>3, <1>4, <2>1, <2>2
  <1>5. CASE ~call[src].active
    <2>1. call' = IF call[dst].active THEN MarkClosed(dst) ELSE call
      BY <1>5 DEF MoveFrom
    <2>2. call' = Update(call, dst, Closed)
      <3>1. CASE call[dst].active
        BY <2>1, <3>1 DEF MarkClosed, Update
      <3>2. CASE ~call[dst].active
        <4>1. call[dst] = Closed
          BY <1>1, <3>2, LiveOrClosed DEF Base
        <4> QED  BY <1>1, <2>1, <3>2, <4>1 DEF Update
      <3> QED  BY <3>1, <3>2
    <2>3. list' = Update(list, e, Without(list[e], dst))
      BY <1>5 DEF MoveFrom, Update
    <2> QED  BY <1>2, <1>3, <1>5, <2>2, <2>3
  <1> QED  BY <1>4, <1>5

(* The loop of CloseChannel stops at position j of l and leaves task t. *)
StopsAt(e, ch, l, prev, ts, j, t) ==
  /\ call[l[j]].chan = ch /\ call' = Update(call, l[j], Closed)
  /\ \A i \in 1..Len(l) : i > Position(l, prev) /\ i < j => call[l[i]].chan # ch
  /\ tasks' = ts \cup {t} /\ t.at = "close" /\ t.e = e /\ t.c = l[j] /\ t.ch = ch
  /\ t.prev = (IF j = 1 THEN Head_ ELSE l[j - 1])
  /\ t.cb = Callback(l[j])

(* The loop of CloseChannel ends, or stops at the next call of the channel. *)
LEMMA CloseFromFacts ==
  ASSUME NEW e, NEW ch, NEW l \in Seq(Own(e)), NEW prev, NEW ts, CloseFrom(e, ch, l, prev, ts)
  PROVE  /\ list' = Update(list, e, l)
         /\ \/ call' = call /\ tasks' = ts
            \/ \E j \in 1..Len(l) : \E t : StopsAt(e, ch, l, prev, ts, j, t)
  <1> DEFINE hits == {j \in 1..Len(l) : j > Position(l, prev) /\ call[l[j]].chan = ch}
             hit == CHOOSE j \in hits : \A k \in hits : j <= k
             p == IF hit = 1 THEN Head_ ELSE l[hit - 1]
             cb == Callback(l[hit])
             t == Task("close", e, l[hit], ch, p, cb, 0)
  <1>1. list' = Update(list, e, l)
    BY DEF CloseFrom, Update
  <1>2. CASE hits = {}
    BY <1>1, <1>2 DEF CloseFrom
  <1>3. CASE hits # {}
    <2>1. call' = MarkClosed(l[hit]) /\ tasks' = ts \cup {t}
      BY <1>3 DEF CloseFrom
    <2>2. hit \in hits
      <3>1. hits \in SUBSET Nat
        OBVIOUS
      <3> HIDE DEF hits
      <3>2. Min(hits) \in hits /\ \A y \in hits : Min(hits) <= y
        BY <1>3, <3>1, NatMin
      <3> QED  BY <3>2
    <2>3. hit \in 1..Len(l) /\ call[l[hit]].chan = ch
      BY <2>2
    <2>7. \A i \in 1..Len(l) : i > Position(l, prev) /\ i < hit => call[l[i]].chan # ch
      <3>1. hits \in SUBSET Nat
        OBVIOUS
      <3>2. \A y \in hits : hit <= y
        <4> HIDE DEF hits
        <4>2. Min(hits) \in hits /\ \A y \in hits : Min(hits) <= y
          BY <1>3, <3>1, NatMin
        <4> QED  BY <4>2
      <3> SUFFICES ASSUME NEW i \in 1..Len(l), i > Position(l, prev), i < hit, call[l[i]].chan = ch PROVE FALSE
        OBVIOUS
      <3>3. i \in hits
        OBVIOUS
      <3> HIDE DEF hits, hit
      <3> QED  BY <2>3, <3>2, <3>3
    <2> HIDE DEF hit, p
    <2>8. cb = Callback(l[hit])
      OBVIOUS
    <2> HIDE DEF cb
    <2>4. t.at = "close" /\ t.e = e /\ t.c = l[hit] /\ t.ch = ch /\ t.prev = p /\ t.cb = cb
      BY DEF Task
    <2> HIDE DEF t
    <2>5. call' = Update(call, l[hit], Closed)
      BY <2>1 DEF MarkClosed, Update
    <2>6. StopsAt(e, ch, l, prev, ts, hit, t)
      BY <2>1, <2>3, <2>4, <2>5, <2>7, <2>8 DEF StopsAt, p
    <2> QED  BY <1>1, <2>3, <2>6
  <1> QED  BY <1>2, <1>3

(* No Start in the middle will go on with c. *)
NotStarting(ts, c) == \A u \in ts : u.at = "start" => u.c # c

(* The application does not touch an object another of its threads is starting a call in. *)
LEMMA FreeFacts ==
  ASSUME NEW c, Free(c)
  PROVE  NotStarting(tasks, c)
  BY DEF Free, NotStarting

(* Server calls are never the object of a Start. *)
LEMMA ServerNotStarting ==
  ASSUME Base, NEW c \in Own("server")
  PROVE  NotStarting(tasks, c)
  BY ConstantFacts DEF Base, TasksOK, TaskOK, NotStarting

(* Registering a call keeps the types. *)
LEMMA RegisterOK ==
  ASSUME Base, NEW e \in Ends, NEW c \in Own(e), NEW new, Live(new), NotStarting(tasks, c),
         NEW at, \/ at = "start" /\ e = "client"
                 \/ at = "handler" /\ e = "server",
         RegisterCall(e, c, new, at)
  PROVE  CallsOK(call') /\ ListsOK(list') /\ TasksOK(call', tasks')
  <1>1. /\ c \in AllCalls /\ CallsOK(call) /\ ListsOK(list) /\ TasksOK(call, tasks)
        /\ list[e] \in Seq(Own(e)) /\ new.chan \in Channels /\ new.gen \in Gens /\ new.active
    BY ConstantFacts DEF Base, ListsOK, Live
  <1>2. PICK t : Registers(e, c, new, at, t)
    BY RegisterFacts
  <1>9. tasks' = tasks \cup {t} /\ t.at = at /\ t.e = e /\ t.c = c /\ t.gen = new.gen
    BY <1>2 DEF Registers
  <1>3. \A u \in tasks : u.at = "start" => u.c \in AllCalls /\ u.c # c
    BY <1>1, ConstantFacts DEF TasksOK, TaskOK, NotStarting
  <1>4. /\ CallsOK(call') /\ ListsOK(list') /\ call'[c] = new
        /\ \A x \in AllCalls : x # c => call'[x] = call[x] \/ ~call'[x].active
        /\ t.cb \in ClientCalls \cup {NoCallback}
    <2>1. CASE RegistersNew(e, c, new, t)
      <3>0. t.cb = NoCallback /\ call' = Update(call, c, new) /\ list' = Update(list, e, <<c>> \o list[e])
        BY <2>1 DEF RegistersNew
      <3>1. <<c>> \o list[e] \in Seq(Own(e))
        BY <1>1, Prepend
      <3>2. ListsOK(list')
        BY <1>1, <3>0, <3>1, OneList
      <3>3. CallsOK(call') /\ call'[c] = new /\ \A x \in AllCalls : x # c => call'[x] = call[x]
        BY <1>1, <3>0, OneCall
      <3> QED  BY <3>0, <3>2, <3>3
    <2>2. ASSUME NEW o, RegistersOver(e, c, new, t, o)
          PROVE  /\ CallsOK(call') /\ ListsOK(list') /\ call'[c] = new
                 /\ \A x \in AllCalls : x # c => call'[x] = call[x] \/ ~call'[x].active
                 /\ t.cb \in ClientCalls \cup {NoCallback}
      <3>0. /\ o \in FindCallById(e, new.chan, new.rpc) /\ t.cb = Callback(o)
            /\ call' = Update(Update(call, o, Closed), c, new)
            /\ list' = Update(list, e, <<c>> \o Without(list[e], o))
        BY <2>2 DEF RegistersOver
      <3>1. o \in AllCalls /\ Live(call[o])
        BY <1>1, <3>0, FoundCall
      <3> DEFINE mid == Update(call, o, Closed)
      <3>2. CallsOK(mid) /\ mid[o] = Closed /\ \A x \in AllCalls : x # o => mid[x] = call[x]
        BY <1>1, <3>1, OneCall
      <3> HIDE DEF mid
      <3>3. CallsOK(call') /\ call'[c] = new /\ \A x \in AllCalls : x # c => call'[x] = mid[x]
        <4>1. call' = Update(mid, c, new)
          BY <3>0 DEF mid
        <4> QED  BY <1>1, <3>2, <4>1, OneCall
      <3>4. Without(list[e], o) \in Seq(Own(e))
        BY <1>1, WithoutOK
      <3>5. <<c>> \o Without(list[e], o) \in Seq(Own(e))
        BY <3>4, Prepend
      <3>6. ListsOK(list')
        BY <1>1, <3>0, <3>5, OneList
      <3>7. t.cb \in ClientCalls \cup {NoCallback}
        BY <3>0, CallbackOK
      <3>8. \A x \in AllCalls : x # c => call'[x] = call[x] \/ ~call'[x].active
        BY <3>2, <3>3, ClosedFacts
      <3> QED  BY <3>3, <3>6, <3>7, <3>8
    <2> QED  BY <1>2, <2>1, <2>2 DEF Registers
  <1>5. TasksOK(call', tasks)
    BY <1>1, <1>3, <1>4, TasksFollow
  <1>6. TaskOK(call', t)
    BY <1>1, <1>9, <1>4, ConstantFacts DEF TaskOK
  <1>7. TasksOK(call', tasks \cup {t})
    BY <1>9, <1>3, <1>5, <1>6, AddTask
  <1> QED  BY <1>9, <1>4, <1>7

(* Sending the first request keeps the types. *)
LEMMA SendOK ==
  ASSUME Base, NEW c \in ClientCalls, NEW k, k.active => Live(k), NEW g,
         NEW l \in Seq(Own("client")),
         NEW ts, TasksOK(call, ts), NotStarting(ts, c), SendInitialClientRequest(c, k, g, l, ts)
  PROVE  WireOK(net') /\ CallsOK(call') /\ ListsOK(list') /\ TasksOK(call', tasks')
  <1>1. /\ "client" \in Ends /\ c \in AllCalls /\ CallsOK(call) /\ ListsOK(list)
    BY ConstantFacts DEF Base
  <1>2. \A u \in ts : u.at = "start" => u.c \in AllCalls /\ u.c # c
    BY ConstantFacts DEF TasksOK, TaskOK, NotStarting
  <1>3. /\ WireOK(net')
        /\ \/ /\ k.active /\ call' = Update(call, c, k) /\ list' = Update(list, "client", l)
              /\ tasks' = ts
           \/ /\ call' = Update(call, c, Closed)
              /\ list' = Update(list, "client", IF k.active THEN Without(l, c) ELSE l)
              /\ \E t : tasks' = ts \cup {t} /\ t.at = "return" /\ t.e = "client" /\ t.cb = c
    BY SendFacts
  <1>4. Without(l, c) \in Seq(Own("client"))
    BY RemoveFirstFacts DEF Without
  <1>5. ListsOK(list')
    <2>1. CASE list' = Update(list, "client", l)
      BY <1>1, <2>1, OneList
    <2>2. CASE list' = Update(list, "client", IF k.active THEN Without(l, c) ELSE l)
      <3>1. (IF k.active THEN Without(l, c) ELSE l) \in Seq(Own("client"))
        BY <1>4
      <3> QED  BY <1>1, <2>2, <3>1, OneList
    <2> QED  BY <1>3, <2>1, <2>2
  <1>6. CallsOK(call') /\ \A x \in AllCalls : x # c => call'[x] = call[x]
    <2>1. CASE k.active /\ call' = Update(call, c, k)
      BY <1>1, <2>1, OneCall
    <2>2. CASE call' = Update(call, c, Closed)
      BY <1>1, <2>2, OneCall
    <2> QED  BY <1>3, <2>1, <2>2
  <1>7. TasksOK(call', ts)
    BY <1>2, <1>6, TasksFollow
  <1>8. TasksOK(call', tasks')
    <2>1. ASSUME NEW t, tasks' = ts \cup {t}, t.at = "return", t.e = "client", t.cb = c
          PROVE  TasksOK(call', tasks')
      <3>1. TaskOK(call', t)
        BY <1>1, <2>1 DEF TaskOK
      <3> QED  BY <1>7, <2>1, <3>1, AddTask
    <2> QED  BY <1>3, <1>7, <2>1
  <1> QED  BY <1>3, <1>5, <1>6, <1>8

(* Moving a call keeps the types. *)
LEMMA MoveOK ==
  ASSUME Base, NEW e \in Ends, NEW dst \in Own(e), NEW src \in Own(e),
         NotStarting(tasks, dst), NotStarting(tasks, src), MoveFrom(e, dst, src)
  PROVE  WireOK(net') /\ CallsOK(call') /\ ListsOK(list') /\ TasksOK(call', tasks)
  <1>1. /\ CallsOK(call) /\ ListsOK(list) /\ TasksOK(call, tasks) /\ list[e] \in Seq(Own(e))
        /\ dst \in AllCalls /\ src \in AllCalls
    BY ConstantFacts DEF Base, ListsOK
  <1>2. /\ dst # src /\ WireOK(net')
        /\ \/ /\ call[src].active
              /\ call' = Update(Update(call, dst, call[src]), src, Closed)
              /\ list' = Update(list, e, <<dst>> \o Without(Without(list[e], dst), src))
           \/ /\ ~call[src].active
              /\ call' = Update(call, dst, Closed)
              /\ list' = Update(list, e, Without(list[e], dst))
    BY MoveFacts
  <1>3. Without(list[e], dst) \in Seq(Own(e))
    BY <1>1, WithoutOK
  <1>4. Without(Without(list[e], dst), src) \in Seq(Own(e))
    BY <1>3, RemoveFirstFacts DEF Without
  <1>5. <<dst>> \o Without(Without(list[e], dst), src) \in Seq(Own(e))
    BY <1>4, Prepend
  <1>6. ListsOK(list')
    <2>1. CASE list' = Update(list, e, <<dst>> \o Without(Without(list[e], dst), src))
      BY <1>1, <1>5, <2>1, OneList
    <2>2. CASE list' = Update(list, e, Without(list[e], dst))
      BY <1>1, <1>3, <2>2, OneList
    <2> QED  BY <1>2, <2>1, <2>2
  <1>7. CallsOK(call') /\ \A x \in AllCalls : x \notin {dst, src} => call'[x] = call[x]
    <2>1. CASE ~call[src].active /\ call' = Update(call, dst, Closed)
      BY <1>1, <2>1, OneCall
    <2>2. CASE call[src].active /\ call' = Update(Update(call, dst, call[src]), src, Closed)
      <3> DEFINE mid == Update(call, dst, call[src])
      <3>1. Live(call[src])
        BY <1>1, <2>2, LiveOrClosed
      <3>2. CallsOK(mid) /\ \A x \in AllCalls : x # dst => mid[x] = call[x]
        BY <1>1, <3>1, OneCall
      <3> HIDE DEF mid
      <3>3. call' = Update(mid, src, Closed)
        BY <2>2 DEF mid
      <3>4. CallsOK(call') /\ \A x \in AllCalls : x # src => call'[x] = mid[x]
        BY <1>1, <3>2, <3>3, OneCall
      <3> QED  BY <3>2, <3>4
    <2> QED  BY <1>2, <2>1, <2>2
  <1>8. \A u \in tasks : u.at = "start" => u.c \in AllCalls /\ u.c \notin {dst, src}
    BY <1>1, ConstantFacts DEF TasksOK, TaskOK, NotStarting
  <1>9. TasksOK(call', tasks)
    BY <1>1, <1>7, <1>8, TasksFollow
  <1> QED  BY <1>2, <1>6, <1>7, <1>9

(* Closing the calls of a channel keeps the types. *)
LEMMA CloseFromOK ==
  ASSUME Base, NEW e \in Ends, NEW ch \in Channels, NEW l \in Seq(Own(e)), NEW prev,
         NEW ts, TasksOK(call, ts), CloseFrom(e, ch, l, prev, ts)
  PROVE  CallsOK(call') /\ ListsOK(list') /\ TasksOK(call', tasks')
  <1>1. CallsOK(call) /\ ListsOK(list)
    BY DEF Base
  <1>2. /\ list' = Update(list, e, l)
        /\ \/ call' = call /\ tasks' = ts
           \/ \E j \in 1..Len(l) : \E t : StopsAt(e, ch, l, prev, ts, j, t)
    BY CloseFromFacts
  <1>3. ListsOK(list')
    BY <1>1, <1>2, OneList
  <1>4. CASE call' = call /\ tasks' = ts
    BY <1>1, <1>3, <1>4
  <1>5. ASSUME NEW j \in 1..Len(l), NEW t, StopsAt(e, ch, l, prev, ts, j, t)
        PROVE  CallsOK(call') /\ TasksOK(call', tasks')
    <2> DEFINE c == l[j]
    <2>1. c \in Own(e)
      OBVIOUS
    <2> HIDE DEF c
    <2>0. /\ call[c].chan = ch /\ call' = Update(call, c, Closed) /\ t.cb = Callback(c)
          /\ tasks' = ts \cup {t} /\ t.at = "close" /\ t.e = e /\ t.c = c /\ t.ch = ch
      BY <1>5 DEF StopsAt, c
    <2>2. c \in AllCalls
      BY <2>1, ConstantFacts
    <2>3. CallsOK(call') /\ call'[c] = Closed /\ \A x \in AllCalls : x # c => call'[x] = call[x]
      BY <1>1, <2>0, <2>2, OneCall
    <2>4. Live(call[c])
      BY <1>1, <2>0, <2>2, LiveOrClosed
    <2>5. t.cb \in ClientCalls \cup {NoCallback}
      BY <2>0, CallbackOK
    <2>6. TaskOK(call', t)
      BY <2>0, <2>1, <2>5 DEF TaskOK
    <2>7. TasksOK(call', ts)
      <3>1. \A u \in ts : u.at = "start" => u.c \in AllCalls
        BY ConstantFacts DEF TasksOK, TaskOK
      <3> QED  BY <2>3, <3>1, ClosedFacts, TasksFollow
    <2>8. TasksOK(call', ts \cup {t})
      BY <2>0, <2>6, <2>7, AddTask
    <2> QED  BY <2>0, <2>3, <2>8
  <1> QED  BY <1>2, <1>3, <1>4, <1>5

(* Callbacks are counted for calls of the client only. *)
LEMMA InvokedOK ==
  ASSUME Base, NEW cb
  PROVE  Invoked(cb) \in [Gens -> Int]
  <1>1. ended \in [Gens -> Int]
    BY DEF Base, OthersOK
  <1> QED  BY <1>1 DEF Invoked

(* Giving an object callbacks counts none. *)
LEMMA GivenOK ==
  ASSUME Base, NEW c, NEW h \in Gens \cup {0}
  PROVE  Given(c, h) \in [Gens -> Int]
  <1>1. ended \in [Gens -> Int]
    BY DEF Base, OthersOK
  <1> QED  BY <1>1 DEF Given, Shared

(* The call a packet is given to, and that it is the call the packet is of. *)
LEMMA CallOfFacts ==
  ASSUME Base, NEW e \in Ends, NEW p, Packet(p), NEW c \in CallOf(e, p)
  PROVE  /\ c \in Own(e) /\ c \in AllCalls /\ Live(call[c]) /\ call[c].chan = p.chan /\ call[c].rpc = p.rpc
         /\ MaxStarted <= MaxCallId => p.gen = call[c].gen
  <1>1. /\ p.chan \in Channels /\ c \in FindCallById(e, p.chan, p.rpc) /\ call[c].id = p.id
        /\ p.gen \in Gens /\ p.id = p.gen % MaxCallId
    BY DEF CallOf, Packet, PacketRec
  <1>2. c \in Own(e) /\ c \in AllCalls /\ Live(call[c]) /\ call[c].chan = p.chan /\ call[c].rpc = p.rpc
    BY <1>1, FoundCall
  <1>3. call[c].gen \in Gens /\ call[c].gen % MaxCallId = p.gen % MaxCallId
    BY <1>1, <1>2 DEF Live
  <1> QED  BY <1>1, <1>2, <1>3, SameIds

(* The packet that ProcessPacket handles. *)
LEMMA ArrivedPacket ==
  ASSUME Base, NEW e \in Ends, NEW p, Arrives(e, p)
  PROVE  WireOK(Taken(e)) /\ Packet(p)
  BY TakenOK DEF Arrives

(* The last packet of a call that its destructor or a move closes. *)
LEMMA CloseOutcomeOK ==
  ASSUME Base, NEW e \in Ends, NEW c \in AllCalls, NEW o \in CloseOutcomes(e, c)
  PROVE  WireOK(o.net)
  <1>1. call[c].active => Live(call[c])
    BY LiveOrClosed DEF Base
  <1>2. LastPacket(e, c) \in PacketTypes
    BY DEF LastPacket, PacketTypes
  <1>3. CASE SendsLast(e, c)
    BY <1>1, <1>2, <1>3, OutcomeOK DEF CloseOutcomes
  <1>4. CASE ~SendsLast(e, c)
    <2>1. o = [ok |-> TRUE, net |-> net, lost |-> lost]
      BY <1>4 DEF CloseOutcomes
    <2>2. o.net = net
      BY <2>1
    <2> QED  BY <2>2 DEF Base
  <1> QED  BY <1>3, <1>4

(* The parts of Base. *)
LEMMA BaseParts ==
  ASSUME Base
  PROVE  CallsOK(call) /\ ListsOK(list) /\ WireOK(net) /\ TasksOK(call, tasks) /\ OthersOK(open, started, held, ended)
  BY DEF Base

(* Steps that only put packets on the wire or take them off it. *)
LEMMA WireStep ==
  ASSUME Base, WireOK(net'), UNCHANGED <<call, list, open, started, tasks, held, ended>>
  PROVE  Base'
  <1>1. call' = call /\ list' = list /\ open' = open /\ started' = started /\ tasks' = tasks
        /\ held' = held /\ ended' = ended
    OBVIOUS
  <1> QED  BY <1>1, BaseParts, BasePrime

(* The client stream of a live call is opened or closed. *)
LEMMA StreamOK ==
  ASSUME Base, NEW c \in AllCalls, Live(call[c]), NEW k, Live(k), k.gen = call[c].gen,
         call' = Update(call, c, k)
  PROVE  CallsOK(call') /\ TasksOK(call', tasks)
  <1>1. CallsOK(call') /\ call'[c] = k /\ \A x \in AllCalls : x # c => call'[x] = call[x]
    BY BaseParts, OneCall
  <1>2. \A t \in tasks : t.at = "start" => t.c \in AllCalls
    BY BaseParts, ConstantFacts DEF TasksOK, TaskOK
  <1>3. call[c].active
    BY DEF Live
  <1>4. \A t \in tasks : t.at = "start" /\ call'[t.c].active =>
          call[t.c].active /\ call'[t.c].gen = call[t.c].gen
    BY <1>1, <1>2, <1>3
  <1>5. TasksOK(call', tasks)
    BY <1>4, BaseParts, TasksFollow
  <1> QED  BY <1>1, <1>5

(* Only the stream member changes. *)
LEMMA StreamRecord ==
  ASSUME NEW q, Live(q), NEW b \in BOOLEAN, NEW k, k = [q EXCEPT !.stream = b]
  PROVE  Live(k) /\ k.gen = q.gen /\ k.chan = q.chan /\ k.rpc = q.rpc
  BY DEF Live, CallRec

(* The record of a new call. *)
LEMMA CallRecord ==
  ASSUME NEW r \in Rpcs, NEW ch \in Channels, NEW i \in Nat, NEW g \in Nat, NEW s \in BOOLEAN
  PROVE  [active |-> TRUE, chan |-> ch, rpc |-> r, id |-> i, gen |-> g, stream |-> s]
           \in CallRec
  BY DEF CallRec

(* A new call is live. *)
LEMMA NewCallLive ==
  ASSUME NEW r \in Rpcs, NEW ch \in Channels, NEW g \in Gens, NEW k,
         k = NewCall(r, ch, g % MaxCallId, g)
  PROVE  Live(k) /\ k.chan = ch /\ k.rpc = r /\ k.gen = g
  <1>1. g % MaxCallId \in Nat /\ g \in Nat
    BY ConstantFacts DEF Gens
  <1> DEFINE i == g % MaxCallId
  <1>2. k = [active |-> TRUE, chan |-> ch, rpc |-> r, id |-> i, gen |-> g, stream |-> r \in ClientStreams]
    BY DEF NewCall
  <1>3. i \in Nat /\ i = g % MaxCallId
    BY <1>1
  <1> HIDE DEF i
  <1>4. (r \in ClientStreams) \in BOOLEAN
    OBVIOUS
  <1>5. k \in CallRec
    BY <1>1, <1>2, <1>3, <1>4, CallRecord, Zenon
  <1>6. k.active /\ k.chan = ch /\ k.rpc = r /\ k.id = i /\ k.gen = g
    BY <1>2
  <1> QED  BY <1>3, <1>5, <1>6 DEF Live

(* One lemma for each action: the types hold in the next state. *)
LEMMA StartBase ==
  ASSUME Base, NEW c \in ClientCalls, NEW r \in Rpcs, NEW ch \in Channels, Start(c, r, ch)
  PROVE  Base'
  <1> DEFINE g == started + 1
             k == NewCall(r, ch, NewCallId, g)
  <1>1. started \in 0..MaxStarted /\ started < MaxStarted /\ MaxStarted \in Nat
    BY ConstantFacts DEF Base, OthersOK, Start
  <1>2. g \in Gens /\ started' = g /\ started' \in 0..MaxStarted
    BY <1>1 DEF Gens, Start
  <1>3. NewCallId = g % MaxCallId
    BY DEF NewCallId
  <1>4. /\ IF FindCallById("client", ch, r) = {}
           THEN SendInitialClientRequest(c, k, g, <<c>> \o list["client"], tasks)
           ELSE /\ RegisterCall("client", c, k, "start") /\ held' = Update(held, c, 0)
                /\ net' = net /\ ended' = ended
        /\ open' = open
    BY DEF Start, Update
  <1> HIDE DEF g
  <1>5. Live(k) /\ k.chan = ch /\ k.rpc = r /\ k.gen = g
    BY <1>2, <1>3, NewCallLive
  <1> HIDE DEF k
  <1>7. NotStarting(tasks, c)
    BY FreeFacts DEF Start
  <1>8. open' \in [Ends -> SUBSET Channels] /\ held \in [ClientCalls -> Gens \cup {0}] /\ ended \in [Gens -> Int]
    BY <1>4, BaseParts DEF OthersOK
  <1>9. c \in Own("client") /\ "client" \in Ends
    BY ConstantFacts
  <1>10. CASE FindCallById("client", ch, r) = {}
    <2>1. SendInitialClientRequest(c, k, g, <<c>> \o list["client"], tasks)
      BY <1>4, <1>10
    <2>2. <<c>> \o list["client"] \in Seq(Own("client"))
      BY <1>9, BaseParts, Prepend DEF ListsOK
    <2>3. WireOK(net') /\ CallsOK(call') /\ ListsOK(list') /\ TasksOK(call', tasks')
      BY <1>5, <1>7, <2>1, <2>2, BaseParts, SendOK
    <2>4. held' = Update(held, c, g) /\ ended' = Given(c, g)
      BY <1>5, <2>1, SendFacts
    <2>5. held' \in [ClientCalls -> Gens \cup {0}] /\ ended' \in [Gens -> Int]
      BY <1>2, <1>8, <2>4, GivenOK DEF Update
    <2>6. OthersOK(open', started', held', ended')
      BY <1>2, <1>8, <2>5 DEF OthersOK
    <2> QED  BY <2>3, <2>6, BasePrime
  <1>11. CASE FindCallById("client", ch, r) # {}
    <2>1. RegisterCall("client", c, k, "start") /\ net' = net /\ held' = Update(held, c, 0) /\ ended' = ended
      BY <1>4, <1>11
    <2>2. CallsOK(call') /\ ListsOK(list') /\ TasksOK(call', tasks')
      BY <1>5, <1>7, <1>9, <2>1, RegisterOK
    <2>3. held' \in [ClientCalls -> Gens \cup {0}]
      BY <1>8, <2>1 DEF Update
    <2>4. OthersOK(open', started', held', ended')
      BY <1>2, <1>8, <2>1, <2>3 DEF OthersOK
    <2> QED  BY <2>1, <2>2, <2>4, BaseParts, BasePrime
  <1> QED  BY <1>10, <1>11

(* The call FinishStart goes on with. *)
LEMMA StartedCall ==
  ASSUME Base, NEW t \in tasks, t.at = "start"
  PROVE  /\ t.c \in ClientCalls /\ t.c \in AllCalls /\ t.gen \in Gens
         /\ call[t.c].active => Live(call[t.c])
         /\ NotStarting(tasks \ {t}, t.c)
  <1>1. /\ t.c \in ClientCalls /\ t.c \in AllCalls /\ t.gen \in Gens
        /\ NotStarting(tasks \ {t}, t.c)
    BY ConstantFacts DEF Base, TasksOK, TaskOK, NotStarting
  <1> QED  BY <1>1, LiveOrClosed, BaseParts

(* The rest of a Start. *)
LEMMA FinishStartBase ==
  ASSUME Base, NEW t, FinishStart(t)
  PROVE  Base'
  <1>1. /\ t \in tasks /\ t.at = "start"
        /\ SendInitialClientRequest(t.c, call[t.c], t.gen, list["client"], tasks \ {t})
        /\ open' = open /\ started' = started
    BY DEF FinishStart
  <1>2. /\ t.c \in ClientCalls /\ t.gen \in Gens
        /\ (call[t.c].active => Live(call[t.c])) /\ NotStarting(tasks \ {t}, t.c)
    BY <1>1, StartedCall
  <1>3. list["client"] \in Seq(Own("client"))
    BY ConstantFacts, BaseParts DEF ListsOK
  <1>4. TasksOK(call, tasks \ {t})
    BY BaseParts, DropTask
  <1>5. WireOK(net') /\ CallsOK(call') /\ ListsOK(list') /\ TasksOK(call', tasks')
    BY <1>1, <1>2, <1>3, <1>4, SendOK
  <1>6. held' = Update(held, t.c, t.gen) /\ ended' = Given(t.c, t.gen)
    BY <1>1, <1>2, SendFacts
  <1>7. held' \in [ClientCalls -> Gens \cup {0}] /\ ended' \in [Gens -> Int]
    BY <1>2, <1>6, BaseParts, GivenOK DEF Update, OthersOK
  <1>8. OthersOK(open', started', held', ended')
    BY <1>1, <1>7, BaseParts DEF OthersOK
  <1> QED  BY <1>5, <1>8, BasePrime

(* Writing to a stream. *)
LEMMA WriteBase ==
  ASSUME Base, NEW e \in Ends, NEW c \in Own(e), Write(e, c)
  PROVE  Base'
  <1> DEFINE type == IF e = "client" THEN "CLIENT_STREAM" ELSE "SERVER_STREAM"
  <1>1. type \in PacketTypes
    BY DEF PacketTypes
  <1>2. call[c].active => Live(call[c])
    BY ConstantFacts, BaseParts, LiveOrClosed
  <1>3. (\E o \in Outcomes(e, call[c], type) : net' = o.net) /\ UNCHANGED <<call, list, open, started, tasks, held, ended>>
    BY DEF Write
  <1> HIDE DEF type
  <1>4. WireOK(net')
    BY <1>1, <1>2, <1>3, OutcomeOK
  <1> QED  BY <1>3, <1>4, WireStep

(* Closing the client stream. *)
LEMMA CloseClientStreamBase ==
  ASSUME Base, NEW c \in ClientCalls, CloseClientStream(c)
  PROVE  Base'
  <1> DEFINE k == [call[c] EXCEPT !.stream = FALSE]
  <1>1. /\ call[c].active /\ UNCHANGED <<list, open, started, tasks, held, ended>>
        /\ \E o \in Outcomes("client", call[c], "CLIENT_STREAM_END") : net' = o.net
        /\ call' = Update(call, c, k)
    BY DEF CloseClientStream, Update
  <1>2. c \in AllCalls /\ "client" \in Ends /\ "CLIENT_STREAM_END" \in PacketTypes
    BY ConstantFacts DEF PacketTypes
  <1>3. Live(call[c])
    BY <1>1, <1>2, BaseParts, LiveOrClosed
  <1>4. Live(k) /\ k.gen = call[c].gen
    BY <1>3, StreamRecord
  <1> HIDE DEF k
  <1>5. CallsOK(call') /\ TasksOK(call', tasks)
    BY <1>1, <1>2, <1>3, <1>4, StreamOK
  <1>6. WireOK(net')
    BY <1>1, <1>2, <1>3, OutcomeOK
  <1>7. list' = list /\ open' = open /\ started' = started /\ tasks' = tasks /\ held' = held /\ ended' = ended
    BY <1>1
  <1> QED  BY <1>5, <1>6, <1>7, BaseParts, BasePrime

(* A call is closed and its last packet sent. *)
LEMMA CloseStep ==
  ASSUME Base, NEW e \in Ends, NEW c \in Own(e), WireOK(net'),
         call' = MarkClosed(c), list' = [list EXCEPT ![e] = Without(@, c)],
         open' = open, started' = started, tasks' = tasks, held' = held, ended' = ended
  PROVE  Base'
  <1>1. CallsOK(call') /\ ListsOK(list') /\ TasksOK(call', tasks)
    BY CloseCallOK
  <1> QED  BY <1>1, BaseParts, BasePrime

(* Cancel, Finish and the destructor of a server call. *)
LEMMA CloseAndSendBase ==
  ASSUME Base, NEW e \in Ends, NEW c \in Own(e), CloseAndSendFinalPacket(e, c)
  PROVE  Base'
  <1> DEFINE type == IF e = "client" THEN "CLIENT_ERROR" ELSE "RESPONSE"
  <1>1. type \in PacketTypes
    BY DEF PacketTypes
  <1>2. call[c].active => Live(call[c])
    BY ConstantFacts, BaseParts, LiveOrClosed
  <1>3. \E o \in Outcomes(e, call[c], type) : net' = o.net
    BY DEF CloseAndSendFinalPacket
  <1> HIDE DEF type
  <1>4. WireOK(net')
    BY <1>1, <1>2, <1>3, OutcomeOK
  <1>5. /\ call' = MarkClosed(c) /\ list' = [list EXCEPT ![e] = Without(@, c)]
        /\ open' = open /\ started' = started /\ tasks' = tasks /\ held' = held /\ ended' = ended
    BY DEF CloseAndSendFinalPacket
  <1> QED  BY <1>4, <1>5, CloseStep

(* The destructor of a client call. *)
LEMMA DestroyBase ==
  ASSUME Base, NEW c \in ClientCalls, DestroyClientCall(c)
  PROVE  Base'
  <1>1. c \in AllCalls /\ c \in Own("client") /\ "client" \in Ends
    BY ConstantFacts
  <1>2. WireOK(net')
    <2>1. PICK o \in CloseOutcomes("client", c) : net' = o.net
      BY DEF DestroyClientCall
    <2> QED  BY <1>1, <2>1, CloseOutcomeOK
  <1>3. /\ call' = MarkClosed(c) /\ list' = [list EXCEPT !["client"] = Without(@, c)]
        /\ open' = open /\ started' = started /\ tasks' = tasks /\ held' = held /\ ended' = ended
    BY DEF DestroyClientCall
  <1> QED  BY <1>1, <1>2, <1>3, CloseStep

(* Move assignment by the client's application. *)
LEMMA MoveBase ==
  ASSUME Base, NEW dst \in ClientCalls, NEW src \in ClientCalls, Move(dst, src)
  PROVE  Base'
  <1>1. "client" \in Ends /\ dst \in Own("client") /\ src \in Own("client")
    BY ConstantFacts
  <1>2. /\ Free(dst) /\ Free(src) /\ MoveFrom("client", dst, src)
        /\ open' = open /\ started' = started /\ tasks' = tasks /\ ended' = Given(dst, held[src])
        /\ held' = IF call[src].active THEN [held EXCEPT ![dst] = held[src], ![src] = 0] ELSE held
    BY DEF Move
  <1>3. NotStarting(tasks, dst) /\ NotStarting(tasks, src)
    BY <1>2, FreeFacts
  <1>4. WireOK(net') /\ CallsOK(call') /\ ListsOK(list') /\ TasksOK(call', tasks)
    BY <1>1, <1>2, <1>3, MoveOK
  <1>5. held' \in [ClientCalls -> Gens \cup {0}] /\ ended' \in [Gens -> Int]
    BY <1>2, BaseParts, GivenOK DEF OthersOK
  <1>6. OthersOK(open', started', held', ended')
    BY <1>2, <1>5, BaseParts DEF OthersOK
  <1> QED  BY <1>2, <1>4, <1>6, BasePrime

(* Channels are opened and closed. *)
LEMMA ChannelBase ==
  ASSUME Base, NEW e \in Ends, NEW ch \in Channels, OpenChannel(e, ch) \/ CloseChannel(e, ch)
  PROVE  Base'
  <1>1. open \in [Ends -> SUBSET Channels] /\ started \in 0..MaxStarted /\ held \in [ClientCalls -> Gens \cup {0}]
        /\ ended \in [Gens -> Int]
    BY DEF Base, OthersOK
  <1>2. CASE OpenChannel(e, ch)
    <2>1. /\ open' \in [Ends -> SUBSET Channels]
          /\ call' = call /\ list' = list /\ started' = started /\ net' = net
          /\ tasks' = tasks /\ held' = held /\ ended' = ended
      BY <1>1, <1>2 DEF OpenChannel
    <2>2. OthersOK(open', started', held', ended')
      BY <1>1, <2>1 DEF OthersOK
    <2> QED  BY <2>1, <2>2, BaseParts, BasePrime
  <1>3. CASE CloseChannel(e, ch)
    <2>1. /\ open' \in [Ends -> SUBSET Channels] /\ CloseFrom(e, ch, list[e], Head_, tasks)
          /\ started' = started /\ net' = net /\ held' = held /\ ended' = ended
      BY <1>1, <1>3 DEF CloseChannel
    <2>2. OthersOK(open', started', held', ended')
      BY <1>1, <2>1 DEF OthersOK
    <2>3. list[e] \in Seq(Own(e))
      BY BaseParts DEF ListsOK
    <2>4. CallsOK(call') /\ ListsOK(list') /\ TasksOK(call', tasks')
      BY <2>1, <2>3, BaseParts, CloseFromOK
    <2> QED  BY <2>1, <2>2, <2>4, BaseParts, BasePrime
  <1> QED  BY <1>2, <1>3

(* CloseChannel goes on. *)
LEMMA ContinueCloseBase ==
  ASSUME Base, NEW t, ContinueClose(t)
  PROVE  Base'
  <1> DEFINE l == list[t.e]
             listed == t.prev = Head_ \/ Position(l, t.prev) > 0
             prev == IF listed THEN t.prev ELSE Head_
             l2 == IF listed /\ Follows(l, prev) # Head_ THEN Without(l, Follows(l, prev)) ELSE l
  <1>1. /\ t \in tasks /\ t.at = "close" /\ held' = held /\ ended' = ended
        /\ CloseFrom(t.e, t.ch, l2, prev, tasks \ {t})
        /\ open' = open /\ started' = started /\ net' = net
    BY DEF ContinueClose
  <1>2. t.e \in Ends /\ t.ch \in Channels
    BY <1>1 DEF Base, TasksOK, TaskOK
  <1>3. l \in Seq(Own(t.e))
    BY <1>2, BaseParts DEF ListsOK
  <1> HIDE DEF l, listed, prev
  <1>4. Without(l, Follows(l, prev)) \in Seq(Own(t.e))
    BY <1>3, RemoveFirstFacts DEF Without
  <1>5. l2 \in Seq(Own(t.e))
    BY <1>3, <1>4
  <1> HIDE DEF l2
  <1>6. TasksOK(call, tasks \ {t})
    BY BaseParts, DropTask
  <1>7. CallsOK(call') /\ ListsOK(list') /\ TasksOK(call', tasks')
    BY <1>1, <1>2, <1>5, <1>6, CloseFromOK
  <1>8. OthersOK(open', started', held', ended')
    BY <1>1, BaseParts DEF OthersOK
  <1> QED  BY <1>1, <1>7, <1>8, BaseParts, BasePrime

(* What is left of the operation once its callback has been invoked. *)
LEMMA CallbackOver ==
  ASSUME NEW t, RunCallback(t)
  PROVE  \/ t.at = "return" /\ tasks' = tasks \ {t}
         \/ /\ t.at # "return"
            /\ \E u : /\ tasks' = (tasks \ {t}) \cup {u} /\ u.cb = NoCallback /\ u.at = t.at /\ u.e = t.e
                      /\ u.c = t.c /\ u.ch = t.ch /\ u.prev = t.prev /\ u.gen = t.gen
  <1> DEFINE u == Task(t.at, t.e, t.c, t.ch, t.prev, NoCallback, t.gen)
  <1>1. /\ u.cb = NoCallback /\ u.at = t.at /\ u.e = t.e
        /\ u.c = t.c /\ u.ch = t.ch /\ u.prev = t.prev /\ u.gen = t.gen
    BY DEF Task
  <1>2. tasks' = (tasks \ {t}) \cup (IF t.at = "return" THEN {} ELSE {u})
    BY DEF RunCallback
  <1> HIDE DEF u
  <1> QED  BY <1>1, <1>2

(* A callback is invoked. *)
LEMMA RunCallbackBase ==
  ASSUME Base, NEW t, RunCallback(t)
  PROVE  Base'
  <1>1. /\ t \in tasks /\ ended' = Invoked(t.cb) /\ held' = held
        /\ call' = call /\ list' = list /\ open' = open /\ started' = started /\ net' = net
    BY DEF RunCallback
  <1>2. OthersOK(open', started', held', ended')
    BY <1>1, BaseParts, InvokedOK DEF OthersOK
  <1>3. TasksOK(call, tasks \ {t}) /\ TaskOK(call, t)
    BY <1>1, BaseParts, DropTask DEF TasksOK
  <1>4. ASSUME NEW u, tasks' = (tasks \ {t}) \cup {u}, u.cb = NoCallback, u.at = t.at, u.e = t.e,
               u.c = t.c, u.ch = t.ch, u.gen = t.gen
        PROVE  TasksOK(call, tasks')
    <2>1. TaskOK(call, u)
      BY <1>3, <1>4 DEF TaskOK
    <2>2. u.at = "start" => \A x \in tasks \ {t} : x.at = "start" => x.c # u.c
      BY <1>1, <1>4, BaseParts DEF TasksOK
    <2> QED  BY <1>3, <1>4, <2>1, <2>2, AddTask
  <1>5. \/ tasks' = tasks \ {t}
        \/ \E u : /\ tasks' = (tasks \ {t}) \cup {u} /\ u.cb = NoCallback /\ u.at = t.at /\ u.e = t.e
                  /\ u.c = t.c /\ u.ch = t.ch /\ u.gen = t.gen
    BY CallbackOver
  <1>6. TasksOK(call, tasks')
    BY <1>3, <1>4, <1>5
  <1> QED  BY <1>1, <1>2, <1>6, BaseParts, BasePrime

(* A method keeps its call. *)
LEMMA HandlerKeepsBase ==
  ASSUME Base, NEW t, NEW c \in ServerCalls, HandlerKeepsCall(t, c)
  PROVE  Base'
  <1>1. /\ MoveFrom("server", c, Responder) /\ tasks' = tasks /\ open' = open /\ started' = started
        /\ held' = held /\ ended' = ended
    BY DEF HandlerKeepsCall
  <1>2. "server" \in Ends /\ c \in Own("server") /\ Responder \in Own("server")
    BY ConstantFacts
  <1>4. WireOK(net') /\ CallsOK(call') /\ ListsOK(list') /\ TasksOK(call', tasks)
    BY <1>1, <1>2, ServerNotStarting, MoveOK
  <1> QED  BY <1>1, <1>4, BaseParts, BasePrime

(* A method returns. *)
LEMMA HandlerReturnsBase ==
  ASSUME Base, NEW t, HandlerReturns(t)
  PROVE  Base'
  <1>1. /\ t \in tasks /\ held' = held /\ ended' = ended /\ tasks' = tasks \ {t} /\ open' = open
        /\ started' = started
        /\ \E o \in CloseOutcomes("server", Responder) : net' = o.net
        /\ call' = IF call[Responder].active THEN MarkClosed(Responder) ELSE call
        /\ list' = [list EXCEPT !["server"] = Without(@, Responder)]
    BY DEF HandlerReturns
  <1>2. "server" \in Ends /\ Responder \in Own("server") /\ Responder \in AllCalls
    BY ConstantFacts
  <1>3. call' = MarkClosed(Responder)
    <2>1. CASE call[Responder].active
      BY <1>1, <2>1
    <2>2. CASE ~call[Responder].active
      <3>1. call[Responder] = Closed /\ call \in [AllCalls -> CallRec]
        BY <1>2, <2>2, BaseParts, LiveOrClosed DEF CallsOK
      <3> QED  BY <1>1, <2>2, <3>1 DEF MarkClosed
    <2> QED  BY <2>1, <2>2
  <1>4. CallsOK(call') /\ ListsOK(list') /\ TasksOK(call', tasks)
    BY <1>1, <1>2, <1>3, CloseCallOK
  <1>5. WireOK(net')
    BY <1>1, <1>2, CloseOutcomeOK
  <1>6. TasksOK(call', tasks')
    BY <1>1, <1>4, DropTask
  <1>7. OthersOK(open', started', held', ended')
    BY <1>1, BaseParts DEF OthersOK
  <1> QED  BY <1>4, <1>5, <1>6, <1>7, BasePrime

(* Packets that are answered or dropped. *)
LEMMA NoCallBase ==
  ASSUME Base, NEW p, ClientNoCall(p) \/ ServerUnknown(p) \/ ServerRefusesStream(p)
  PROVE  Base'
  <1>1. "client" \in Ends /\ "server" \in Ends /\ {"CLIENT_ERROR", "SERVER_ERROR"} \subseteq PacketTypes
    BY ConstantFacts DEF PacketTypes
  <1>2. CASE ClientNoCall(p)
    <2>1. WireOK(Taken("client")) /\ Packet(p)
      BY <1>1, <1>2, ArrivedPacket DEF ClientNoCall
    <2>2. WireOK(Sent(Taken("client"), "client", Reply(p, "CLIENT_ERROR")))
      BY <1>1, <2>1, PacketReply, SentOK
    <2> QED  BY <1>2, <2>1, <2>2, WireStep DEF ClientNoCall
  <1>3. CASE ServerUnknown(p)
    <2>1. WireOK(Taken("server")) /\ Packet(p)
      BY <1>1, <1>3, ArrivedPacket DEF ServerUnknown
    <2>2. WireOK(Sent(Taken("server"), "server", Reply(p, "SERVER_ERROR")))
      BY <1>1, <2>1, PacketReply, SentOK
    <2> QED  BY <1>3, <2>1, <2>2, WireStep DEF ServerUnknown
  <1>4. CASE ServerRefusesStream(p)
    <2>1. WireOK(Taken("server")) /\ Packet(p)
      BY <1>1, <1>4, ArrivedPacket DEF ServerRefusesStream, ServerHas
    <2>2. WireOK(Sent(Taken("server"), "server", Reply(p, "SERVER_ERROR")))
      BY <1>1, <2>1, PacketReply, SentOK
    <2> QED  BY <1>4, <2>2, WireStep DEF ServerRefusesStream
  <1> QED  BY <1>2, <1>3, <1>4

(* Packets that reach a call of the client. *)
LEMMA ClientPacketBase ==
  ASSUME Base, NEW p, ClientEnds(p) \/ ClientStream(p)
  PROVE  Base'
  <1>1. "client" \in Ends /\ "CLIENT_ERROR" \in PacketTypes
    BY ConstantFacts DEF PacketTypes
  <1>2. Arrives("client", p) /\ open' = open /\ started' = started /\ held' = held /\ ended' = ended
    BY DEF ClientEnds, ClientStream
  <1>3. WireOK(Taken("client")) /\ Packet(p)
    BY <1>1, <1>2, ArrivedPacket
  <1>4. WireOK(Sent(Taken("client"), "client", Reply(p, "CLIENT_ERROR")))
    BY <1>1, <1>3, PacketReply, SentOK
  <1>5. WireOK(net')
    BY <1>3, <1>4 DEF ClientEnds, ClientStream
  <1>6. PICK c \in CallOf("client", p) :
          \/ HandleError("client", c)
          \/ call' = call /\ list' = list /\ tasks' = tasks
    BY DEF ClientEnds, ClientStream
  <1>7. c \in Own("client") /\ Live(call[c])
    BY <1>1, <1>3, CallOfFacts
  <1>8. CallsOK(call') /\ ListsOK(list') /\ TasksOK(call', tasks')
    <2>1. CASE HandleError("client", c)
      BY <1>1, <1>7, <2>1, HandleErrorOK
    <2>2. CASE call' = call /\ list' = list /\ tasks' = tasks
      BY <2>2, BaseParts
    <2> QED  BY <1>6, <2>1, <2>2
  <1> QED  BY <1>2, <1>5, <1>8, BaseParts, BasePrime

(* A request. *)
LEMMA InvokeBase ==
  ASSUME Base, NEW p, Invoke(p)
  PROVE  Base'
  <1>1. "server" \in Ends /\ Responder \in Own("server")
    BY ConstantFacts
  <1>2. /\ Arrives("server", p) /\ open' = open /\ started' = started /\ held' = held /\ ended' = ended
        /\ net' = Taken("server")
        /\ RegisterCall("server", Responder, NewCall(p.rpc, p.chan, p.id, p.gen), "handler")
    BY DEF Invoke, ServerHas
  <1>3. WireOK(Taken("server")) /\ Packet(p)
    BY <1>1, <1>2, ArrivedPacket
  <1> DEFINE new == NewCall(p.rpc, p.chan, p.id, p.gen)
  <1>4. Live(new)
    BY <1>3, NewCallLive DEF Packet, PacketRec
  <1> HIDE DEF new
  <1>5. RegisterCall("server", Responder, new, "handler")
    BY <1>2 DEF new
  <1>6. CallsOK(call') /\ ListsOK(list') /\ TasksOK(call', tasks')
    BY <1>1, <1>4, <1>5, ServerNotStarting, RegisterOK
  <1> QED  BY <1>2, <1>3, <1>6, BaseParts, BasePrime

(* Packets that reach a call of the server. *)
LEMMA ServerPacketBase ==
  ASSUME Base, NEW p, ServerStream(p) \/ ServerError(p)
  PROVE  Base'
  <1>1. "server" \in Ends
    BY ConstantFacts
  <1>2. Arrives("server", p) /\ open' = open /\ started' = started /\ held' = held /\ ended' = ended /\ net' = Taken("server")
    BY DEF ServerStream, ServerError, ServerHas
  <1>3. WireOK(Taken("server")) /\ Packet(p)
    BY <1>1, <1>2, ArrivedPacket
  <1>4. CASE ServerStream(p)
    <2>1. PICK c \in CallOf("server", p) : call' = [call EXCEPT ![c].stream = p.type = "CLIENT_STREAM"]
      BY <1>4 DEF ServerStream
    <2>2. list' = list /\ tasks' = tasks
      BY <1>4 DEF ServerStream
    <2>3. c \in AllCalls /\ Live(call[c])
      BY <1>1, <1>3, CallOfFacts
    <2>4. PICK k : Live(k) /\ k.gen = call[c].gen /\ call' = Update(call, c, k)
      <3>1. CASE p.type = "CLIENT_STREAM"
        <4> DEFINE k == [call[c] EXCEPT !.stream = TRUE]
        <4>1. call' = Update(call, c, k)
          BY <2>1, <3>1 DEF Update
        <4>2. Live(k) /\ k.gen = call[c].gen
          BY <2>3, StreamRecord
        <4> QED  BY <4>1, <4>2
      <3>2. CASE p.type # "CLIENT_STREAM"
        <4> DEFINE k == [call[c] EXCEPT !.stream = FALSE]
        <4>1. call' = Update(call, c, k)
          BY <2>1, <3>2 DEF Update
        <4>2. Live(k) /\ k.gen = call[c].gen
          BY <2>3, StreamRecord
        <4> QED  BY <4>1, <4>2
      <3> QED  BY <3>1, <3>2
    <2>5. CallsOK(call') /\ TasksOK(call', tasks)
      BY <2>3, <2>4, StreamOK
    <2> QED  BY <1>2, <1>3, <2>2, <2>5, BaseParts, BasePrime
  <1>5. CASE ServerError(p) /\ CallOf("server", p) = {}
    <2>1. call' = call /\ list' = list /\ tasks' = tasks
      BY <1>5 DEF ServerError
    <2> QED  BY <1>2, <1>3, <2>1, BaseParts, BasePrime
  <1>6. CASE ServerError(p) /\ CallOf("server", p) # {}
    <2>1. PICK c \in CallOf("server", p) : HandleError("server", c)
      BY <1>6 DEF ServerError
    <2>2. c \in Own("server") /\ Live(call[c])
      BY <1>1, <1>3, CallOfFacts
    <2>3. CallsOK(call') /\ ListsOK(list') /\ TasksOK(call', tasks')
      BY <1>1, <2>1, <2>2, HandleErrorOK
    <2> QED  BY <1>2, <1>3, <2>3, BaseParts, BasePrime
  <1> QED  BY <1>4, <1>5, <1>6

(* The transport loses a packet. *)
LEMMA LoseBase ==
  ASSUME Base, NEW e \in Ends, Lose(e)
  PROVE  Base'
  <1>1. WireOK(Taken(e))
    BY TakenOK DEF Lose
  <1> QED  BY <1>1, WireStep DEF Lose

(* The types hold at first. *)
LEMMA BaseInit == Init => Base
  <1> SUFFICES ASSUME Init PROVE Base
    OBVIOUS
  <1>1. CallsOK(call)
    BY ClosedFacts DEF Init, CallsOK
  <1>2. ListsOK(list)
    BY DEF Init, ListsOK
  <1>3. WireOK(net)
    <2>1. net \in [Ends -> Seq(PacketRec)] /\ \A e \in Ends : Len(net[e]) = 0
      BY DEF Init
    <2> QED  BY <2>1 DEF WireOK
  <1>4. TasksOK(call, tasks)
    BY DEF Init, TasksOK
  <1>5. OthersOK(open, started, held, ended)
    BY ConstantFacts DEF Init, OthersOK, Gens
  <1> QED  BY <1>1, <1>2, <1>3, <1>4, <1>5 DEF Base

(* Every step keeps the types. *)
LEMMA BaseStep == Base /\ [Next]_vars => Base'
  <1> SUFFICES ASSUME Base, [Next]_vars PROVE Base'
    OBVIOUS
  <1>1. CASE UNCHANGED vars
    <2>1. WireOK(net') /\ UNCHANGED <<call, list, open, started, tasks, held, ended>>
      BY <1>1, BaseParts DEF vars
    <2> QED  BY <2>1, WireStep
  <1>2. ASSUME NEW c \in ClientCalls, NEW r \in Rpcs, NEW ch \in Channels, Start(c, r, ch)
        PROVE  Base'
    BY <1>2, StartBase
  <1>3. ASSUME NEW e \in Ends, NEW c \in Own(e), Write(e, c) \/ CloseAndSendFinalPacket(e, c)
        PROVE  Base'
    BY <1>3, WriteBase, CloseAndSendBase
  <1>4. ASSUME NEW c \in ClientCalls, CloseClientStream(c) \/ DestroyClientCall(c)
        PROVE  Base'
    BY <1>4, CloseClientStreamBase, DestroyBase
  <1>5. ASSUME NEW c \in ClientCalls, NEW d \in ClientCalls, Move(c, d)
        PROVE  Base'
    BY <1>5, MoveBase
  <1>6. ASSUME NEW e \in Ends, NEW ch \in Channels, OpenChannel(e, ch) \/ CloseChannel(e, ch)
        PROVE  Base'
    BY <1>6, ChannelBase
  <1>7. CASE ClientReceives
    BY <1>7, NoCallBase, ClientPacketBase DEF ClientReceives
  <1>8. CASE ServerReceives
    BY <1>8, NoCallBase, InvokeBase, ServerPacketBase DEF ServerReceives
  <1>9. ASSUME NEW t \in tasks, Resume(t)
        PROVE  Base'
    BY <1>9, FinishStartBase, ContinueCloseBase, RunCallbackBase, HandlerReturnsBase DEF Resume
  <1>10. ASSUME NEW t \in tasks, NEW c \in ServerCalls, HandlerKeepsCall(t, c)
         PROVE  Base'
    BY <1>10, HandlerKeepsBase
  <1>11. ASSUME NEW e \in Ends, Lose(e)
         PROVE  Base'
    BY <1>11, LoseBase
  <1> QED  BY <1>1, <1>2, <1>3, <1>4, <1>5, <1>6, <1>7, <1>8, <1>9, <1>10, <1>11 DEF Next

(* The type invariant of the endpoints: call objects, lists, packets and the operations that
   have given rpc_lock() up are well formed in every reachable state. *)
THEOREM BaseAlways == Spec => []Base
  BY BaseInit, BaseStep, PTL DEF Spec

(* As long as the ids that NewCallId hands out have not wrapped round, a packet is given to the
   call it is of, however calls of one RPC replace each other and packets are delayed. *)
THEOREM PacketsAreNotConfused ==
  ASSUME MaxStarted <= MaxCallId
  PROVE  Spec => []PacketsReachTheirCall
  <1>1. Base => PacketsReachTheirCall
    <2> SUFFICES ASSUME Base, NEW e \in Ends, net[e] # <<>>, NEW c \in CallOf(e, Head(net[e]))
                 PROVE  call[c].gen = Head(net[e]).gen
      BY DEF PacketsReachTheirCall
    <2>1. Packet(Head(net[e]))
      BY TakenOK
    <2> QED  BY <2>1, CallOfFacts
  <1> QED  BY <1>1, BaseAlways, PTL

(***************************************************************************)
(* EndsOnce: every call of the client has at most one party that is going  *)
(* to end it, as long as its callbacks are not in an object from which     *)
(* another call's callback is about to be invoked.                         *)
(***************************************************************************)

(* Who is going to end call g of the client: an active call object that holds its callbacks, a
   task that invokes a callback of the object they are in, or the rest of its own Start. *)
HasCall(cl, h, c, g) == c \in ClientCalls /\ cl[c].active /\ h[c] = g
Finishes(h, t, g) == t.cb \in ClientCalls /\ h[t.cb] = g
Starts(t, g) == t.at = "start" /\ t.gen = g

(* No object holds callbacks of call g, no Start will set them, and it has not been ended. *)
Nobody(h, ts, en, g) ==
  /\ \A c \in ClientCalls : h[c] # g
  /\ \A t \in ts : ~Starts(t, g)
  /\ en[g] = 0

(* At most one party is going to end call g, and none when it has been ended ... *)
OneParty(cl, h, ts, en, g) ==
  /\ \A c, d \in ClientCalls : h[c] = g /\ h[d] = g => c = d
  /\ \A t, u \in ts : Finishes(h, t, g) /\ Finishes(h, u, g) => t = u
  /\ \A t, u \in ts : Starts(t, g) /\ Starts(u, g) => t = u
  /\ \A c \in ClientCalls : \A t \in ts : HasCall(cl, h, c, g) => ~Finishes(h, t, g)
  /\ \A c \in ClientCalls : \A t \in ts : h[c] = g => ~Starts(t, g)
  /\ en[g] = 0 \/ en[g] = 1
  /\ en[g] = 1 => /\ \A c \in ClientCalls : ~HasCall(cl, h, c, g)
                  /\ \A t \in ts : ~Finishes(h, t, g) /\ ~Starts(t, g)

(* ... unless its ends are not counted; then its Start is over. *)
Sole(cl, h, ts, en, g) ==
  (en[g] = Shared /\ \A t \in ts : ~Starts(t, g)) \/ OneParty(cl, h, ts, en, g)

(* That holds of every call; of calls that have not been started nobody knows. *)
OneEnd(cl, h, ts, en, n) ==
  \A g \in Gens : Sole(cl, h, ts, en, g) /\ (n < g => Nobody(h, ts, en, g))

(* The calls of the client are numbered from 1. *)
LEMMA GenFacts == \A g \in Gens : g \in Nat /\ g # 0
  BY ConstantFacts DEF Gens

(* Calls are closed, or opened in objects without callbacks, and tasks are done with. *)
LEMMA FewerParties ==
  ASSUME NEW cl, NEW h, NEW ts, NEW en, NEW n, OneEnd(cl, h, ts, en, n), NEW ds, NEW us \in SUBSET ts,
         \A x \in ClientCalls : ds[x].active => cl[x].active \/ h[x] = 0
  PROVE  OneEnd(ds, h, us, en, n)
  <1> SUFFICES ASSUME NEW g \in Gens
               PROVE  Sole(ds, h, us, en, g) /\ (n < g => Nobody(h, us, en, g))
    BY DEF OneEnd
  <1>1. Sole(cl, h, ts, en, g) /\ (n < g => Nobody(h, ts, en, g)) /\ g # 0
    BY GenFacts DEF OneEnd
  <1>2. \A x \in ClientCalls : HasCall(ds, h, x, g) => HasCall(cl, h, x, g)
    BY <1>1 DEF HasCall
  <1>3. n < g => Nobody(h, us, en, g)
    BY <1>1 DEF Nobody
  <1>4. OneParty(cl, h, ts, en, g) => OneParty(ds, h, us, en, g)
    BY <1>2 DEF OneParty
  <1> QED  BY <1>1, <1>3, <1>4 DEF Sole

(* The callbacks of an object are thrown away. *)
LEMMA ForgetCallbacks ==
  ASSUME NEW cl, NEW h, NEW ts, NEW en, NEW n, OneEnd(cl, h, ts, en, n), NEW hs,
         \A x \in ClientCalls : hs[x] = h[x] \/ hs[x] = 0
  PROVE  /\ OneEnd(cl, hs, ts, en, n)
         /\ \A g \in Gens : Nobody(h, ts, en, g) => Nobody(hs, ts, en, g)
  <1>1. \A x \in ClientCalls : \A g \in Gens : hs[x] = g => h[x] = g
    BY GenFacts
  <1>2. \A g \in Gens : Nobody(h, ts, en, g) => Nobody(hs, ts, en, g)
    BY <1>1 DEF Nobody
  <1>3. ASSUME NEW g \in Gens, OneParty(cl, h, ts, en, g)
        PROVE  OneParty(cl, hs, ts, en, g)
    <2>1. \A x \in ClientCalls : HasCall(cl, hs, x, g) => HasCall(cl, h, x, g)
      BY <1>1 DEF HasCall
    <2>2. \A t \in ts : Finishes(hs, t, g) => Finishes(h, t, g)
      BY <1>1 DEF Finishes
    <2> QED  BY <1>1, <1>3, <2>1, <2>2 DEF OneParty
  <1> QED  BY <1>2, <1>3 DEF OneEnd, Sole

(* A call is closed and a task is to invoke its callback; the task may be the rest of the Start
   of a call nobody else knows of. *)
LEMMA HandOver ==
  ASSUME NEW cl, NEW h, NEW ts, NEW en, NEW n \in Nat, OneEnd(cl, h, ts, en, n),
         NEW c, cl[c].active, NEW t, t.cb = NoCallback \/ t.cb = c,
         t.at = "start" => t.gen \in Gens /\ t.gen <= n /\ Nobody(h, ts, en, t.gen),
         NEW ds, c \in ClientCalls => ~ds[c].active,
         \A x \in ClientCalls : ds[x].active => cl[x].active
  PROVE  OneEnd(ds, h, ts \cup {t}, en, n)
  <1> DEFINE us == ts \cup {t}
  <1> SUFFICES ASSUME NEW g \in Gens
               PROVE  Sole(ds, h, us, en, g) /\ (n < g => Nobody(h, us, en, g))
    BY DEF OneEnd
  <1>1. Sole(cl, h, ts, en, g) /\ (n < g => Nobody(h, ts, en, g)) /\ n \in Nat /\ g \in Nat
    BY GenFacts DEF OneEnd
  <1>2. NoCallback \notin ClientCalls
    BY ConstantFacts
  <1>3. Finishes(h, t, g) => HasCall(cl, h, c, g)
    BY <1>2 DEF Finishes, HasCall
  <1>4. \A x \in ClientCalls : HasCall(ds, h, x, g) => HasCall(cl, h, x, g) /\ x # c
    BY DEF HasCall
  <1>5. Starts(t, g) => Nobody(h, ts, en, g) /\ ~(n < g)
    BY <1>1 DEF Starts
  <1>6. n < g => Nobody(h, us, en, g)
    BY <1>1, <1>5 DEF Nobody
  <1>7. ASSUME OneParty(cl, h, ts, en, g) PROVE OneParty(ds, h, us, en, g)
    <2>1. CASE Finishes(h, t, g)
      <3>1. HasCall(cl, h, c, g) /\ c \in ClientCalls /\ h[c] = g
        BY <1>3, <2>1 DEF HasCall
      <3>2. \A x \in ClientCalls : ~HasCall(ds, h, x, g)
        BY <1>4, <1>7, <3>1 DEF OneParty, HasCall
      <3>3. \A u \in ts : ~Finishes(h, u, g) /\ ~Starts(u, g)
        BY <1>7, <3>1 DEF OneParty
      <3>4. ~Starts(t, g)
        BY <1>5, <3>1 DEF Nobody
      <3>5. en[g] = 0
        BY <1>7, <3>1 DEF OneParty
      <3> QED  BY <1>7, <3>2, <3>3, <3>4, <3>5 DEF OneParty
    <2>2. CASE ~Finishes(h, t, g) /\ Starts(t, g)
      <3>1. Nobody(h, ts, en, g)
        BY <1>5, <2>2
      <3>2. \A x \in ClientCalls : ~HasCall(ds, h, x, g)
        BY <3>1 DEF Nobody, HasCall
      <3> QED  BY <1>7, <2>2, <3>1, <3>2 DEF OneParty, Nobody
    <2>3. CASE ~Finishes(h, t, g) /\ ~Starts(t, g)
      BY <1>4, <1>7, <2>3 DEF OneParty
    <2> QED  BY <2>1, <2>2, <2>3
  <1>8. en[g] = Shared => ~Starts(t, g)
    BY <1>5 DEF Nobody, Shared
  <1> QED  BY <1>1, <1>6, <1>7, <1>8 DEF Sole

(* The callbacks of a call nobody knows of are set in object c. Then the call is under way in c,
   or it is closed and a task is to invoke on_error. *)
LEMMA SetCallbacks ==
  ASSUME NEW cl, NEW h \in [ClientCalls -> Gens \cup {0}], NEW ts, NEW en \in [Gens -> Int], NEW n \in Nat,
         OneEnd(cl, h, ts, en, n), NEW c \in ClientCalls, NEW g \in Gens, g <= n, Nobody(h, ts, en, g),
         NEW hs, hs = Update(h, c, g),
         NEW fn, \/ fn = en /\ \A u \in ts : u.cb # c
                 \/ fn = Update(en, g, Shared),
         NEW ds, \A x \in ClientCalls : x # c => ds[x] = cl[x],
         NEW us, \/ us = ts
                 \/ ~ds[c].active /\ \E t : us = ts \cup {t} /\ t.cb = c /\ t.at # "start"
  PROVE  OneEnd(ds, hs, us, fn, n)
  <1>1. hs[c] = g /\ \A x \in ClientCalls : x # c => hs[x] = h[x]
    BY DEF Update
  <1>2. \A f \in Gens : f # g => fn[f] = en[f]
    BY DEF Update
  <1> SUFFICES ASSUME NEW f \in Gens
               PROVE  Sole(ds, hs, us, fn, f) /\ (n < f => Nobody(hs, us, fn, f))
    BY DEF OneEnd
  <1>3. Sole(cl, h, ts, en, f) /\ (n < f => Nobody(h, ts, en, f)) /\ f \in Nat /\ g \in Nat
    BY GenFacts DEF OneEnd
  <1>4. \A u \in us : u \in ts \/ (u.cb = c /\ u.at # "start" /\ ~ds[c].active)
    <2>1. CASE us = ts
      BY <2>1
    <2>2. ASSUME NEW t, ~ds[c].active, us = ts \cup {t}, t.cb = c, t.at # "start"
          PROVE  \A u \in us : u \in ts \/ (u.cb = c /\ u.at # "start" /\ ~ds[c].active)
      BY <2>2
    <2> QED  BY <2>1, <2>2
  <1>5. \A u \in us : Starts(u, f) => u \in ts
    BY <1>4 DEF Starts
  <1>6. CASE f # g
    <2>1. \A x \in ClientCalls : hs[x] = f => h[x] = f /\ x # c
      BY <1>1, <1>6
    <2>2. \A x \in ClientCalls : HasCall(ds, hs, x, f) => HasCall(cl, h, x, f)
      BY <2>1 DEF HasCall
    <2>3. \A u \in us : Finishes(hs, u, f) => u \in ts /\ Finishes(h, u, f)
      BY <1>4, <2>1 DEF Finishes
    <2>4. fn[f] = en[f]
      BY <1>2, <1>6
    <2>5. OneParty(cl, h, ts, en, f) => OneParty(ds, hs, us, fn, f)
      BY <1>5, <2>1, <2>2, <2>3, <2>4 DEF OneParty
    <2>6. n < f => Nobody(hs, us, fn, f)
      BY <1>3, <1>5, <2>1, <2>4 DEF Nobody
    <2> QED  BY <1>3, <1>5, <2>4, <2>5, <2>6 DEF Sole
  <1>7. CASE f = g
    <2>1. ~(n < f)
      BY <1>3, <1>7
    <2>2. CASE fn = Update(en, g, Shared)
      <3>1. fn[f] = Shared /\ \A u \in us : ~Starts(u, f)
        BY <1>5, <1>7, <2>2 DEF Update, Nobody
      <3> QED  BY <2>1, <3>1 DEF Sole
    <2>3. CASE fn = en /\ \A u \in ts : u.cb # c
      <3>1. \A x \in ClientCalls : hs[x] = f => x = c
        BY <1>1, <1>7 DEF Nobody
      <3>2. \A u \in us : Finishes(hs, u, f) => u \notin ts /\ ~ds[c].active
        BY <1>4, <2>3, <3>1 DEF Finishes
      <3>3. \A u \in us : ~Starts(u, f)
        BY <1>5, <1>7 DEF Nobody
      <3>4. \A x \in ClientCalls : HasCall(ds, hs, x, f) => ds[c].active
        BY <3>1 DEF HasCall
      <3>5. \A u, v \in us : u \notin ts /\ v \notin ts => u = v
        OBVIOUS
      <3>6. fn[f] = 0
        BY <1>7, <2>3 DEF Nobody
      <3>7. OneParty(ds, hs, us, fn, f)
        BY <3>1, <3>2, <3>3, <3>4, <3>5, <3>6 DEF OneParty
      <3> QED  BY <2>1, <3>7 DEF Sole
    <2> QED  BY <2>2, <2>3
  <1> QED  BY <1>6, <1>7

(* The client starts one more call. *)
LEMMA OneMore ==
  ASSUME NEW cl, NEW h, NEW ts, NEW en, NEW n \in Nat, OneEnd(cl, h, ts, en, n)
  PROVE  OneEnd(cl, h, ts, en, n + 1) /\ (n + 1 \in Gens => Nobody(h, ts, en, n + 1))
  BY DEF OneEnd, Gens

(* The inductive part of EndsOnce. *)
Once == OneEnd(call, held, tasks, ended, started)

(* Once of the next state. *)
LEMMA OncePrime == OneEnd(call', held', tasks', ended', started') => Once'
  BY DEF Once, OneEnd, Sole, OneParty, Nobody, HasCall, Finishes, Starts, Gens, Shared

(* Steps in which the client's calls at most close, without a callback. *)
LEMMA OnceFewer ==
  ASSUME Once, tasks' \subseteq tasks, held' = held, ended' = ended, started' = started,
         \A x \in ClientCalls : call'[x].active => call[x].active
  PROVE  Once'
  <1>1. OneEnd(call', held, tasks', ended, started)
    BY FewerParties DEF Once
  <1> QED  BY <1>1, OncePrime

(* Steps that neither close a call nor run a callback. *)
LEMMA OnceSame ==
  ASSUME Once, call' = call, tasks' = tasks, held' = held, ended' = ended, started' = started
  PROVE  Once'
  BY OncePrime DEF Once

(* What the invariants say of the variables Once is about. *)
LEMMA OnceTypes ==
  ASSUME Base
  PROVE  /\ held \in [ClientCalls -> Gens \cup {0}] /\ ended \in [Gens -> Int] /\ started \in Nat
         /\ CallsOK(call) /\ \A t \in tasks : t.cb \in ClientCalls \cup {NoCallback}
  BY ConstantFacts DEF Base, OthersOK, TasksOK, TaskOK

(* A call of the server is not one of the client's. *)
LEMMA ServerIsOther == \A c \in Own("server") : c \notin ClientCalls
  BY ConstantFacts

(* A task is to invoke the callback of c. *)
LEMMA CallbackIs ==
  ASSUME NEW c
  PROVE  Callback(c) = NoCallback \/ Callback(c) = c
  BY DEF Callback

(* CloseChannel hands the call it closes over to the task that calls on_error. *)
LEMMA CloseFromOnce ==
  ASSUME Base, NEW e \in Ends, NEW ch \in Channels, NEW l \in Seq(Own(e)), NEW prev, NEW ts,
         CloseFrom(e, ch, l, prev, ts), OneEnd(call, held, ts, ended, started)
  PROVE  OneEnd(call', held, tasks', ended, started)
  <1>1. CallsOK(call) /\ started \in Nat
    BY OnceTypes
  <1>2. /\ list' = Update(list, e, l)
        /\ \/ call' = call /\ tasks' = ts
           \/ \E j \in 1..Len(l) : \E t : StopsAt(e, ch, l, prev, ts, j, t)
    BY CloseFromFacts
  <1>3. CASE call' = call /\ tasks' = ts
    BY <1>3
  <1>4. ASSUME NEW j \in 1..Len(l), NEW t, StopsAt(e, ch, l, prev, ts, j, t)
        PROVE  OneEnd(call', held, tasks', ended, started)
    <2> DEFINE c == l[j]
    <2>1. c \in Own(e)
      OBVIOUS
    <2> HIDE DEF c
    <2>2. /\ call[c].chan = ch /\ call' = Update(call, c, Closed) /\ t.cb = Callback(c)
          /\ tasks' = ts \cup {t} /\ t.at = "close"
      BY <1>4 DEF StopsAt, c
    <2>3. c \in AllCalls /\ ClientCalls \subseteq AllCalls
      BY <2>1, ConstantFacts
    <2>4. call[c].active
      BY <1>1, <2>2, <2>3, LiveOrClosed
    <2>5. t.cb = NoCallback \/ t.cb = c
      BY <2>2, CallbackIs
    <2>6. t.at # "start"
      BY <2>2
    <2>7. ~call'[c].active /\ \A x \in ClientCalls : call'[x].active => call[x].active
      <3>1. call'[c] = Closed /\ \A x \in AllCalls : x # c => call'[x] = call[x]
        BY <1>1, <2>2, <2>3, OneCall
      <3> QED  BY <2>3, <2>4, <3>1, ClosedFacts
    <2>8. OneEnd(call', held, ts \cup {t}, ended, started)
      BY <1>1, <2>4, <2>5, <2>6, <2>7, HandOver
    <2> QED  BY <2>2, <2>8
  <1> QED  BY <1>2, <1>3, <1>4

(* Given marks the call when a callback of the object is to be invoked. *)
LEMMA GivenFacts ==
  ASSUME NEW c, NEW g, g # 0
  PROVE  \/ Given(c, g) = ended /\ \A u \in tasks : u.cb # c
         \/ Given(c, g) = Update(ended, g, Shared)
  BY DEF Given, Pending, Update

(* The request is sent and the object has the call, or on_error is to be called. *)
LEMMA SendOnce ==
  ASSUME Base, NEW c \in ClientCalls, NEW k, k.active => Live(k), NEW g \in Gens, NEW l, NEW ts \in SUBSET tasks,
         SendInitialClientRequest(c, k, g, l, ts),
         NEW n \in Nat, OneEnd(call, held, ts, ended, n), g <= n, Nobody(held, ts, ended, g)
  PROVE  OneEnd(call', held', tasks', ended', n)
  <1>1. CallsOK(call) /\ c \in AllCalls /\ ClientCalls \subseteq AllCalls
        /\ held \in [ClientCalls -> Gens \cup {0}] /\ ended \in [Gens -> Int] /\ g # 0
    BY ConstantFacts, OnceTypes, GenFacts
  <1>2. /\ held' = Update(held, c, g) /\ ended' = Given(c, g)
        /\ \/ k.active /\ call' = Update(call, c, k) /\ tasks' = ts
           \/ /\ call' = Update(call, c, Closed)
              /\ \E t : tasks' = ts \cup {t} /\ t.at = "return" /\ t.cb = c
    BY SendFacts
  <1>3. \/ ended' = ended /\ \A u \in ts : u.cb # c
        \/ ended' = Update(ended, g, Shared)
    BY <1>1, <1>2, GivenFacts
  <1>4. CASE k.active /\ call' = Update(call, c, k) /\ tasks' = ts
    <2>1. \A x \in ClientCalls : x # c => call'[x] = call[x]
      BY <1>1, <1>4, OneCall
    <2> QED  BY <1>1, <1>2, <1>3, <1>4, <2>1, SetCallbacks
  <1>5. ASSUME call' = Update(call, c, Closed), NEW t, tasks' = ts \cup {t}, t.at = "return", t.cb = c
        PROVE  OneEnd(call', held', tasks', ended', n)
    <2>1. ~call'[c].active /\ \A x \in ClientCalls : x # c => call'[x] = call[x]
      BY <1>1, <1>5, OneCall, ClosedFacts
    <2>2. t.at # "start"
      BY <1>5
    <2> QED  BY <1>1, <1>2, <1>3, <1>5, <2>1, <2>2, SetCallbacks
  <1> QED  BY <1>2, <1>4, <1>5

(* The call that a new one of the client replaces is handed over to the rest of Start. *)
LEMMA ReplaceOnce ==
  ASSUME Base, NEW c \in ClientCalls, ~call[c].active, NEW new, Live(new),
         RegisterCall("client", c, new, "start"), FindCallById("client", new.chan, new.rpc) # {},
         NEW n \in Nat, OneEnd(call, held, tasks, ended, n),
         new.gen <= n, Nobody(held, tasks, ended, new.gen), held' = Update(held, c, 0)
  PROVE  OneEnd(call', held', tasks', ended, n)
  <1>1. /\ CallsOK(call) /\ c \in AllCalls /\ c \in Own("client") /\ "client" \in Ends /\ ClientCalls \subseteq AllCalls
        /\ new.gen \in Gens /\ new.chan \in Channels /\ held \in [ClientCalls -> Gens \cup {0}]
    BY ConstantFacts, OnceTypes DEF Live
  <1>2. PICK t : Registers("client", c, new, "start", t)
    BY <1>1, RegisterFacts
  <1>3. tasks' = tasks \cup {t} /\ t.at = "start" /\ t.gen = new.gen
    BY <1>2 DEF Registers
  <1>4. PICK o : RegistersOver("client", c, new, t, o)
    BY <1>2 DEF Registers, RegistersNew
  <1> DEFINE mid == Update(call, o, Closed)
  <1>5. o \in FindCallById("client", new.chan, new.rpc) /\ t.cb = Callback(o) /\ call' = Update(mid, c, new)
    BY <1>4 DEF RegistersOver
  <1>6. o \in AllCalls /\ call[o].active
    BY <1>1, <1>5, FoundCall
  <1>7. CallsOK(mid) /\ mid[o] = Closed /\ \A x \in AllCalls : x # o => mid[x] = call[x]
    BY <1>1, <1>6, OneCall
  <1> HIDE DEF mid
  <1>8. \A x \in AllCalls : x # c => call'[x] = mid[x]
    BY <1>1, <1>5, <1>7, OneCall
  <1>9. held'[c] = 0 /\ \A x \in ClientCalls : x # c => held'[x] = held[x]
    BY <1>1 DEF Update
  <1>10. OneEnd(call, held', tasks, ended, n) /\ Nobody(held', tasks, ended, new.gen)
    BY <1>1, <1>9, ForgetCallbacks
  <1>11. t.cb = NoCallback \/ t.cb = o
    BY <1>5, CallbackIs
  <1>12. ~mid[o].active /\ \A x \in ClientCalls : mid[x].active => call[x].active
    BY <1>1, <1>6, <1>7, ClosedFacts
  <1>13. OneEnd(mid, held', tasks \cup {t}, ended, n)
    BY <1>1, <1>3, <1>6, <1>10, <1>11, <1>12, HandOver
  <1>14. \A x \in ClientCalls : call'[x].active => mid[x].active \/ held'[x] = 0
    BY <1>1, <1>8, <1>9
  <1>15. OneEnd(call', held', tasks \cup {t}, ended, n)
    BY <1>13, <1>14, FewerParties
  <1> QED  BY <1>3, <1>15

(* A task that neither invokes a callback of the client nor starts a call. *)
LEMMA QuietTask ==
  ASSUME NEW cl, NEW h, NEW ts, NEW en, NEW n, OneEnd(cl, h, ts, en, n), NEW t,
         t.cb = NoCallback, t.at # "start"
  PROVE  OneEnd(cl, h, ts \cup {t}, en, n)
  <1>1. \A g : ~Finishes(h, t, g) /\ ~Starts(t, g)
    BY ConstantFacts DEF Finishes, Starts
  <1> QED  BY <1>1 DEF OneEnd, Sole, OneParty, Nobody

(* One lemma for each action: at most one party is going to end a call in the next state. *)
LEMMA StartOnce ==
  ASSUME Base, Once, NEW c \in ClientCalls, NEW r \in Rpcs, NEW ch \in Channels, Start(c, r, ch)
  PROVE  Once'
  <1> DEFINE g == started + 1
             k == NewCall(r, ch, NewCallId, g)
  <1>1. started \in Nat /\ g \in Gens /\ started' = g /\ g \in Nat /\ ~call[c].active
    BY ConstantFacts DEF Base, OthersOK, Start, Gens
  <1>2. NewCallId = g % MaxCallId
    BY DEF NewCallId
  <1>3. IF FindCallById("client", ch, r) = {}
        THEN SendInitialClientRequest(c, k, g, <<c>> \o list["client"], tasks)
        ELSE RegisterCall("client", c, k, "start") /\ held' = Update(held, c, 0) /\ ended' = ended
    BY DEF Start, Update
  <1>4. OneEnd(call, held, tasks, ended, g) /\ Nobody(held, tasks, ended, g)
    BY <1>1, OneMore DEF Once
  <1>5. g <= g
    BY <1>1
  <1> HIDE DEF g
  <1>6. Live(k) /\ k.chan = ch /\ k.rpc = r /\ k.gen = g
    BY <1>1, <1>2, NewCallLive
  <1> HIDE DEF k
  <1>7. CASE FindCallById("client", ch, r) = {}
    <2>1. SendInitialClientRequest(c, k, g, <<c>> \o list["client"], tasks)
      BY <1>3, <1>7
    <2>2. OneEnd(call', held', tasks', ended', g)
      BY <1>1, <1>4, <1>5, <1>6, <2>1, SendOnce
    <2> QED  BY <1>1, <2>2, OncePrime
  <1>8. CASE FindCallById("client", ch, r) # {}
    <2>1. RegisterCall("client", c, k, "start") /\ held' = Update(held, c, 0) /\ ended' = ended
      BY <1>3, <1>8
    <2>2. OneEnd(call', held', tasks', ended, g)
      BY <1>1, <1>4, <1>5, <1>6, <1>8, <2>1, ReplaceOnce
    <2> QED  BY <1>1, <2>1, <2>2, OncePrime
  <1> QED  BY <1>7, <1>8

(* The rest of a Start sets the callbacks of its call, of which nobody else knows. *)
LEMMA FinishStartOnce ==
  ASSUME Base, Once, NEW t, FinishStart(t)
  PROVE  Once'
  <1> DEFINE k == call[t.c]
             ts == tasks \ {t}
  <1>1. /\ t \in tasks /\ t.at = "start" /\ started' = started
        /\ SendInitialClientRequest(t.c, k, t.gen, list["client"], ts)
    BY DEF FinishStart
  <1>2. t.c \in ClientCalls /\ t.gen \in Gens /\ (k.active => Live(k)) /\ started \in Nat
    BY <1>1, StartedCall, OnceTypes
  <1>3. ts \in SUBSET tasks
    OBVIOUS
  <1> HIDE DEF k
  <1>4. OneEnd(call, held, ts, ended, started)
    BY <1>3, FewerParties DEF Once
  <1>5. t.gen <= started /\ Nobody(held, ts, ended, t.gen)
    <2>1. Sole(call, held, tasks, ended, t.gen) /\ (started < t.gen => Nobody(held, tasks, ended, t.gen))
          /\ t.gen \in Nat
      BY <1>2, GenFacts DEF Once, OneEnd
    <2>2. Starts(t, t.gen)
      BY <1>1 DEF Starts
    <2>3. t.gen <= started
      BY <1>1, <1>2, <2>1, <2>2 DEF Nobody
    <2>4. OneParty(call, held, tasks, ended, t.gen) => Nobody(held, ts, ended, t.gen)
      BY <1>1, <2>2 DEF OneParty, Nobody
    <2> QED  BY <1>1, <2>1, <2>2, <2>3, <2>4 DEF Sole
  <1> HIDE DEF ts
  <1>6. OneEnd(call', held', tasks', ended', started)
    BY <1>1, <1>2, <1>3, <1>4, <1>5, SendOnce
  <1> QED  BY <1>1, <1>6, OncePrime

(* HandleError hands the call over to the task that runs the callback. *)
LEMMA HandleErrorOnce ==
  ASSUME Base, Once, NEW e \in Ends, NEW c \in AllCalls, Live(call[c]), HandleError(e, c),
         held' = held, ended' = ended, started' = started
  PROVE  Once'
  <1>1. call' = Update(call, c, Closed) /\ tasks' = tasks \cup Return(e, Callback(c)) /\ call[c].active
    BY DEF HandleError, Live, MarkClosed, Update
  <1>2. started \in Nat /\ CallsOK(call) /\ ClientCalls \subseteq AllCalls
    BY OnceTypes, ConstantFacts
  <1>3. ~call'[c].active /\ \A x \in ClientCalls : call'[x].active => call[x].active
    <2>1. call'[c] = Closed /\ \A x \in AllCalls : x # c => call'[x] = call[x]
      BY <1>1, <1>2, OneCall
    <2> QED  BY <1>1, <1>2, <2>1, ClosedFacts
  <1>4. \/ Return(e, Callback(c)) = {}
        \/ \E t : Return(e, Callback(c)) = {t} /\ t.at = "return" /\ t.cb = Callback(c)
    BY ReturnOK, CallbackOK
  <1>5. CASE Return(e, Callback(c)) = {}
    <2>1. tasks' \subseteq tasks
      BY <1>1, <1>5
    <2> QED  BY <1>3, <2>1, OnceFewer
  <1>6. ASSUME NEW t, Return(e, Callback(c)) = {t}, t.at = "return", t.cb = Callback(c)
        PROVE  Once'
    <2>1. tasks' = tasks \cup {t}
      BY <1>1, <1>6
    <2>2. (t.cb = NoCallback \/ t.cb = c) /\ t.at # "start"
      BY <1>6, CallbackIs
    <2>3. OneEnd(call', held, tasks \cup {t}, ended, started)
      BY <1>1, <1>2, <1>3, <2>2, HandOver DEF Once
    <2> QED  BY <2>1, <2>3, OncePrime
  <1> QED  BY <1>4, <1>5, <1>6

(* A call is closed without a callback, or its stream opened or closed. *)
LEMMA OneCallOnce ==
  ASSUME Base, Once, NEW c \in AllCalls, NEW k, Live(k) \/ k = Closed, k.active => call[c].active,
         call' = Update(call, c, k),
         tasks' \subseteq tasks, held' = held, ended' = ended, started' = started
  PROVE  Once'
  <1>1. call'[c] = k /\ \A x \in AllCalls : x # c => call'[x] = call[x]
    BY BaseParts, OneCall
  <1>2. \A x \in ClientCalls : call'[x].active => call[x].active
    BY <1>1, ConstantFacts
  <1> QED  BY <1>2, OnceFewer

(* What the application does with a call it has. *)
LEMMA ApplicationOnce ==
  ASSUME Base, Once, NEW e \in Ends, NEW c \in Own(e),
         \/ Write(e, c) \/ CloseAndSendFinalPacket(e, c)
         \/ e = "client" /\ (CloseClientStream(c) \/ DestroyClientCall(c))
  PROVE  Once'
  <1>1. c \in AllCalls
    BY ConstantFacts
  <1>2. CASE Write(e, c)
    BY <1>2, OnceSame DEF Write
  <1>3. CASE CloseAndSendFinalPacket(e, c) \/ DestroyClientCall(c)
    <2>1. call' = Update(call, c, Closed) /\ tasks' \subseteq tasks /\ held' = held /\ ended' = ended /\ started' = started
      BY <1>3 DEF CloseAndSendFinalPacket, DestroyClientCall, MarkClosed, Update
    <2> QED  BY <1>1, <2>1, ClosedFacts, OneCallOnce
  <1>4. CASE CloseClientStream(c)
    <2> DEFINE k == [call[c] EXCEPT !.stream = FALSE]
    <2>1. /\ call[c].active /\ tasks' \subseteq tasks /\ held' = held /\ ended' = ended /\ started' = started
          /\ call' = Update(call, c, k)
      BY <1>4 DEF CloseClientStream, Update
    <2>2. Live(call[c])
      BY <1>1, <2>1, BaseParts, LiveOrClosed
    <2>3. Live(k)
      BY <2>2, StreamRecord
    <2> HIDE DEF k
    <2> QED  BY <1>1, <2>1, <2>3, OneCallOnce
  <1> QED  BY <1>2, <1>3, <1>4

(* A callback is invoked: of the call whose callbacks the object holds by now. *)
LEMMA RunCallbackOnce ==
  ASSUME Base, Once, NEW t, RunCallback(t)
  PROVE  Once'
  <1> DEFINE ts == tasks \ {t}
             b == t.cb
  <1>1. t \in tasks /\ b # NoCallback /\ call' = call /\ held' = held /\ started' = started /\ ended' = Invoked(b)
    BY DEF RunCallback
  <1>2. b \in ClientCalls /\ ended \in [Gens -> Int]
    BY <1>1, OnceTypes
  <1>3. \A g \in Gens : ended'[g] = IF g = held[b] /\ ended[g] # Shared THEN ended[g] + 1 ELSE ended[g]
    BY <1>1, <1>2 DEF Invoked
  <1>4. \/ tasks' = ts
        \/ \E u : tasks' = ts \cup {u} /\ u.cb = NoCallback /\ u.at = t.at /\ u.gen = t.gen
    BY CallbackOver
  <1>5. \A v \in tasks' : v \in ts \/ (v.cb = NoCallback /\ v.at = t.at /\ v.gen = t.gen)
    <2>1. CASE tasks' = ts
      BY <2>1
    <2>2. ASSUME NEW u, tasks' = ts \cup {u}, u.cb = NoCallback, u.at = t.at, u.gen = t.gen
          PROVE  \A v \in tasks' : v \in ts \/ (v.cb = NoCallback /\ v.at = t.at /\ v.gen = t.gen)
      BY <2>2
    <2> QED  BY <1>4, <2>1, <2>2
  <1>6. \A v, w \in tasks' : v \notin ts /\ w \notin ts => v = w
    BY <1>4
  <1>7. NoCallback \notin ClientCalls
    BY ConstantFacts
  <1> HIDE DEF b
  <1>8. ASSUME NEW g \in Gens
        PROVE  Sole(call, held, tasks', ended', g) /\ (started < g => Nobody(held, tasks', ended', g))
    <2>1. Sole(call, held, tasks, ended, g) /\ (started < g => Nobody(held, tasks, ended, g))
      BY DEF Once, OneEnd
    <2>2. \A v \in tasks' : Finishes(held, v, g) => v \in ts
      BY <1>5, <1>7 DEF Finishes
    <2>3. \A v \in tasks' : Starts(v, g) => v \in ts \/ Starts(t, g)
      BY <1>5 DEF Starts
    <2>4. started < g => Nobody(held, tasks', ended', g)
      BY <1>1, <1>2, <1>3, <2>1, <2>3 DEF Nobody
    <2>5. CASE ended[g] = Shared /\ \A v \in tasks : ~Starts(v, g)
      <3>1. ended'[g] = Shared /\ \A v \in tasks' : ~Starts(v, g)
        BY <1>1, <1>3, <2>3, <2>5
      <3> QED  BY <2>4, <3>1 DEF Sole
    <2>6. CASE OneParty(call, held, tasks, ended, g) /\ ended[g] # Shared
      <3>1. \A v, w \in tasks' : Starts(v, g) /\ Starts(w, g) => v = w
        <4>1. \A v \in ts : Starts(v, g) => ~Starts(t, g)
          BY <1>1, <2>6 DEF OneParty
        <4> QED  BY <1>6, <2>3, <2>6, <4>1 DEF OneParty
      <3>2. CASE g = held[b]
        <4>1. Finishes(held, t, g) /\ held[b] = g
          BY <1>2, <3>2 DEF Finishes, b
        <4>2. \A v \in tasks : ~Starts(v, g)
          BY <1>2, <2>6, <4>1 DEF OneParty
        <4>3. \A v \in ts : ~Finishes(held, v, g)
          BY <1>1, <2>6, <4>1 DEF OneParty
        <4>4. \A c \in ClientCalls : ~HasCall(call, held, c, g)
          BY <1>1, <2>6, <4>1 DEF OneParty
        <4>5. ended[g] = 0
          BY <1>1, <2>6, <4>1 DEF OneParty
        <4>6. ended'[g] = 1
          BY <1>3, <2>6, <3>2, <4>5
        <4>7. OneParty(call, held, tasks', ended', g)
          BY <1>1, <2>2, <2>3, <2>6, <4>2, <4>3, <4>4, <4>6 DEF OneParty
        <4> QED  BY <2>4, <4>7 DEF Sole
      <3>3. CASE g # held[b]
        <4>1. ended'[g] = ended[g]
          BY <1>3, <3>3
        <4>2. \A v \in tasks' : Finishes(held, v, g) => v \in tasks
          BY <2>2
        <4>3. \A c \in ClientCalls : \A v \in tasks' : held[c] = g => ~Starts(v, g)
          BY <1>1, <2>3, <2>6 DEF OneParty
        <4>4. ended[g] = 1 => \A v \in tasks' : ~Starts(v, g)
          BY <1>1, <2>3, <2>6 DEF OneParty
        <4>5. OneParty(call, held, tasks', ended', g)
          BY <2>6, <3>1, <4>1, <4>2, <4>3, <4>4 DEF OneParty
        <4> QED  BY <2>4, <4>5 DEF Sole
      <3> QED  BY <3>2, <3>3
    <2>7. OneParty(call, held, tasks, ended, g) => ended[g] # Shared
      BY DEF OneParty, Shared
    <2> QED  BY <2>1, <2>5, <2>6, <2>7 DEF Sole
  <1>9. OneEnd(call, held, tasks', ended', started)
    BY <1>8 DEF OneEnd
  <1> QED  BY <1>1, <1>9, OncePrime

(* CloseChannel goes on, methods return. *)
LEMMA ResumeOnce ==
  ASSUME Base, Once, NEW t \in tasks, ContinueClose(t) \/ HandlerReturns(t)
  PROVE  Once'
  <1>1. held' = held /\ ended' = ended /\ started' = started
    BY DEF ContinueClose, HandlerReturns
  <1>2. CASE HandlerReturns(t)
    <2>1. tasks' \subseteq tasks /\ (call' = MarkClosed(Responder) \/ call' = call)
      BY <1>2 DEF HandlerReturns
    <2>2. \A x \in ClientCalls : call'[x] = call[x]
      <3>1. call \in [AllCalls -> CallRec]
        BY BaseParts DEF CallsOK
      <3> QED  BY <2>1, <3>1, ConstantFacts DEF MarkClosed
    <2> QED  BY <1>1, <2>1, <2>2, OnceFewer
  <1>3. CASE ContinueClose(t)
    <2> DEFINE l == list[t.e]
               listed == t.prev = Head_ \/ Position(l, t.prev) > 0
               prev == IF listed THEN t.prev ELSE Head_
               l2 == IF listed /\ Follows(l, prev) # Head_ THEN Without(l, Follows(l, prev)) ELSE l
               ts == tasks \ {t}
    <2>1. t.at = "close" /\ CloseFrom(t.e, t.ch, l2, prev, ts)
      BY <1>3 DEF ContinueClose
    <2>2. t.e \in Ends /\ t.ch \in Channels
      BY <2>1 DEF Base, TasksOK, TaskOK
    <2>3. l \in Seq(Own(t.e))
      BY <2>2, BaseParts DEF ListsOK
    <2> HIDE DEF l, listed, prev
    <2>4. Without(l, Follows(l, prev)) \in Seq(Own(t.e))
      BY <2>3, RemoveFirstFacts DEF Without
    <2>5. l2 \in Seq(Own(t.e))
      BY <2>3, <2>4
    <2> HIDE DEF l2
    <2>6. OneEnd(call, held, ts, ended, started)
      BY FewerParties DEF Once
    <2> HIDE DEF ts
    <2>7. OneEnd(call', held, tasks', ended, started)
      BY <2>1, <2>2, <2>5, <2>6, CloseFromOnce
    <2> QED  BY <1>1, <2>7, OncePrime
  <1> QED  BY <1>2, <1>3

(* Steps that leave the client's call objects alone. *)
LEMMA ServerCallsOnly ==
  ASSUME Base, NEW dst \in Own("server"), NEW src \in Own("server"), MoveFrom("server", dst, src)
  PROVE  \A x \in ClientCalls : call'[x] = call[x]
  <1>1. "server" \in Ends /\ call \in [AllCalls -> CallRec] /\ dst \in AllCalls /\ src \in AllCalls
        /\ dst \notin ClientCalls /\ src \notin ClientCalls /\ ClientCalls \subseteq AllCalls
    BY ConstantFacts, BaseParts, ServerIsOther DEF CallsOK
  <1>2. \/ call' = Update(Update(call, dst, call[src]), src, Closed)
        \/ call' = Update(call, dst, Closed)
    BY <1>1, MoveFacts
  <1> QED  BY <1>1, <1>2 DEF Update

(* A method keeps its call. *)
LEMMA HandlerKeepsOnce ==
  ASSUME Base, Once, NEW t \in tasks, NEW c \in ServerCalls, HandlerKeepsCall(t, c)
  PROVE  Once'
  <1>1. MoveFrom("server", c, Responder) /\ tasks' \subseteq tasks /\ held' = held /\ ended' = ended /\ started' = started
    BY DEF HandlerKeepsCall
  <1>2. \A x \in ClientCalls : call'[x] = call[x]
    BY <1>1, ConstantFacts, ServerCallsOnly
  <1> QED  BY <1>1, <1>2, OnceFewer

(* Client::ProcessPacket. *)
LEMMA ClientPacketOnce ==
  ASSUME Base, Once, NEW p, ClientNoCall(p) \/ ClientEnds(p) \/ ClientStream(p)
  PROVE  Once'
  <1>1. CASE ClientNoCall(p)
    BY <1>1, OnceSame DEF ClientNoCall
  <1>2. CASE ClientEnds(p) \/ ClientStream(p)
    <2>1. "client" \in Ends /\ Arrives("client", p) /\ started' = started /\ held' = held /\ ended' = ended
      BY <1>2, ConstantFacts DEF ClientEnds, ClientStream
    <2>2. Packet(p)
      BY <2>1, ArrivedPacket
    <2>3. PICK c \in CallOf("client", p) :
            \/ HandleError("client", c)
            \/ call' = call /\ tasks' = tasks
      BY <1>2 DEF ClientEnds, ClientStream
    <2>4. c \in AllCalls /\ Live(call[c])
      BY <2>1, <2>2, CallOfFacts
    <2> QED  BY <2>1, <2>3, <2>4, HandleErrorOnce, OnceSame
  <1> QED  BY <1>1, <1>2

(* A request makes a call object of the server, and a task that invokes no callback of the client. *)
LEMMA InvokeOnce ==
  ASSUME Base, Once, NEW p, Invoke(p)
  PROVE  Once'
  <1> DEFINE new == NewCall(p.rpc, p.chan, p.id, p.gen)
  <1>1. "server" \in Ends /\ Responder \in Own("server") /\ Responder \in AllCalls
        /\ ClientCalls \subseteq AllCalls /\ call \in [AllCalls -> CallRec] /\ CallsOK(call)
    BY ConstantFacts, BaseParts DEF CallsOK
  <1>2. /\ Arrives("server", p) /\ started' = started /\ held' = held /\ ended' = ended
        /\ RegisterCall("server", Responder, new, "handler")
    BY DEF Invoke, ServerHas
  <1>3. Packet(p)
    BY <1>1, <1>2, ArrivedPacket
  <1>4. Live(new) /\ new.chan \in Channels
    BY <1>3, NewCallLive DEF Packet, PacketRec, Live
  <1> HIDE DEF new
  <1>5. PICK t : Registers("server", Responder, new, "handler", t)
    BY <1>1, <1>2, <1>4, RegisterFacts
  <1>6. tasks' = tasks \cup {t} /\ t.at # "start"
    BY <1>5 DEF Registers
  <1>7. t.cb = NoCallback /\ \A x \in ClientCalls : call'[x] = call[x]
    <2>1. CASE RegistersNew("server", Responder, new, t)
      BY <1>1, <2>1, ServerIsOther DEF RegistersNew, Update
    <2>2. ASSUME NEW o, RegistersOver("server", Responder, new, t, o)
          PROVE  t.cb = NoCallback /\ \A x \in ClientCalls : call'[x] = call[x]
      <3>1. o \in Own("server")
        BY <1>1, <1>4, <2>2, FoundCall DEF RegistersOver
      <3>2. t.cb = NoCallback
        BY <2>2, <3>1, ServerIsOther DEF RegistersOver, Callback
      <3>3. call' = Update(Update(call, o, Closed), Responder, new)
        BY <2>2 DEF RegistersOver
      <3> QED  BY <1>1, <3>1, <3>2, <3>3, ServerIsOther DEF Update
    <2> QED  BY <1>5, <2>1, <2>2 DEF Registers
  <1>8. OneEnd(call', held, tasks, ended, started)
    BY <1>7, FewerParties DEF Once
  <1>9. OneEnd(call', held, tasks \cup {t}, ended, started)
    BY <1>6, <1>7, <1>8, QuietTask
  <1> QED  BY <1>2, <1>6, <1>9, OncePrime

(* Server::ProcessPacket. *)
LEMMA ServerPacketOnce ==
  ASSUME Base, Once, NEW p,
         ServerUnknown(p) \/ Invoke(p) \/ ServerRefusesStream(p) \/ ServerStream(p) \/ ServerError(p)
  PROVE  Once'
  <1>1. "server" \in Ends
    BY ConstantFacts
  <1>2. CASE ServerUnknown(p) \/ ServerRefusesStream(p)
    BY <1>2, OnceSame DEF ServerUnknown, ServerRefusesStream
  <1>3. CASE Invoke(p)
    BY <1>3, InvokeOnce
  <1>4. CASE ServerStream(p)
    <2>1. PICK c \in CallOf("server", p) : call' = [call EXCEPT ![c].stream = p.type = "CLIENT_STREAM"]
      BY <1>4 DEF ServerStream
    <2>2. tasks' \subseteq tasks /\ held' = held /\ started' = started /\ ended' = ended /\ Arrives("server", p)
      BY <1>4 DEF ServerStream, ServerHas
    <2>3. c \in Own("server") /\ c \in AllCalls
      BY <1>1, <2>2, ArrivedPacket, CallOfFacts
    <2>4. \A x \in ClientCalls : call'[x] = call[x]
      <3>1. call \in [AllCalls -> CallRec] /\ ClientCalls \subseteq AllCalls /\ c \notin ClientCalls
        BY <2>3, ConstantFacts, BaseParts, ServerIsOther DEF CallsOK
      <3> QED  BY <2>1, <3>1
    <2> QED  BY <2>2, <2>4, OnceFewer
  <1>5. CASE ServerError(p)
    <2>1. started' = started /\ held' = held /\ ended' = ended /\ Arrives("server", p)
      BY <1>5 DEF ServerError, ServerHas
    <2>2. CASE CallOf("server", p) = {}
      BY <1>5, <2>1, <2>2, OnceSame DEF ServerError
    <2>3. CASE CallOf("server", p) # {}
      <3>1. PICK c \in CallOf("server", p) : HandleError("server", c)
        BY <1>5, <2>3 DEF ServerError
      <3>2. c \in AllCalls /\ Live(call[c])
        BY <1>1, <2>1, ArrivedPacket, CallOfFacts
      <3> QED  BY <1>1, <2>1, <3>1, <3>2, HandleErrorOnce
    <2> QED  BY <2>2, <2>3
  <1> QED  BY <1>2, <1>3, <1>4, <1>5

(* Channels are opened and closed. *)
LEMMA ChannelOnce ==
  ASSUME Base, Once, NEW e \in Ends, NEW ch \in Channels, OpenChannel(e, ch) \/ CloseChannel(e, ch)
  PROVE  Once'
  <1>1. CASE OpenChannel(e, ch)
    BY <1>1, OnceSame DEF OpenChannel
  <1>2. CASE CloseChannel(e, ch)
    <2>1. CloseFrom(e, ch, list[e], Head_, tasks) /\ started' = started /\ held' = held /\ ended' = ended
      BY <1>2 DEF CloseChannel
    <2>2. list[e] \in Seq(Own(e))
      BY BaseParts DEF ListsOK
    <2>3. OneEnd(call', held, tasks', ended, started)
      BY <2>1, <2>2, CloseFromOnce DEF Once
    <2> QED  BY <2>1, <2>3, OncePrime
  <1> QED  BY <1>1, <1>2

(* Move assignment by the client's application: the callbacks go with an active call. *)
LEMMA MoveCallOnce ==
  ASSUME Base, Once, NEW dst \in ClientCalls, NEW src \in ClientCalls, Move(dst, src)
  PROVE  Once'
  <1> DEFINE g == held[src]
  <1>1. /\ "client" \in Ends /\ dst \in Own("client") /\ src \in Own("client")
        /\ ClientCalls \subseteq AllCalls /\ call \in [AllCalls -> CallRec]
        /\ held \in [ClientCalls -> Gens \cup {0}] /\ ended \in [Gens -> Int] /\ started \in Nat
    BY ConstantFacts, OnceTypes DEF CallsOK
  <1>2. /\ MoveFrom("client", dst, src) /\ tasks' = tasks /\ ended' = Given(dst, g) /\ started' = started
        /\ held' = IF call[src].active THEN [held EXCEPT ![dst] = g, ![src] = 0] ELSE held
    BY DEF Move
  <1>3. dst # src /\ \/ call[src].active /\ call' = Update(Update(call, dst, call[src]), src, Closed)
                     \/ ~call[src].active /\ call' = Update(call, dst, Closed)
    BY <1>1, <1>2, MoveFacts
  <1>4. \A f \in Gens : f # g => ended'[f] = ended[f]
    BY <1>1, <1>2 DEF Given
  <1>5. g = 0 \/ (g \in Gens /\ ((ended' = ended /\ \A u \in tasks : u.cb # dst) \/ ended'[g] = Shared))
    <2>1. CASE g # 0
      BY <1>1, <1>2, <2>1, GivenFacts DEF Update
    <2> QED  BY <2>1
  <1>6. \A x \in ClientCalls : x # dst /\ x # src => call'[x] = call[x] /\ held'[x] = held[x]
    BY <1>1, <1>2, <1>3 DEF Update
  <1>7. ASSUME call[src].active
        PROVE  held'[dst] = g /\ held'[src] = 0
    BY <1>1, <1>2, <1>3, <1>7
  <1>8. ASSUME ~call[src].active
        PROVE  held' = held /\ ~call'[dst].active /\ call'[src] = call[src]
    BY <1>1, <1>2, <1>3, <1>8, ClosedFacts DEF Update
  <1>12. g \in Gens => held[src] = g
    OBVIOUS
  <1> HIDE DEF g
  <1>9. ASSUME NEW f \in Gens
        PROVE  Sole(call', held', tasks, ended', f) /\ (started < f => Nobody(held', tasks, ended', f))
    <2>1. Sole(call, held, tasks, ended, f) /\ (started < f => Nobody(held, tasks, ended, f)) /\ f # 0
      BY GenFacts DEF Once, OneEnd
    <2>2. CASE f # g
      <3>1. \A x \in ClientCalls : held'[x] = f => held[x] = f
        BY <1>6, <1>7, <1>8, <2>1, <2>2
      <3>2. \A x \in ClientCalls : HasCall(call', held', x, f) => HasCall(call, held, x, f)
        BY <1>3, <1>6, <1>7, <1>8, <2>1, <2>2, <3>1 DEF HasCall
      <3>3. \A u \in tasks : Finishes(held', u, f) => Finishes(held, u, f)
        BY <3>1 DEF Finishes
      <3>4. ended'[f] = ended[f]
        BY <1>4, <2>2
      <3>5. OneParty(call, held, tasks, ended, f) => OneParty(call', held', tasks, ended', f)
        BY <3>1, <3>2, <3>3, <3>4 DEF OneParty
      <3>6. started < f => Nobody(held', tasks, ended', f)
        BY <2>1, <3>1, <3>4 DEF Nobody
      <3> QED  BY <2>1, <3>4, <3>5, <3>6 DEF Sole
    <2>3. CASE f = g
      <3>1. held[src] = f /\ ~(started < f)
        BY <1>12, <2>1, <2>3 DEF Nobody
      <3>2. \A u \in tasks : ~Starts(u, f)
        BY <2>1, <3>1 DEF Sole, OneParty
      <3>3. CASE ended'[f] = Shared
        BY <3>1, <3>2, <3>3 DEF Sole
      <3>4. CASE ended' = ended /\ (\A u \in tasks : u.cb # dst) /\ ended[f] # Shared
        <4>1. OneParty(call, held, tasks, ended, f)
          BY <2>1, <3>4 DEF Sole
        <4>2. CASE call[src].active
          <5>1. HasCall(call, held, src, f)
            BY <3>1, <4>2 DEF HasCall
          <5>2. \A x \in ClientCalls : held'[x] = f => x = dst
            BY <1>6, <1>7, <2>1, <3>1, <4>1, <4>2 DEF OneParty
          <5>3. \A u \in tasks : ~Finishes(held', u, f)
            BY <3>4, <5>2 DEF Finishes
          <5>4. ended'[f] = 0
            BY <3>4, <4>1, <5>1 DEF OneParty
          <5>5. OneParty(call', held', tasks, ended', f)
            BY <3>2, <5>2, <5>3, <5>4 DEF OneParty
          <5> QED  BY <3>1, <5>5 DEF Sole
        <4>3. CASE ~call[src].active
          <5>1. \A x \in ClientCalls : HasCall(call', held', x, f) => HasCall(call, held, x, f)
            BY <1>6, <1>8, <4>3 DEF HasCall
          <5>2. OneParty(call', held', tasks, ended', f)
            BY <1>8, <3>4, <4>1, <4>3, <5>1 DEF OneParty
          <5> QED  BY <3>1, <5>2 DEF Sole
        <4> QED  BY <4>2, <4>3
      <3> QED  BY <1>5, <2>1, <2>3, <3>3, <3>4
    <2> QED  BY <2>2, <2>3
  <1>10. OneEnd(call', held', tasks, ended', started)
    BY <1>9 DEF OneEnd
  <1> QED  BY <1>2, <1>10, OncePrime

(* At first there are no calls. *)
LEMMA OnceInit == Init => Once
  <1> SUFFICES ASSUME Init PROVE Once
    OBVIOUS
  <1>1. \A c \in ClientCalls : held[c] = 0
    BY DEF Init
  <1>2. tasks = {} /\ \A g \in Gens : ended[g] = 0 /\ g # 0
    BY GenFacts DEF Init, Gens
  <1> QED  BY <1>1, <1>2 DEF Once, OneEnd, Sole, OneParty, Nobody, HasCall

(* Every step keeps Once. *)
LEMMA OnceStep == Base /\ Once /\ [Next]_vars => Once'
  <1> SUFFICES ASSUME Base, Once, [Next]_vars PROVE Once'
    OBVIOUS
  <1>1. CASE UNCHANGED vars
    BY <1>1, OnceSame DEF vars
  <1>2. ASSUME NEW c \in ClientCalls, NEW r \in Rpcs, NEW ch \in Channels, Start(c, r, ch)
        PROVE  Once'
    BY <1>2, StartOnce
  <1>3. ASSUME NEW e \in Ends, NEW c \in Own(e), Write(e, c) \/ CloseAndSendFinalPacket(e, c)
        PROVE  Once'
    BY <1>3, ApplicationOnce
  <1>4. ASSUME NEW c \in ClientCalls, CloseClientStream(c) \/ DestroyClientCall(c)
        PROVE  Once'
    BY <1>4, ConstantFacts, ApplicationOnce
  <1>5. ASSUME NEW c \in ClientCalls, NEW d \in ClientCalls, Move(c, d)
        PROVE  Once'
    BY <1>5, MoveCallOnce
  <1>6. ASSUME NEW e \in Ends, NEW ch \in Channels, OpenChannel(e, ch) \/ CloseChannel(e, ch)
        PROVE  Once'
    BY <1>6, ChannelOnce
  <1>7. CASE ClientReceives
    BY <1>7, ClientPacketOnce DEF ClientReceives
  <1>8. CASE ServerReceives
    BY <1>8, ServerPacketOnce DEF ServerReceives
  <1>9. ASSUME NEW t \in tasks, Resume(t)
        PROVE  Once'
    BY <1>9, FinishStartOnce, RunCallbackOnce, ResumeOnce DEF Resume
  <1>10. ASSUME NEW t \in tasks, NEW c \in ServerCalls, HandlerKeepsCall(t, c)
         PROVE  Once'
    BY <1>10, HandlerKeepsOnce
  <1>11. ASSUME NEW e \in Ends, Lose(e)
         PROVE  Once'
    BY <1>11, OnceSame DEF Lose
  <1> QED  BY <1>1, <1>2, <1>3, <1>4, <1>5, <1>6, <1>7, <1>8, <1>9, <1>10, <1>11 DEF Next

(* A call of the client gets at most one of on_completed and on_error, whatever responses,
   errors, replacement by a new call, moves and CloseChannel do in the meantime and although
   the callback is read from the object only when it is invoked. What this excepts is a call
   whose callbacks are put into an object, by Start or by a move, while a callback of that
   object is still to be invoked (pwbug/597). *)
THEOREM CallsEndOnce == Spec => []EndsOnce
  <1>1. Once => EndsOnce
    <2> SUFFICES ASSUME Once, NEW g \in 1..MaxStarted PROVE ended[g] \in {0, 1, Shared}
      BY DEF EndsOnce
    <2> QED  BY DEF Once, OneEnd, Sole, OneParty, Gens
  <1> QED  BY <1>1, OnceInit, OnceStep, BaseAlways, PTL DEF Spec

(***************************************************************************)
(* CallsListedIffActive and OneCallPerRpc: the list of an endpoint against *)
(* its calls.                                                              *)
(***************************************************************************)

(* No two active calls of e are for one RPC on one channel. *)
Unique(cl, e) ==
  \A c, d \in Own(e) :
    cl[c].active /\ cl[d].active /\ cl[c].chan = cl[d].chan /\ cl[c].rpc = cl[d].rpc => c = d

(* The list l of endpoint e holds exactly the active calls of e, each once. *)
Settled(cl, l, e) ==
  /\ l \in Seq(Own(e)) /\ IsInjective(l)
  /\ \A c \in Own(e) : c \in ToSet(l) <=> cl[c].active
  /\ Unique(cl, e)

(* c is right behind prev in the list, the head being before the first element. *)
Behind(l, prev, c) ==
  \/ prev = Head_ /\ 1 \in 1..Len(l) /\ l[1] = c
  \/ \E i \in 1..Len(l) : i + 1 \in 1..Len(l) /\ l[i] = prev /\ l[i + 1] = c

(* In the middle of CloseChannel the list also holds the call that was just closed, right
   behind the element the loop remembers. *)
Paused(cl, l, e, t) ==
  /\ l \in Seq(Own(e)) /\ IsInjective(l) /\ t.c \in Own(e) /\ ~cl[t.c].active
  /\ \A c \in Own(e) : c \in ToSet(l) <=> cl[c].active \/ c = t.c
  /\ Unique(cl, e)
  /\ Behind(l, t.prev, t.c)

(* What the tasks of an endpoint may be. *)
NoClose(ts, e) == \A t \in ts : t.e = e => t.at # "close"
(* t is all that goes on at e. *)
OnlyTask(ts, e, t) == t \in ts /\ t.e = e /\ \A u \in ts : u.e = e => u = t

(* An endpoint is settled, or all it does is close a channel. *)
Quiet(cl, l, ts, e) ==
  \/ NoClose(ts, e) /\ Settled(cl, l, e)
  \/ \E t \in ts : OnlyTask(ts, e, t) /\ t.at = "close" /\ Paused(cl, l, e, t)

(* At most one method is being invoked, and the responder only holds a call meanwhile. *)
Handling(cl, ts) ==
  /\ \A t, u \in ts : t.at = "handler" /\ u.at = "handler" => t = u
  /\ (\A t \in ts : t.at # "handler") => ~cl[Responder].active

(* The calls of e are as they were as far as its list is concerned. *)
AlikeOn(cl, ds, e) ==
  \A c \in Own(e) : /\ ds[c].active <=> cl[c].active
                    /\ ds[c].chan = cl[c].chan /\ ds[c].rpc = cl[c].rpc

(* The tasks of e are the same. *)
SameTasks(ts, us, e) == \A t : t.e = e => (t \in us <=> t \in ts)

(* A step on one endpoint leaves the other alone. *)
LEMMA OtherEnd ==
  ASSUME NEW cl, NEW ds, NEW l, NEW ts, NEW us, NEW e, Quiet(cl, l, ts, e),
         AlikeOn(cl, ds, e), SameTasks(ts, us, e)
  PROVE  Quiet(ds, l, us, e)
  <1>1. Unique(cl, e) => Unique(ds, e)
    BY DEF AlikeOn, Unique
  <1>2. CASE NoClose(ts, e) /\ Settled(cl, l, e)
    <2>1. NoClose(us, e)
      BY <1>2 DEF NoClose, SameTasks
    <2>2. Settled(ds, l, e)
      BY <1>1, <1>2 DEF Settled, AlikeOn
    <2> QED  BY <2>1, <2>2 DEF Quiet
  <1>3. ASSUME NEW t \in ts, OnlyTask(ts, e, t), t.at = "close", Paused(cl, l, e, t)
        PROVE  Quiet(ds, l, us, e)
    <2>1. t \in us /\ OnlyTask(us, e, t)
      BY <1>3 DEF OnlyTask, SameTasks
    <2>2. Paused(ds, l, e, t)
      BY <1>1, <1>3 DEF Paused, AlikeOn
    <2> QED  BY <1>3, <2>1, <2>2 DEF Quiet
  <1> QED  BY <1>2, <1>3 DEF Quiet

(* Where the application may call an endpoint it is settled. *)
LEMMA MayUseFacts ==
  ASSUME QuietClose, NEW e, MayUse(e), NEW cl, NEW l, Quiet(cl, l, tasks, e)
  PROVE  NoClose(tasks, e) /\ Settled(cl, l, e)
  <1>1. NoClose(tasks, e)
    BY DEF MayUse, Closing, NoClose
  <1> QED  BY <1>1 DEF Quiet, OnlyTask, NoClose

(* A settled endpoint is quiet. *)
LEMMA Settle ==
  ASSUME NEW cl, NEW l, NEW ts, NEW e, NoClose(ts, e), Settled(cl, l, e)
  PROVE  Quiet(cl, l, ts, e)
  BY DEF Quiet

(* A call object of e changes, and none of the other endpoint. *)
LEMMA UpdateFacts ==
  ASSUME NEW cl, CallsOK(cl), NEW e \in Ends, NEW c \in Own(e), NEW k, NEW ds, ds = Update(cl, c, k)
  PROVE  /\ ds[c] = k /\ \A x \in Own(e) : x # c => ds[x] = cl[x]
         /\ \A d \in Ends : d # e => \A x \in Own(d) : ds[x] = cl[x] /\ x # c
  <1>1. c \in AllCalls /\ \A d \in Ends : Own(d) \subseteq AllCalls
    BY ConstantFacts
  <1>2. ds[c] = k /\ \A x \in AllCalls : x # c => ds[x] = cl[x]
    BY <1>1 DEF CallsOK, Update
  <1>3. \A d \in Ends : d # e => \A x \in Own(d) : x # c
    BY ConstantFacts DEF Ends
  <1> QED  BY <1>1, <1>2, <1>3

(* A call is unregistered and closed. *)
LEMMA CloseSettled ==
  ASSUME NEW cl, CallsOK(cl), NEW e \in Ends, NEW c \in Own(e), NEW l, Settled(cl, l, e),
         NEW ds, ds = Update(cl, c, Closed), NEW m, m = Without(l, c)
  PROVE  Settled(ds, m, e)
  <1>1. ds[c] = Closed /\ \A x \in Own(e) : x # c => ds[x] = cl[x]
    BY UpdateFacts
  <1>2. l \in Seq(Own(e)) /\ IsInjective(l)
    BY DEF Settled
  <1>3. m \in Seq(Own(e)) /\ IsInjective(m) /\ ToSet(m) = ToSet(l) \ {c}
    BY <1>2, RemoveFirstFacts DEF Without
  <1>4. \A x \in Own(e) : x \in ToSet(m) <=> ds[x].active
    BY <1>1, <1>3, ClosedFacts DEF Settled
  <1>5. Unique(ds, e)
    BY <1>1, ClosedFacts DEF Settled, Unique
  <1> QED  BY <1>3, <1>4, <1>5 DEF Settled

(* No active call of e is for the RPC and channel of k. *)
Alone(cl, e, k) == \A x \in Own(e) : cl[x].active => ~(cl[x].chan = k.chan /\ cl[x].rpc = k.rpc)

(* A call is put at the front of the list. *)
LEMMA AddSettled ==
  ASSUME NEW cl, CallsOK(cl), NEW e \in Ends, NEW c \in Own(e), NEW l, Settled(cl, l, e),
         ~cl[c].active, NEW k, k.active, Alone(cl, e, k),
         NEW ds, ds = Update(cl, c, k), NEW m, m = <<c>> \o l
  PROVE  Settled(ds, m, e)
  <1>1. ds[c] = k /\ \A x \in Own(e) : x # c => ds[x] = cl[x]
    BY UpdateFacts
  <1>2. l \in Seq(Own(e)) /\ IsInjective(l) /\ c \notin ToSet(l)
    BY DEF Settled
  <1>3. m \in Seq(Own(e)) /\ IsInjective(m) /\ ToSet(m) = ToSet(l) \cup {c}
    BY <1>2, Prepend
  <1>4. \A x \in Own(e) : x \in ToSet(m) <=> ds[x].active
    BY <1>1, <1>3 DEF Settled
  <1>5. Unique(ds, e)
    BY <1>1 DEF Settled, Unique, Alone
  <1> QED  BY <1>3, <1>4, <1>5 DEF Settled

(* A call changes in members the list does not depend on. *)
LEMMA SameSettled ==
  ASSUME NEW cl, CallsOK(cl), NEW e \in Ends, NEW c \in Own(e), NEW l, Settled(cl, l, e),
         NEW k, k.active <=> cl[c].active, k.chan = cl[c].chan, k.rpc = cl[c].rpc,
         NEW ds, ds = Update(cl, c, k)
  PROVE  Settled(ds, l, e)
  <1>1. ds[c] = k /\ \A x \in Own(e) : x # c => ds[x] = cl[x]
    BY UpdateFacts
  <1>2. \A x \in Own(e) : (ds[x].active <=> cl[x].active) /\ ds[x].chan = cl[x].chan /\ ds[x].rpc = cl[x].rpc
    BY <1>1
  <1>3. Unique(ds, e)
    BY <1>2 DEF Settled, Unique
  <1> QED  BY <1>2, <1>3 DEF Settled

(* A call moves to another object. *)
LEMMA MoveSettled ==
  ASSUME NEW cl, CallsOK(cl), NEW e \in Ends, NEW dst \in Own(e), NEW src \in Own(e), dst # src,
         NEW l, Settled(cl, l, e), cl[src].active,
         NEW ds, ds = Update(Update(cl, dst, cl[src]), src, Closed),
         NEW m, m = <<dst>> \o Without(Without(l, dst), src)
  PROVE  Settled(ds, m, e)
  <1> DEFINE mid == Update(cl, dst, cl[src])
             one == Update(cl, dst, Closed)
             two == Update(one, src, Closed)
             k == cl[src]
  <1>1. dst \in AllCalls /\ src \in AllCalls
    BY ConstantFacts
  <1>2. CallsOK(one) /\ Settled(one, Without(l, dst), e)
    BY <1>1, OneCall, CloseSettled
  <1>3. CallsOK(two) /\ Settled(two, Without(Without(l, dst), src), e)
    <2> HIDE DEF one
    <2> QED  BY <1>1, <1>2, OneCall, CloseSettled
  <1>4. ds = Update(two, dst, k)
    BY <1>1 DEF Update, CallsOK
  <1>5. one[dst] = Closed /\ \A x \in Own(e) : x # dst => one[x] = cl[x]
    BY UpdateFacts
  <1>6. two[src] = Closed /\ \A x \in Own(e) : x # src => two[x] = one[x]
    <2> HIDE DEF one
    <2> QED  BY <1>2, UpdateFacts
  <1> HIDE DEF one, two, mid
  <1>7. ~two[dst].active
    BY <1>5, <1>6, ClosedFacts
  <1>8. Alone(two, e, k)
    <2> SUFFICES ASSUME NEW x \in Own(e), two[x].active, two[x].chan = k.chan, two[x].rpc = k.rpc
                 PROVE  FALSE
      BY DEF Alone
    <2>1. x # src /\ x # dst /\ two[x] = cl[x]
      BY <1>5, <1>6, ClosedFacts
    <2> QED  BY <2>1 DEF Settled, Unique
  <1> HIDE DEF k
  <1>9. k.active
    BY DEF k
  <1> QED  BY <1>3, <1>4, <1>7, <1>8, <1>9, AddSettled

(* When FindCallById finds nothing there is nothing to find. *)
LEMMA NoneFound ==
  ASSUME NEW e \in Ends, NEW ch, NEW r, FindCallById(e, ch, r) = {}, Settled(call, list[e], e)
  PROVE  \A x \in Own(e) : call[x].active => ~(call[x].chan = ch /\ call[x].rpc = r)
  <1> DEFINE match == {i \in 1..Len(list[e]) : call[list[e][i]].chan = ch /\ call[list[e][i]].rpc = r}
  <1>1. match = {}
    <2> SUFFICES ASSUME match # {} PROVE FALSE
      OBVIOUS
    <2>1. match \in SUBSET Nat
      OBVIOUS
    <2>2. FindCallById(e, ch, r) = {list[e][i] : i \in {j \in match : \A k \in match : j <= k}}
      BY DEF FindCallById
    <2> HIDE DEF match
    <2>3. Min(match) \in match /\ \A k \in match : Min(match) <= k
      BY <2>1, NatMin
    <2> QED  BY <2>2, <2>3
  <1> SUFFICES ASSUME NEW x \in Own(e), call[x].active, call[x].chan = ch, call[x].rpc = r PROVE FALSE
    OBVIOUS
  <1>2. x \in ToSet(list[e]) /\ list[e] \in Seq(Own(e))
    BY DEF Settled
  <1>3. PICK i \in 1..Len(list[e]) : list[e][i] = x
    BY <1>2 DEF ToSet
  <1>4. i \in match
    BY <1>3
  <1> QED  BY <1>1, <1>4

(* Where an element of the list is. *)
LEMMA PositionFacts ==
  ASSUME NEW S, NEW l \in Seq(S), IsInjective(l), NEW c
  PROVE  /\ c \notin S => Position(l, c) = 0
         /\ \A i \in 1..Len(l) : l[i] = c => Position(l, c) = i
  <1> DEFINE I == {i \in 1..Len(l) : l[i] = c}
  <1>1. Position(l, c) = IF I # {} THEN Min(I) ELSE 0
    BY DEF Position, SelectInSeq
  <1>2. I \in SUBSET Nat
    OBVIOUS
  <1>3. c \notin S => I = {}
    OBVIOUS
  <1>4. \A i, j \in I : i = j
    BY DEF IsInjective
  <1>5. \A i \in 1..Len(l) : l[i] = c => i \in I
    OBVIOUS
  <1> HIDE DEF I
  <1>6. I # {} => Min(I) \in I
    BY <1>2, NatMin
  <1> QED  BY <1>1, <1>3, <1>4, <1>5, <1>6

(* erase_after(previous) takes the closed call off the list. *)
LEMMA ErasesClosed ==
  ASSUME NEW cl, NEW e \in Ends, NEW l, NEW t, Paused(cl, l, e, t)
  PROVE  /\ t.prev = Head_ \/ Position(l, t.prev) > 0
         /\ Follows(l, t.prev) = t.c /\ t.c # Head_
         /\ Settled(cl, Without(l, t.c), e)
  <1>1. l \in Seq(Own(e)) /\ IsInjective(l) /\ t.c \in Own(e) /\ Behind(l, t.prev, t.c)
    BY DEF Paused
  <1>2. Head_ \notin Own(e)
    BY ConstantFacts
  <1>3. Len(l) \in Nat
    BY <1>1
  <1>4. (t.prev = Head_ \/ Position(l, t.prev) > 0) /\ Follows(l, t.prev) = t.c
    <2>1. CASE t.prev = Head_ /\ 1 \in 1..Len(l) /\ l[1] = t.c
      <3>1. Position(l, t.prev) = 0
        BY <1>1, <1>2, <2>1, PositionFacts
      <3>2. 0 < Len(l)
        BY <1>3, <2>1
      <3> QED  BY <2>1, <3>1, <3>2 DEF Follows
    <2>2. ASSUME NEW i \in 1..Len(l), i + 1 \in 1..Len(l), l[i] = t.prev, l[i + 1] = t.c
          PROVE  (t.prev = Head_ \/ Position(l, t.prev) > 0) /\ Follows(l, t.prev) = t.c
      <3>1. Position(l, t.prev) = i
        BY <1>1, <2>2, PositionFacts
      <3>2. i < Len(l) /\ i > 0
        BY <1>3, <2>2
      <3> QED  BY <2>2, <3>1, <3>2 DEF Follows
    <2> QED  BY <1>1, <2>1, <2>2 DEF Behind
  <1> DEFINE m == Without(l, t.c)
  <1>5. m \in Seq(Own(e)) /\ IsInjective(m) /\ ToSet(m) = ToSet(l) \ {t.c}
    BY <1>1, RemoveFirstFacts DEF Without
  <1> HIDE DEF m
  <1>6. Settled(cl, m, e)
    BY <1>5 DEF Settled, Paused
  <1> QED  BY <1>1, <1>2, <1>4, <1>6 DEF m

(* The loop of CloseChannel, on a list that is in order. *)
LEMMA CloseFromQuiet ==
  ASSUME CallsOK(call), NEW e \in Ends, NEW ch \in Channels, NEW l, Settled(call, l, e), NEW prev,
         NEW ts,
         \A t \in ts : t.e # e, CloseFrom(e, ch, l, prev, ts), list \in [Ends -> Seq(AllCalls)]
  PROVE  Quiet(call', list'[e], tasks', e)
  <1>1. l \in Seq(Own(e)) /\ IsInjective(l)
    BY DEF Settled
  <1>2. /\ list' = Update(list, e, l)
        /\ \/ call' = call /\ tasks' = ts
           \/ \E j \in 1..Len(l) : \E t : StopsAt(e, ch, l, prev, ts, j, t)
    BY <1>1, CloseFromFacts
  <1>3. list'[e] = l
    BY <1>2 DEF Update
  <1>4. CASE call' = call /\ tasks' = ts
    <2>1. NoClose(tasks', e)
      BY <1>4 DEF NoClose
    <2>2. Settled(call', l, e)
      BY <1>4
    <2> QED  BY <1>3, <2>1, <2>2, Settle
  <1>5. ASSUME NEW j \in 1..Len(l), NEW t, StopsAt(e, ch, l, prev, ts, j, t)
        PROVE  Quiet(call', l, tasks', e)
    <2> DEFINE c == l[j]
    <2>1. c \in Own(e) /\ c \in ToSet(l)
      BY <1>1 DEF ToSet
    <2>2. Behind(l, t.prev, c)
      <3>1. Len(l) \in Nat /\ t.prev = (IF j = 1 THEN Head_ ELSE l[j - 1])
        BY <1>1, <1>5 DEF StopsAt
      <3>2. CASE j = 1
        BY <3>1, <3>2 DEF Behind
      <3>3. CASE j # 1
        <4>1. j - 1 \in 1..Len(l) /\ (j - 1) + 1 = j
          BY <3>1, <3>3
        <4> QED  BY <3>1, <3>3, <4>1 DEF Behind
      <3> QED  BY <3>2, <3>3
    <2> HIDE DEF c
    <2>3. /\ call' = Update(call, c, Closed)
          /\ tasks' = ts \cup {t} /\ t.at = "close" /\ t.e = e /\ t.c = c
      BY <1>5 DEF StopsAt, c
    <2>4. call'[c] = Closed /\ \A x \in Own(e) : x # c => call'[x] = call[x]
      BY <2>1, <2>3, UpdateFacts
    <2>5. Unique(call', e)
      BY <2>4, ClosedFacts DEF Settled, Unique
    <2>6. \A x \in Own(e) : x \in ToSet(l) <=> call'[x].active \/ x = c
      BY <2>1, <2>4, ClosedFacts DEF Settled
    <2>7. Paused(call', l, e, t)
      BY <1>1, <2>1, <2>2, <2>3, <2>4, <2>5, <2>6, ClosedFacts DEF Paused
    <2>8. t \in tasks' /\ OnlyTask(tasks', e, t)
      BY <2>3 DEF OnlyTask
    <2> QED  BY <2>3, <2>7, <2>8 DEF Quiet
  <1> QED  BY <1>2, <1>3, <1>4, <1>5

(* The inductive part of CallsListedIffActive and OneCallPerRpc. *)
Ordered == (\A e \in Ends : Quiet(call, list[e], tasks, e)) /\ Handling(call, tasks)

(* Ordered of the next state. *)
LEMMA OrderedPrime ==
  (\A e \in Ends : Quiet(call', list'[e], tasks', e)) /\ Handling(call', tasks') => Ordered'
  BY DEF Ordered, Quiet, Handling, NoClose, OnlyTask, Settled, Paused, Unique, Behind, ToSet,
         IsInjective, Own, Ends, Head_

(* What a step on endpoint e leaves alone. *)
Elsewhere(e) ==
  \A d \in Ends : d # e => /\ list'[d] = list[d] /\ AlikeOn(call, call', d)
                           /\ SameTasks(tasks, tasks', d)

(* A step on endpoint e. *)
LEMMA StepAt ==
  ASSUME Ordered, NEW e \in Ends, Quiet(call', list'[e], tasks', e), Elsewhere(e), Handling(call',
         tasks')
  PROVE  Ordered'
  <1>1. ASSUME NEW d \in Ends PROVE Quiet(call', list'[d], tasks', d)
    <2>1. CASE d = e
      BY <2>1
    <2>2. CASE d # e
      BY <2>2, OtherEnd DEF Ordered, Elsewhere
    <2> QED  BY <2>1, <2>2
  <1> QED  BY <1>1, OrderedPrime

(* Steps that invoke no method and give the responder no call. *)
LEMMA HandlingSame ==
  ASSUME NEW cl, NEW ds, NEW ts, NEW us, Handling(cl, ts),
         ds[Responder].active => cl[Responder].active,
         \A t : t.at = "handler" => (t \in us <=> t \in ts)
  PROVE  Handling(ds, us)
  BY DEF Handling

(* Steps that leave calls, lists and tasks alone. *)
LEMMA OrderedSame ==
  ASSUME Ordered, call' = call, list' = list, tasks' = tasks
  PROVE  Ordered'
  BY OrderedPrime DEF Ordered

(* An endpoint with a task that is not a CloseChannel is settled. *)
LEMMA TaskShows ==
  ASSUME NEW cl, NEW l, NEW ts, NEW e, Quiet(cl, l, ts, e), NEW t \in ts, t.e = e, t.at # "close"
  PROVE  NoClose(ts, e) /\ Settled(cl, l, e)
  BY DEF Quiet, OnlyTask

(* An endpoint the application may call is settled. *)
LEMMA SettledNow ==
  ASSUME QuietClose, Ordered, NEW e \in Ends, MayUse(e)
  PROVE  NoClose(tasks, e) /\ Settled(call, list[e], e)
  BY MayUseFacts DEF Ordered

(* One list changes, the other does not. *)
LEMMA ListUpdate ==
  ASSUME Base, NEW e \in Ends, NEW l, list' = Update(list, e, l)
  PROVE  list'[e] = l /\ \A d \in Ends : d # e => list'[d] = list[d]
  BY DEF Base, ListsOK, Update

(* One call object of e changes. *)
LEMMA AlikeUpdate ==
  ASSUME NEW cl, CallsOK(cl), NEW e \in Ends, NEW c \in Own(e), NEW k, NEW ds, ds = Update(cl, c, k)
  PROVE  \A d \in Ends : d # e => AlikeOn(cl, ds, d)
  BY UpdateFacts DEF AlikeOn

(* Two call objects of e change. *)
LEMMA AlikeTwice ==
  ASSUME NEW cl, CallsOK(cl), NEW e \in Ends, NEW b \in Own(e), NEW c \in Own(e), NEW j,
         Live(j) \/ j = Closed,
         NEW k, NEW ds, ds = Update(Update(cl, b, j), c, k)
  PROVE  \A d \in Ends : d # e => AlikeOn(cl, ds, d)
  <1> DEFINE mid == Update(cl, b, j)
  <1>1. \A d \in Ends : d # e => AlikeOn(cl, mid, d)
    BY AlikeUpdate
  <1>2. CallsOK(mid)
    BY ConstantFacts, OneCall
  <1> HIDE DEF mid
  <1>3. \A d \in Ends : d # e => AlikeOn(mid, ds, d)
    <2>1. ds = Update(mid, c, k)
      BY DEF mid
    <2> QED  BY <1>2, <2>1, AlikeUpdate
  <1> QED  BY <1>1, <1>3 DEF AlikeOn

(* A step of the client leaves the responder alone. *)
LEMMA ClientResponder ==
  ASSUME AlikeOn(call, call', "server")
  PROVE  call'[Responder].active <=> call[Responder].active
  BY ConstantFacts DEF AlikeOn

(* A call object of e is closed. *)
LEMMA CloseQuiet ==
  ASSUME QuietClose, Base, Ordered, NEW e \in Ends, NEW c \in Own(e), NoClose(tasks, e),
         Settled(call, list[e], e),
         call' = Update(call, c, Closed), list' = Update(list, e, Without(list[e], c)),
         \A t \in tasks' : t \notin tasks => t.e = e /\ t.at = "return",
         \A t \in tasks : t \notin tasks' => t.e = e /\ t.at # "handler"
  PROVE  Ordered'
  <1>1. CallsOK(call)
    BY DEF Base
  <1>2. list'[e] = Without(list[e], c) /\ \A d \in Ends : d # e => list'[d] = list[d]
    BY ListUpdate
  <1>3. Settled(call', list'[e], e)
    BY <1>1, <1>2, CloseSettled
  <1>4. NoClose(tasks', e)
    BY DEF NoClose
  <1>5. \A d \in Ends : d # e => AlikeOn(call, call', d)
    BY <1>1, AlikeUpdate
  <1>6. \A d \in Ends : d # e => SameTasks(tasks, tasks', d)
    BY DEF SameTasks
  <1>7. Handling(call', tasks')
    <2>1. call'[Responder].active => call[Responder].active
      <3>1. c \in AllCalls /\ Responder \in AllCalls
        BY ConstantFacts
      <3>2. call'[c] = Closed /\ \A x \in AllCalls : x # c => call'[x] = call[x]
        BY <1>1, <3>1, OneCall
      <3> QED  BY <3>1, <3>2, ClosedFacts
    <2>2. \A t : t.at = "handler" => (t \in tasks' <=> t \in tasks)
      OBVIOUS
    <2> QED  BY <2>1, <2>2, HandlingSame DEF Ordered
  <1>8. Quiet(call', list'[e], tasks', e)
    BY <1>3, <1>4, Settle
  <1> QED  BY <1>2, <1>5, <1>6, <1>7, <1>8, StepAt DEF Elsewhere

(* A call object of e changes in members that the list does not depend on. *)
LEMMA SameQuiet ==
  ASSUME Base, Ordered, NEW e \in Ends, NEW c \in Own(e), NoClose(tasks, e), Settled(call,
         list[e], e),
         NEW k, k.active <=> call[c].active, k.chan = call[c].chan, k.rpc = call[c].rpc,
         call' = Update(call, c, k), list'[e] = list[e],
           \A d \in Ends : d # e => list'[d] = list[d],
         \A t \in tasks' : t \notin tasks => t.e = e /\ t.at = "return",
         \A t \in tasks : t \notin tasks' => t.e = e /\ t.at # "handler"
  PROVE  Ordered'
  <1>1. CallsOK(call)
    BY DEF Base
  <1>3. Settled(call', list'[e], e)
    BY <1>1, SameSettled
  <1>4. NoClose(tasks', e)
    BY DEF NoClose
  <1>5. \A d \in Ends : d # e => AlikeOn(call, call', d)
    BY <1>1, AlikeUpdate
  <1>6. \A d \in Ends : d # e => SameTasks(tasks, tasks', d)
    BY DEF SameTasks
  <1>7. Handling(call', tasks')
    <2>1. call'[Responder].active => call[Responder].active
      <3>1. c \in AllCalls /\ Responder \in AllCalls /\ call \in [AllCalls -> CallRec]
        BY <1>1, ConstantFacts DEF CallsOK
      <3>2. call'[c] = k /\ \A x \in AllCalls : x # c => call'[x] = call[x]
        BY <3>1 DEF Update
      <3> QED  BY <3>1, <3>2
    <2>2. \A t : t.at = "handler" => (t \in tasks' <=> t \in tasks)
      OBVIOUS
    <2> QED  BY <2>1, <2>2, HandlingSame DEF Ordered
  <1>8. Quiet(call', list'[e], tasks', e)
    BY <1>3, <1>4, Settle
  <1> QED  BY <1>5, <1>6, <1>7, <1>8, StepAt DEF Elsewhere

(* A new call is registered. *)
LEMMA AddQuiet ==
  ASSUME Base, Ordered, NEW c \in ClientCalls, NoClose(tasks, "client"), Settled(call,
         list["client"], "client"),
         ~call[c].active, NEW k, k.active, Alone(call, "client", k),
         call' = Update(call, c, k), list' = Update(list, "client", <<c>> \o list["client"]), tasks' = tasks
  PROVE  Ordered'
  <1>1. CallsOK(call) /\ "client" \in Ends /\ c \in Own("client")
    BY ConstantFacts DEF Base
  <1>2. /\ list'["client"] = <<c>> \o list["client"]
        /\ \A d \in Ends : d # "client" => list'[d] = list[d]
    BY <1>1, ListUpdate
  <1>3. Settled(call', list'["client"], "client")
    BY <1>1, <1>2, AddSettled
  <1>4. \A d \in Ends : d # "client" => AlikeOn(call, call', d)
    BY <1>1, AlikeUpdate
  <1>5. Handling(call', tasks')
    <2>1. call'[Responder].active <=> call[Responder].active
      BY <1>4, ConstantFacts, ClientResponder
    <2> QED  BY <2>1, HandlingSame DEF Ordered
  <1>6. Quiet(call', list'["client"], tasks', "client")
    BY <1>3, Settle
  <1>7. \A d \in Ends : SameTasks(tasks, tasks', d)
    BY DEF SameTasks
  <1> QED  BY <1>1, <1>2, <1>4, <1>5, <1>6, <1>7, StepAt DEF Elsewhere

(* A new call is registered and the one it replaces closed. *)
LEMMA RegisterQuiet ==
  ASSUME Base, NEW e \in Ends, NEW c \in Own(e), NoClose(tasks, e), Settled(call, list[e], e),
         ~call[c].active, NEW new, Live(new), NEW at, at # "close", RegisterCall(e, c, new, at)
  PROVE  Quiet(call', list'[e], tasks', e) /\ Elsewhere(e) /\ \E t : tasks' = tasks \cup {t} /\ t.at = at
  <1>1. CallsOK(call) /\ c \in AllCalls /\ new.active /\ new.chan \in Channels
    BY ConstantFacts DEF Base, Live
  <1>2. PICK t : Registers(e, c, new, at, t)
    BY RegisterFacts
  <1>3. tasks' = tasks \cup {t} /\ t.at = at /\ t.e = e
    BY <1>2 DEF Registers
  <1>4. NoClose(tasks', e)
    BY <1>3 DEF NoClose
  <1>5. \A d \in Ends : d # e => SameTasks(tasks, tasks', d)
    BY <1>3 DEF SameTasks
  <1>6. /\ Settled(call', list'[e], e)
        /\ \A d \in Ends : d # e => list'[d] = list[d] /\ AlikeOn(call, call', d)
    <2>1. CASE RegistersNew(e, c, new, t)
      <3>1. /\ FindCallById(e, new.chan, new.rpc) = {} /\ call' = Update(call, c, new)
            /\ list' = Update(list, e, <<c>> \o list[e])
        BY <2>1 DEF RegistersNew
      <3>2. list'[e] = <<c>> \o list[e] /\ \A d \in Ends : d # e => list'[d] = list[d]
        BY <3>1, ListUpdate
      <3>3. Alone(call, e, new)
        BY <3>1, NoneFound DEF Alone
      <3>4. Settled(call', list'[e], e)
        BY <1>1, <3>1, <3>2, <3>3, AddSettled
      <3>5. \A d \in Ends : d # e => AlikeOn(call, call', d)
        BY <1>1, <3>1, AlikeUpdate
      <3> QED  BY <3>2, <3>4, <3>5
    <2>2. ASSUME NEW o, RegistersOver(e, c, new, t, o)
          PROVE  /\ Settled(call', list'[e], e)
                 /\ \A d \in Ends : d # e => list'[d] = list[d] /\ AlikeOn(call, call', d)
      <3> DEFINE mid == Update(call, o, Closed)
                 l == Without(list[e], o)
      <3>1. /\ o \in FindCallById(e, new.chan, new.rpc) /\ call' = Update(mid, c, new)
            /\ list' = Update(list, e, <<c>> \o l)
        BY <2>2 DEF RegistersOver
      <3>2. list'[e] = <<c>> \o l /\ \A d \in Ends : d # e => list'[d] = list[d]
        <4> HIDE DEF l
        <4> QED  BY <3>1, ListUpdate
      <3>3. o \in Own(e) /\ o \in AllCalls /\ call[o].active /\ call[o].chan = new.chan /\ call[o].rpc = new.rpc
        BY <1>1, <3>1, FoundCall
      <3>4. Settled(mid, l, e) /\ CallsOK(mid)
        BY <1>1, <3>3, CloseSettled, OneCall
      <3>5. mid[o] = Closed /\ \A x \in Own(e) : x # o => mid[x] = call[x]
        BY <1>1, <3>3, UpdateFacts
      <3>6. \A d \in Ends : d # e => AlikeOn(call, call', d)
        BY <1>1, <3>1, <3>3, AlikeTwice
      <3> HIDE DEF mid, l
      <3>7. ~mid[c].active
        BY <3>5, ClosedFacts
      <3>8. Alone(mid, e, new)
        BY <3>3, <3>5, ClosedFacts DEF Alone, Settled, Unique
      <3>9. Settled(call', list'[e], e)
        BY <1>1, <3>1, <3>2, <3>4, <3>7, <3>8, AddSettled
      <3> QED  BY <3>2, <3>6, <3>9
    <2> QED  BY <1>2, <2>1, <2>2 DEF Registers
  <1>7. Quiet(call', list'[e], tasks', e)
    BY <1>4, <1>6, Settle
  <1> QED  BY <1>3, <1>5, <1>6, <1>7 DEF Elsewhere

(* A call is moved. *)
LEMMA MoveQuiet ==
  ASSUME Base, NEW e \in Ends, NEW dst \in Own(e), NEW src \in Own(e),
         Settled(call, list[e], e), MoveFrom(e, dst, src)
  PROVE  /\ Settled(call', list'[e], e)
         /\ \A d \in Ends : d # e => list'[d] = list[d] /\ AlikeOn(call, call', d)
  <1>1. CallsOK(call) /\ dst \in AllCalls /\ src \in AllCalls
    BY ConstantFacts DEF Base
  <1>2. /\ dst # src
        /\ \/ /\ call[src].active
              /\ call' = Update(Update(call, dst, call[src]), src, Closed)
              /\ list' = Update(list, e, <<dst>> \o Without(Without(list[e], dst), src))
           \/ /\ ~call[src].active
              /\ call' = Update(call, dst, Closed)
              /\ list' = Update(list, e, Without(list[e], dst))
    BY MoveFacts
  <1>3. CASE /\ call[src].active
             /\ call' = Update(Update(call, dst, call[src]), src, Closed)
             /\ list' = Update(list, e, <<dst>> \o Without(Without(list[e], dst), src))
    <2>1. /\ list'[e] = <<dst>> \o Without(Without(list[e], dst), src)
          /\ \A d \in Ends : d # e => list'[d] = list[d]
      BY <1>3, ListUpdate
    <2>2. Settled(call', list'[e], e)
      BY <1>1, <1>2, <1>3, <2>1, MoveSettled
    <2>3. Live(call[src])
      BY <1>1, <1>3, LiveOrClosed
    <2>4. \A d \in Ends : d # e => AlikeOn(call, call', d)
      BY <1>1, <1>3, <2>3, AlikeTwice
    <2> QED  BY <2>1, <2>2, <2>4
  <1>4. CASE /\ call' = Update(call, dst, Closed)
             /\ list' = Update(list, e, Without(list[e], dst))
    <2>1. list'[e] = Without(list[e], dst) /\ \A d \in Ends : d # e => list'[d] = list[d]
      BY <1>4, ListUpdate
    <2>2. Settled(call', list'[e], e)
      BY <1>1, <1>4, <2>1, CloseSettled
    <2>3. \A d \in Ends : d # e => AlikeOn(call, call', d)
      BY <1>1, <1>4, AlikeUpdate
    <2> QED  BY <2>1, <2>2, <2>3
  <1> QED  BY <1>2, <1>3, <1>4

(* A call is registered and its request sent, or closed again. *)
LEMMA SendQuiet ==
  ASSUME QuietClose, Base, Ordered, NEW c \in ClientCalls, NoClose(tasks, "client"),
         Settled(call, list["client"], "client"), ~call[c].active,
         NEW k, Live(k), Alone(call, "client", k), NEW g,
         SendInitialClientRequest(c, k, g, <<c>> \o list["client"], tasks)
  PROVE  Ordered'
  <1> DEFINE l == <<c>> \o list["client"]
  <1>1. CallsOK(call) /\ "client" \in Ends /\ c \in Own("client") /\ c \in AllCalls /\ k.active
    BY ConstantFacts DEF Base, Live
  <1>2. \/ call' = Update(call, c, k) /\ list' = Update(list, "client", l) /\ tasks' = tasks
        \/ /\ call' = Update(call, c, Closed)
           /\ list' = Update(list, "client", IF k.active THEN Without(l, c) ELSE l)
           /\ \E t : tasks' = tasks \cup {t} /\ t.at = "return" /\ t.e = "client"
    BY SendFacts
  <1>3. CASE call' = Update(call, c, k) /\ list' = Update(list, "client", l) /\ tasks' = tasks
    BY <1>1, <1>3, AddQuiet
  <1>4. CASE /\ call' = Update(call, c, Closed)
             /\ list' = Update(list, "client", IF k.active THEN Without(l, c) ELSE l)
             /\ \E t : tasks' = tasks \cup {t} /\ t.at = "return" /\ t.e = "client"
    <2> DEFINE mid == Update(call, c, k)
               m == Without(l, c)
    <2>1. Settled(mid, l, "client") /\ CallsOK(mid)
      BY <1>1, AddSettled, OneCall
    <2>2. Settled(Update(mid, c, Closed), m, "client")
      <3> HIDE DEF mid, l
      <3> QED  BY <1>1, <2>1, CloseSettled
    <2>3. Update(mid, c, Closed) = Update(call, c, Closed)
      BY <1>1 DEF Update, CallsOK
    <2> HIDE DEF mid, l
    <2>4. list' = Update(list, "client", m)
      BY <1>1, <1>4
    <2> HIDE DEF m
    <2>5. list'["client"] = m /\ \A d \in Ends : d # "client" => list'[d] = list[d]
      BY <1>1, <2>4, ListUpdate
    <2>6. Settled(call', list'["client"], "client")
      BY <1>4, <2>2, <2>3, <2>5
    <2>7. NoClose(tasks', "client") /\ \A d \in Ends : d # "client" => SameTasks(tasks, tasks', d)
      BY <1>4 DEF NoClose, SameTasks
    <2>8. \A d \in Ends : d # "client" => AlikeOn(call, call', d)
      BY <1>1, <1>4, AlikeUpdate
    <2>9. Handling(call', tasks')
      <3>1. call'[Responder].active <=> call[Responder].active
        BY <2>8, ConstantFacts, ClientResponder
      <3>2. \A t : t.at = "handler" => (t \in tasks' <=> t \in tasks)
        BY <1>4
      <3> QED  BY <3>1, <3>2, HandlingSame DEF Ordered
    <2>10. Quiet(call', list'["client"], tasks', "client")
      BY <2>6, <2>7, Settle
    <2> QED  BY <1>1, <2>5, <2>7, <2>8, <2>9, <2>10, StepAt DEF Elsewhere
  <1> QED  BY <1>2, <1>3, <1>4

(* One lemma for each action: lists and calls agree in the next state. *)
LEMMA StartQuiet ==
  ASSUME QuietClose, Base, Ordered, NEW c \in ClientCalls, NEW r \in Rpcs, NEW ch \in Channels,
         Start(c, r, ch)
  PROVE  Ordered'
  <1> DEFINE g == started + 1
             k == NewCall(r, ch, NewCallId, g)
  <1>1. g \in Gens /\ ~call[c].active /\ MayUse("client")
    BY ConstantFacts DEF Base, OthersOK, Start, Gens
  <1>2. NewCallId = g % MaxCallId
    BY DEF NewCallId
  <1>3. IF FindCallById("client", ch, r) = {}
        THEN SendInitialClientRequest(c, k, g, <<c>> \o list["client"], tasks)
        ELSE RegisterCall("client", c, k, "start")
    BY DEF Start
  <1> HIDE DEF g
  <1>4. Live(k) /\ k.chan = ch /\ k.rpc = r
    BY <1>1, <1>2, NewCallLive
  <1> HIDE DEF k
  <1>6. c \in Own("client") /\ "client" \in Ends
    BY ConstantFacts
  <1>7. NoClose(tasks, "client") /\ Settled(call, list["client"], "client")
    BY <1>1, <1>6, SettledNow
  <1>8. CASE FindCallById("client", ch, r) = {}
    <2>1. Alone(call, "client", k)
      BY <1>4, <1>6, <1>7, <1>8, NoneFound DEF Alone
    <2> QED  BY <1>1, <1>3, <1>4, <1>7, <1>8, <2>1, SendQuiet
  <1>9. CASE FindCallById("client", ch, r) # {}
    <2>1. /\ Quiet(call', list'["client"], tasks', "client") /\ Elsewhere("client")
          /\ \E t : tasks' = tasks \cup {t} /\ t.at = "start"
      BY <1>1, <1>3, <1>4, <1>6, <1>7, <1>9, RegisterQuiet
    <2>2. Handling(call', tasks')
      <3>1. AlikeOn(call, call', "server")
        BY <2>1, ConstantFacts DEF Elsewhere
      <3>2. call'[Responder].active <=> call[Responder].active
        BY <3>1, ClientResponder
      <3>3. \A t : t.at = "handler" => (t \in tasks' <=> t \in tasks)
        BY <2>1
      <3> QED  BY <3>2, <3>3, HandlingSame DEF Ordered
    <2> QED  BY <1>6, <2>1, <2>2, StepAt
  <1> QED  BY <1>8, <1>9

(* The rest of a Start. *)
LEMMA FinishStartQuiet ==
  ASSUME QuietClose, Base, Ordered, NEW t, FinishStart(t)
  PROVE  Ordered'
  <1> DEFINE k == call[t.c]
             c == t.c
             l == list["client"]
             ts == tasks \ {t}
  <1>1. /\ t \in tasks /\ t.at = "start" /\ SendInitialClientRequest(c, k, t.gen, l, ts)
    BY DEF FinishStart
  <1>2. c \in ClientCalls /\ c \in AllCalls /\ (k.active => Live(k)) /\ k = call[c]
    BY <1>1, StartedCall
  <1>3. t.e = "client" /\ "client" \in Ends /\ c \in Own("client")
    BY <1>1, <1>2, ConstantFacts DEF Base, TasksOK, TaskOK
  <1>4. NoClose(tasks, "client") /\ Settled(call, l, "client")
    BY <1>1, <1>3, TaskShows DEF Ordered
  <1> HIDE DEF k, c, ts
  <1>5. \/ call' = Update(call, c, k) /\ list' = Update(list, "client", l) /\ tasks' = ts
        \/ /\ call' = Update(call, c, Closed)
           /\ list' = Update(list, "client", IF k.active THEN Without(l, c) ELSE l)
           /\ \E u : tasks' = ts \cup {u} /\ u.at = "return" /\ u.e = "client"
    BY <1>1, <1>2, SendFacts
  <1>6. /\ \A u \in tasks' : u \notin tasks => u.e = "client" /\ u.at = "return"
        /\ \A u \in tasks : u \notin tasks' => u.e = "client" /\ u.at # "handler"
    BY <1>1, <1>3, <1>5 DEF ts
  <1>7. CASE call' = Update(call, c, k) /\ list' = Update(list, "client", l)
    <2>1. list'["client"] = l /\ \A d \in Ends : d # "client" => list'[d] = list[d]
      BY <1>3, <1>7, ListUpdate
    <2> QED  BY <1>2, <1>3, <1>4, <1>6, <1>7, <2>1, SameQuiet
  <1>8. CASE k.active /\ call' = Update(call, c, Closed) /\ list' = Update(list, "client", Without(l, c))
    BY <1>3, <1>4, <1>6, <1>8, CloseQuiet
  <1>9. CASE ~k.active /\ call' = Update(call, c, Closed) /\ list' = Update(list, "client", l)
    <2>1. list'["client"] = l /\ \A d \in Ends : d # "client" => list'[d] = list[d]
      BY <1>3, <1>9, ListUpdate
    <2>2. call[c] = Closed
      BY <1>2, <1>9, BaseParts, LiveOrClosed
    <2> QED  BY <1>3, <1>4, <1>6, <1>9, <2>1, <2>2, SameQuiet
  <1> QED  BY <1>5, <1>7, <1>8, <1>9

(* What the application does with a call it has. *)
LEMMA ApplicationQuiet ==
  ASSUME QuietClose, Base, Ordered, NEW e \in Ends, NEW c \in Own(e),
         \/ Write(e, c) \/ CloseAndSendFinalPacket(e, c)
         \/ e = "client" /\ (CloseClientStream(c) \/ DestroyClientCall(c))
  PROVE  Ordered'
  <1>1. c \in AllCalls /\ MayUse(e)
    BY ConstantFacts DEF Write, CloseAndSendFinalPacket, CloseClientStream, DestroyClientCall
  <1>2. NoClose(tasks, e) /\ Settled(call, list[e], e)
    BY <1>1, SettledNow
  <1>3. CASE Write(e, c)
    BY <1>3, OrderedSame DEF Write
  <1>4. CASE CloseAndSendFinalPacket(e, c) \/ (e = "client" /\ DestroyClientCall(c))
    <2>1. call' = MarkClosed(c) /\ list' = [list EXCEPT ![e] = Without(@, c)] /\ tasks' = tasks
      BY <1>4 DEF CloseAndSendFinalPacket, DestroyClientCall
    <2>2. call' = Update(call, c, Closed) /\ list' = Update(list, e, Without(list[e], c))
      BY <2>1 DEF MarkClosed, Update
    <2> QED  BY <1>2, <2>1, <2>2, CloseQuiet
  <1>5. CASE e = "client" /\ CloseClientStream(c)
    <2> DEFINE k == [call[c] EXCEPT !.stream = FALSE]
    <2>1. call[c].active /\ tasks' = tasks /\ list' = list /\ call' = Update(call, c, k)
      BY <1>5 DEF CloseClientStream, Update
    <2>2. Live(call[c])
      BY <1>1, <2>1, BaseParts, LiveOrClosed
    <2>3. Live(k) /\ k.chan = call[c].chan /\ k.rpc = call[c].rpc
      BY <2>2, StreamRecord
    <2> HIDE DEF k
    <2>4. k.active <=> call[c].active
      BY <2>2, <2>3 DEF Live
    <2> QED  BY <1>2, <2>1, <2>3, <2>4, SameQuiet
  <1> QED  BY <1>3, <1>4, <1>5

(* HandleError. *)
LEMMA HandleErrorQuiet ==
  ASSUME QuietClose, Base, Ordered, NEW e \in Ends, NEW c \in Own(e), MayUse(e), Live(call[c]),
         HandleError(e, c)
  PROVE  Ordered'
  <1> DEFINE us == Return(e, Callback(c))
  <1>1. /\ call' = Update(call, c, Closed) /\ list' = Update(list, e, Without(list[e], c))
        /\ tasks' = tasks \cup us
    BY DEF HandleError, Live, MarkClosed, Update
  <1>2. us = {} \/ \E u : us = {u} /\ u.at = "return" /\ u.e = e
    BY ReturnOK, CallbackOK
  <1> HIDE DEF us
  <1>3. NoClose(tasks, e) /\ Settled(call, list[e], e)
    BY SettledNow
  <1>4. /\ \A u \in tasks' : u \notin tasks => u.e = e /\ u.at = "return"
        /\ \A u \in tasks : u \notin tasks' => u.e = e /\ u.at # "handler"
    BY <1>1, <1>2
  <1> QED  BY <1>1, <1>3, <1>4, CloseQuiet

(* Client::ProcessPacket. *)
LEMMA ClientPacketQuiet ==
  ASSUME QuietClose, Base, Ordered, NEW p, ClientNoCall(p) \/ ClientEnds(p) \/ ClientStream(p)
  PROVE  Ordered'
  <1>1. CASE ClientNoCall(p)
    BY <1>1, OrderedSame DEF ClientNoCall
  <1>2. CASE ClientEnds(p) \/ ClientStream(p)
    <2>1. "client" \in Ends /\ Arrives("client", p) /\ MayUse("client")
      BY <1>2, ConstantFacts DEF ClientEnds, ClientStream, Arrives
    <2>2. Packet(p)
      BY <2>1, ArrivedPacket
    <2>3. PICK c \in CallOf("client", p) :
            HandleError("client", c) \/ (call' = call /\ list' = list /\ tasks' = tasks)
      BY <1>2 DEF ClientEnds, ClientStream
    <2>4. c \in Own("client") /\ Live(call[c])
      BY <2>1, <2>2, CallOfFacts
    <2>5. CASE HandleError("client", c)
      BY <2>1, <2>4, <2>5, HandleErrorQuiet
    <2>6. CASE call' = call /\ list' = list /\ tasks' = tasks
      BY <2>6, OrderedSame
    <2> QED  BY <2>3, <2>5, <2>6
  <1> QED  BY <1>1, <1>2

(* A request: the responder is free. *)
LEMMA InvokeQuiet ==
  ASSUME QuietClose, Base, Ordered, NEW p, Invoke(p)
  PROVE  Ordered'
  <1> DEFINE new == NewCall(p.rpc, p.chan, p.id, p.gen)
  <1>1. /\ Arrives("server", p) /\ MayUse("server") /\ \A t \in tasks : t.at # "handler"
        /\ RegisterCall("server", Responder, new, "handler")
    BY DEF Invoke, ServerHas, Arrives
  <1>2. "server" \in Ends /\ Responder \in Own("server")
    BY ConstantFacts
  <1>3. Packet(p)
    BY <1>1, <1>2, ArrivedPacket
  <1>4. Live(new)
    BY <1>3, NewCallLive DEF Packet, PacketRec
  <1> HIDE DEF new
  <1>5. ~call[Responder].active
    BY <1>1 DEF Ordered, Handling
  <1>6. NoClose(tasks, "server") /\ Settled(call, list["server"], "server")
    BY <1>1, <1>2, SettledNow
  <1>7. /\ Quiet(call', list'["server"], tasks', "server") /\ Elsewhere("server")
        /\ \E t : tasks' = tasks \cup {t} /\ t.at = "handler"
    BY <1>1, <1>2, <1>4, <1>5, <1>6, RegisterQuiet
  <1>8. Handling(call', tasks')
    BY <1>1, <1>7 DEF Handling
  <1> QED  BY <1>2, <1>7, <1>8, StepAt

(* Server::ProcessPacket. *)
LEMMA ServerPacketQuiet ==
  ASSUME QuietClose, Base, Ordered, NEW p,
         ServerUnknown(p) \/ Invoke(p) \/ ServerRefusesStream(p) \/ ServerStream(p) \/ ServerError(p)
  PROVE  Ordered'
  <1>1. "server" \in Ends
    BY ConstantFacts
  <1>2. CASE ServerUnknown(p)
    BY <1>2, OrderedSame DEF ServerUnknown
  <1>3. CASE ServerRefusesStream(p)
    BY <1>3, OrderedSame DEF ServerRefusesStream
  <1>4. CASE Invoke(p)
    BY <1>4, InvokeQuiet
  <1>5. CASE ServerStream(p)
    <2>1. PICK c \in CallOf("server", p) : call' = [call EXCEPT ![c].stream = p.type = "CLIENT_STREAM"]
      BY <1>5 DEF ServerStream
    <2>2. list' = list /\ tasks' = tasks /\ Arrives("server", p) /\ MayUse("server")
      BY <1>5 DEF ServerStream, ServerHas, Arrives
    <2>3. c \in Own("server") /\ Live(call[c])
      BY <1>1, <2>2, ArrivedPacket, CallOfFacts
    <2>4. PICK k : Live(k) /\ k.chan = call[c].chan /\ k.rpc = call[c].rpc /\ call' = Update(call, c, k)
      <3>1. CASE p.type = "CLIENT_STREAM"
        <4> DEFINE k == [call[c] EXCEPT !.stream = TRUE]
        <4>1. call' = Update(call, c, k)
          BY <2>1, <3>1 DEF Update
        <4>2. Live(k) /\ k.chan = call[c].chan /\ k.rpc = call[c].rpc
          BY <2>3, StreamRecord
        <4> QED  BY <4>1, <4>2
      <3>2. CASE p.type # "CLIENT_STREAM"
        <4> DEFINE k == [call[c] EXCEPT !.stream = FALSE]
        <4>1. call' = Update(call, c, k)
          BY <2>1, <3>2 DEF Update
        <4>2. Live(k) /\ k.chan = call[c].chan /\ k.rpc = call[c].rpc
          BY <2>3, StreamRecord
        <4> QED  BY <4>1, <4>2
      <3> QED  BY <3>1, <3>2
    <2>5. k.active <=> call[c].active
      BY <2>3, <2>4 DEF Live
    <2>6. NoClose(tasks, "server") /\ Settled(call, list["server"], "server")
      BY <1>1, <2>2, SettledNow
    <2>7. list'["server"] = list["server"] /\ \A d \in Ends : d # "server" => list'[d] = list[d]
      BY <2>2
    <2> QED  BY <1>1, <2>2, <2>3, <2>4, <2>5, <2>6, <2>7, SameQuiet
  <1>6. CASE ServerError(p)
    <2>1. Arrives("server", p) /\ MayUse("server")
      BY <1>6 DEF ServerError, ServerHas, Arrives
    <2>2. CASE CallOf("server", p) = {}
      BY <1>6, <2>2, OrderedSame DEF ServerError
    <2>3. CASE CallOf("server", p) # {}
      <3>1. PICK c \in CallOf("server", p) : HandleError("server", c)
        BY <1>6, <2>3 DEF ServerError
      <3>2. c \in Own("server") /\ Live(call[c])
        BY <1>1, <2>1, ArrivedPacket, CallOfFacts
      <3> QED  BY <1>1, <2>1, <3>1, <3>2, HandleErrorQuiet
    <2> QED  BY <2>2, <2>3
  <1> QED  BY <1>2, <1>3, <1>4, <1>5, <1>6

(* Move assignment by the client's application. *)
LEMMA MoveCallQuiet ==
  ASSUME QuietClose, Base, Ordered, NEW dst \in ClientCalls, NEW src \in ClientCalls, Move(dst, src)
  PROVE  Ordered'
  <1>1. "client" \in Ends /\ dst \in Own("client") /\ src \in Own("client")
    BY ConstantFacts
  <1>2. MoveFrom("client", dst, src) /\ tasks' = tasks /\ MayUse("client")
    BY DEF Move
  <1>3. NoClose(tasks, "client") /\ Settled(call, list["client"], "client")
    BY <1>1, <1>2, SettledNow
  <1>4. /\ Settled(call', list'["client"], "client")
        /\ \A d \in Ends : d # "client" => list'[d] = list[d] /\ AlikeOn(call, call', d)
    BY <1>1, <1>2, <1>3, MoveQuiet
  <1>5. Quiet(call', list'["client"], tasks', "client")
    BY <1>2, <1>3, <1>4, Settle
  <1>6. Elsewhere("client")
    BY <1>2, <1>4 DEF Elsewhere, SameTasks
  <1>7. Handling(call', tasks')
    <2>1. call'[Responder].active <=> call[Responder].active
      BY <1>4, ConstantFacts, ClientResponder
    <2> QED  BY <1>2, <2>1, HandlingSame DEF Ordered
  <1> QED  BY <1>1, <1>5, <1>6, <1>7, StepAt

(* A method keeps its call. *)
LEMMA HandlerKeepsQuiet ==
  ASSUME QuietClose, Base, Ordered, NEW t \in tasks, NEW c \in ServerCalls, HandlerKeepsCall(t, c)
  PROVE  Ordered'
  <1>1. /\ MoveFrom("server", c, Responder) /\ t.at = "handler" /\ MayUse("server")
        /\ tasks' = tasks
    BY DEF HandlerKeepsCall
  <1>2. "server" \in Ends /\ c \in Own("server") /\ Responder \in Own("server")
    BY ConstantFacts
  <1>3. NoClose(tasks, "server") /\ Settled(call, list["server"], "server")
    BY <1>1, <1>2, SettledNow
  <1>4. /\ Settled(call', list'["server"], "server")
        /\ \A d \in Ends : d # "server" => list'[d] = list[d] /\ AlikeOn(call, call', d)
    BY <1>1, <1>2, <1>3, MoveQuiet
  <1>5. Quiet(call', list'["server"], tasks', "server")
    BY <1>1, <1>3, <1>4, Settle
  <1>6. Elsewhere("server")
    BY <1>1, <1>4 DEF Elsewhere, SameTasks
  <1>7. Handling(call', tasks')
    BY <1>1 DEF Ordered, Handling
  <1> QED  BY <1>2, <1>5, <1>6, <1>7, StepAt

(* A method returns: the responder is free again. *)
LEMMA HandlerReturnsQuiet ==
  ASSUME QuietClose, Base, Ordered, NEW t \in tasks, HandlerReturns(t)
  PROVE  Ordered'
  <1>1. /\ t.at = "handler" /\ MayUse("server") /\ tasks' = tasks \ {t}
        /\ call' = IF call[Responder].active THEN MarkClosed(Responder) ELSE call
        /\ list' = [list EXCEPT !["server"] = Without(@, Responder)]
    BY DEF HandlerReturns
  <1>2. "server" \in Ends /\ Responder \in Own("server") /\ Responder \in AllCalls /\ t.e = "server"
    BY <1>1, ConstantFacts DEF Base, TasksOK, TaskOK
  <1>3. call' = Update(call, Responder, Closed) /\ list' = Update(list, "server", Without(list["server"], Responder))
    <2>1. CASE call[Responder].active
      BY <1>1, <2>1 DEF MarkClosed, Update
    <2>2. CASE ~call[Responder].active
      <3>1. call[Responder] = Closed /\ call \in [AllCalls -> CallRec]
        BY <1>2, <2>2, BaseParts, LiveOrClosed DEF CallsOK
      <3> QED  BY <1>1, <2>2, <3>1 DEF Update
    <2> QED  BY <2>1, <2>2
  <1>4. NoClose(tasks, "server") /\ Settled(call, list["server"], "server")
    BY <1>1, <1>2, SettledNow
  <1>5. /\ list'["server"] = Without(list["server"], Responder)
        /\ \A d \in Ends : d # "server" => list'[d] = list[d]
    BY <1>2, <1>3, ListUpdate
  <1>6. Settled(call', list'["server"], "server") /\ \A d \in Ends : d # "server" => AlikeOn(call, call', d)
    BY <1>2, <1>3, <1>4, <1>5, BaseParts, CloseSettled, AlikeUpdate
  <1>7. NoClose(tasks', "server") /\ \A d \in Ends : d # "server" => SameTasks(tasks, tasks', d)
    BY <1>1, <1>2, <1>4 DEF NoClose, SameTasks
  <1>8. Quiet(call', list'["server"], tasks', "server")
    BY <1>6, <1>7, Settle
  <1>9. Handling(call', tasks')
    <2>1. call'[Responder] = Closed
      BY <1>2, <1>3, BaseParts, OneCall
    <2>2. \A u, v \in tasks' : u.at = "handler" /\ v.at = "handler" => u = v
      BY <1>1 DEF Ordered, Handling
    <2> QED  BY <2>1, <2>2, ClosedFacts DEF Handling
  <1> QED  BY <1>2, <1>5, <1>6, <1>7, <1>8, <1>9, StepAt DEF Elsewhere

(* A callback returns. *)
LEMMA RunCallbackQuiet ==
  ASSUME QuietClose, Base, Ordered, NEW t \in tasks, RunCallback(t)
  PROVE  Ordered'
  <1> DEFINE e == t.e
             ts == tasks \ {t}
  <1>1. call' = call /\ list' = list /\ e \in Ends
    BY DEF RunCallback, Base, TasksOK, TaskOK
  <1>2. \A d : AlikeOn(call, call', d)
    BY <1>1 DEF AlikeOn
  <1>3. Quiet(call, list[e], tasks, e) /\ Handling(call, tasks)
    BY <1>1 DEF Ordered
  <1>4. CASE t.at = "return" /\ tasks' = ts
    <2>1. NoClose(tasks, e) /\ Settled(call, list[e], e)
      BY <1>3, <1>4, TaskShows
    <2>2. NoClose(tasks', e) /\ \A d \in Ends : d # e => SameTasks(tasks, tasks', d)
      BY <1>4, <2>1 DEF NoClose, SameTasks
    <2>3. Quiet(call', list'[e], tasks', e)
      BY <1>1, <2>1, <2>2, Settle
    <2>4. Handling(call', tasks')
      BY <1>1, <1>3, <1>4, HandlingSame
    <2> QED  BY <1>1, <1>2, <2>2, <2>3, <2>4, StepAt DEF Elsewhere
  <1>5. ASSUME NEW u, tasks' = ts \cup {u}, u.at = t.at, u.e = t.e, u.c = t.c, u.prev = t.prev
        PROVE  Ordered'
    <2>1. \A d \in Ends : d # e => SameTasks(tasks, tasks', d)
      BY <1>5 DEF SameTasks
    <2>2. Quiet(call, list[e], tasks', e)
      <3>1. CASE NoClose(tasks, e) /\ Settled(call, list[e], e)
        <4>1. NoClose(tasks', e)
          BY <1>5, <3>1 DEF NoClose
        <4> QED  BY <3>1, <4>1, Settle
      <3>2. ASSUME NEW v \in tasks, OnlyTask(tasks, e, v), v.at = "close", Paused(call, list[e], e, v)
            PROVE  Quiet(call, list[e], tasks', e)
        <4>1. v = t
          BY <3>2 DEF OnlyTask
        <4>2. u \in tasks' /\ OnlyTask(tasks', e, u)
          BY <1>5, <3>2, <4>1 DEF OnlyTask
        <4>3. Paused(call, list[e], e, u)
          BY <1>5, <3>2, <4>1 DEF Paused
        <4> QED  BY <1>5, <3>2, <4>1, <4>2, <4>3 DEF Quiet
      <3> QED  BY <1>3, <3>1, <3>2 DEF Quiet
    <2>3. Handling(call, tasks')
      BY <1>3, <1>5 DEF Handling
    <2> QED  BY <1>1, <1>2, <2>1, <2>2, <2>3, StepAt DEF Elsewhere
  <1>6. \/ t.at = "return" /\ tasks' = ts
        \/ \E u : tasks' = ts \cup {u} /\ u.at = t.at /\ u.e = t.e /\ u.c = t.c /\ u.prev = t.prev
    BY CallbackOver
  <1> QED  BY <1>4, <1>5, <1>6

(* What CloseFrom leaves alone. *)
LEMMA CloseFromElsewhere ==
  ASSUME Base, Ordered, NEW e \in Ends, NEW ch, NEW l \in Seq(Own(e)), NEW prev, NEW ts,
         CloseFrom(e, ch, l, prev, ts),
         \A t \in tasks : t \notin ts => t.e = e /\ t.at # "handler", ts \subseteq tasks
  PROVE  Elsewhere(e) /\ Handling(call', tasks')
  <1>1. CallsOK(call)
    BY DEF Base
  <1>2. /\ list' = Update(list, e, l)
        /\ \/ call' = call /\ tasks' = ts
           \/ \E j \in 1..Len(l) : \E t : StopsAt(e, ch, l, prev, ts, j, t)
    BY CloseFromFacts
  <1>3. \A d \in Ends : d # e => list'[d] = list[d]
    BY <1>2, ListUpdate
  <1>4. /\ \A d \in Ends : d # e => AlikeOn(call, call', d) /\ SameTasks(tasks, tasks', d)
        /\ call'[Responder].active => call[Responder].active
        /\ \A t : t.at = "handler" => (t \in tasks' <=> t \in tasks)
    <2>1. CASE call' = call /\ tasks' = ts
      BY <2>1 DEF AlikeOn, SameTasks
    <2>2. ASSUME NEW j \in 1..Len(l), NEW t, StopsAt(e, ch, l, prev, ts, j, t)
          PROVE  /\ \A d \in Ends : d # e => AlikeOn(call, call', d) /\ SameTasks(tasks, tasks', d)
                 /\ call'[Responder].active => call[Responder].active
                 /\ \A u : u.at = "handler" => (u \in tasks' <=> u \in tasks)
      <3> DEFINE c == l[j]
      <3>1. c \in Own(e)
        OBVIOUS
      <3> HIDE DEF c
      <3>2. call' = Update(call, c, Closed) /\ tasks' = ts \cup {t} /\ t.at = "close" /\ t.e = e
        BY <2>2 DEF StopsAt, c
      <3>3. \A d \in Ends : d # e => AlikeOn(call, call', d)
        BY <1>1, <3>1, <3>2, AlikeUpdate
      <3>4. \A d \in Ends : d # e => SameTasks(tasks, tasks', d)
        BY <3>2 DEF SameTasks
      <3>5. c \in AllCalls /\ Responder \in AllCalls
        BY <3>1, ConstantFacts
      <3>6. call'[c] = Closed /\ \A x \in AllCalls : x # c => call'[x] = call[x]
        BY <1>1, <3>2, <3>5, OneCall
      <3>7. call'[Responder].active => call[Responder].active
        BY <3>5, <3>6, ClosedFacts
      <3>8. \A u : u.at = "handler" => (u \in tasks' <=> u \in tasks)
        BY <3>2
      <3> QED  BY <3>3, <3>4, <3>7, <3>8
    <2> QED  BY <1>2, <2>1, <2>2
  <1>5. Handling(call', tasks')
    BY <1>4, HandlingSame DEF Ordered
  <1> QED  BY <1>3, <1>4, <1>5 DEF Elsewhere

(* CloseChannel starts on an endpoint nothing else happens at. *)
LEMMA ChannelQuiet ==
  ASSUME QuietClose, Base, Ordered, NEW e \in Ends, NEW ch \in Channels, OpenChannel(e,
         ch) \/ CloseChannel(e, ch)
  PROVE  Ordered'
  <1>1. CASE OpenChannel(e, ch)
    BY <1>1, OrderedSame DEF OpenChannel
  <1>2. CASE CloseChannel(e, ch)
    <2>1. CloseFrom(e, ch, list[e], Head_, tasks) /\ MayUse(e) /\ \A t \in tasks : t.e # e
      BY <1>2 DEF CloseChannel
    <2>2. Settled(call, list[e], e)
      BY <2>1, SettledNow
    <2>3. list[e] \in Seq(Own(e)) /\ CallsOK(call) /\ list \in [Ends -> Seq(AllCalls)]
      BY DEF Base, ListsOK
    <2>4. Quiet(call', list'[e], tasks', e)
      BY <2>1, <2>2, <2>3, CloseFromQuiet
    <2>5. Elsewhere(e) /\ Handling(call', tasks')
      BY <2>1, <2>3, CloseFromElsewhere
    <2> QED  BY <2>4, <2>5, StepAt
  <1> QED  BY <1>1, <1>2

(* CloseChannel goes on: it erases the call it had closed. *)
LEMMA ContinueCloseQuiet ==
  ASSUME QuietClose, Base, Ordered, NEW t \in tasks, ContinueClose(t)
  PROVE  Ordered'
  <1> DEFINE l == list[t.e]
             listed == t.prev = Head_ \/ Position(l, t.prev) > 0
             prev == IF listed THEN t.prev ELSE Head_
             l2 == IF listed /\ Follows(l, prev) # Head_ THEN Without(l, Follows(l, prev)) ELSE l
  <1>1. t.at = "close" /\ CloseFrom(t.e, t.ch, l2, prev, tasks \ {t})
    BY DEF ContinueClose
  <1>2. t.e \in Ends /\ t.ch \in Channels
    BY <1>1 DEF Base, TasksOK, TaskOK
  <1>3. OnlyTask(tasks, t.e, t) /\ Paused(call, l, t.e, t)
    <2>1. Quiet(call, l, tasks, t.e)
      BY <1>2 DEF Ordered
    <2> QED  BY <1>1, <2>1 DEF Quiet, NoClose, OnlyTask
  <1>4. /\ listed /\ Follows(l, t.prev) = t.c /\ t.c # Head_
        /\ Settled(call, Without(l, t.c), t.e)
    BY <1>2, <1>3, ErasesClosed
  <1>5. l2 = Without(l, t.c)
    <2>1. prev = t.prev
      BY <1>4
    <2> QED  BY <1>4, <2>1
  <1> DEFINE m == Without(l, t.c)
  <1>6. CloseFrom(t.e, t.ch, m, prev, tasks \ {t}) /\ Settled(call, m, t.e)
    BY <1>1, <1>4, <1>5
  <1> HIDE DEF m, prev, l, l2
  <1>7. m \in Seq(Own(t.e)) /\ CallsOK(call) /\ list \in [Ends -> Seq(AllCalls)]
    BY <1>6 DEF Base, ListsOK, Settled
  <1>8. \A u \in tasks \ {t} : u.e # t.e
    BY <1>3 DEF OnlyTask
  <1>9. Quiet(call', list'[t.e], tasks', t.e)
    BY <1>2, <1>6, <1>7, <1>8, CloseFromQuiet
  <1>10. Elsewhere(t.e) /\ Handling(call', tasks')
    BY <1>1, <1>2, <1>6, <1>7, CloseFromElsewhere
  <1> QED  BY <1>2, <1>9, <1>10, StepAt

(* Empty lists match closed calls. *)
LEMMA OrderedInit == Init => Ordered
  <1> SUFFICES ASSUME Init PROVE Ordered
    OBVIOUS
  <1>1. \A e \in Ends : list[e] = <<>> /\ \A c \in Own(e) : call[c] = Closed
    BY ConstantFacts DEF Init
  <1>2. ASSUME NEW e \in Ends PROVE Settled(call, list[e], e)
    <2>1. \A c \in Own(e) : ~call[c].active
      BY <1>1, ClosedFacts
    <2>2. list[e] = <<>>
      BY <1>1
    <2>3. list[e] \in Seq(Own(e)) /\ ToSet(list[e]) = {} /\ IsInjective(list[e])
      BY <2>2 DEF ToSet, IsInjective
    <2> QED  BY <2>1, <2>3 DEF Settled, Unique
  <1>3. tasks = {} /\ ~call[Responder].active
    BY ConstantFacts, ClosedFacts DEF Init
  <1> QED  BY <1>2, <1>3 DEF Ordered, Quiet, NoClose, Handling

(* Every step keeps Ordered. *)
LEMMA OrderedStep ==
  ASSUME QuietClose
  PROVE  Base /\ Ordered /\ [Next]_vars => Ordered'
  <1> SUFFICES ASSUME Base, Ordered, [Next]_vars PROVE Ordered'
    OBVIOUS
  <1>1. CASE UNCHANGED vars
    BY <1>1, OrderedSame DEF vars
  <1>2. ASSUME NEW c \in ClientCalls, NEW r \in Rpcs, NEW ch \in Channels, Start(c, r, ch)
        PROVE  Ordered'
    BY <1>2, StartQuiet
  <1>3. ASSUME NEW e \in Ends, NEW c \in Own(e), Write(e, c) \/ CloseAndSendFinalPacket(e, c)
        PROVE  Ordered'
    BY <1>3, ApplicationQuiet
  <1>4. ASSUME NEW c \in ClientCalls, CloseClientStream(c) \/ DestroyClientCall(c)
        PROVE  Ordered'
    BY <1>4, ConstantFacts, ApplicationQuiet
  <1>5. ASSUME NEW c \in ClientCalls, NEW d \in ClientCalls, Move(c, d)
        PROVE  Ordered'
    BY <1>5, MoveCallQuiet
  <1>6. ASSUME NEW e \in Ends, NEW ch \in Channels, OpenChannel(e, ch) \/ CloseChannel(e, ch)
        PROVE  Ordered'
    BY <1>6, ChannelQuiet
  <1>7. CASE ClientReceives
    BY <1>7, ClientPacketQuiet DEF ClientReceives
  <1>8. CASE ServerReceives
    BY <1>8, ServerPacketQuiet DEF ServerReceives
  <1>9. ASSUME NEW t \in tasks, Resume(t)
        PROVE  Ordered'
    BY <1>9, FinishStartQuiet, ContinueCloseQuiet, RunCallbackQuiet, HandlerReturnsQuiet DEF Resume
  <1>10. ASSUME NEW t \in tasks, NEW c \in ServerCalls, HandlerKeepsCall(t, c)
         PROVE  Ordered'
    BY <1>10, HandlerKeepsQuiet
  <1>11. ASSUME NEW e \in Ends, Lose(e)
         PROVE  Ordered'
    BY <1>11, OrderedSame DEF Lose
  <1> QED  BY <1>1, <1>2, <1>3, <1>4, <1>5, <1>6, <1>7, <1>8, <1>9, <1>10, <1>11 DEF Next

(* Lists and call objects stay in order when the application leaves an endpoint alone while it
   closes a channel there. *)
THEOREM OrderedAlways ==
  ASSUME QuietClose
  PROVE  Spec => []Ordered
  <1>1. Base /\ Ordered /\ [Next]_vars => Ordered'
    BY OrderedStep
  <1> QED  BY <1>1, OrderedInit, BaseAlways, PTL DEF Spec

(* When the application leaves an endpoint alone while a channel is closed, the list of an
   endpoint holds exactly its active calls, each once. *)
THEOREM ListsMatchCalls ==
  ASSUME QuietClose
  PROVE  Spec => []CallsListedIffActive
  <1>1. Ordered => CallsListedIffActive
    <2> SUFFICES ASSUME Ordered, NEW e \in Ends, ~Closing(e)
                 PROVE  /\ \A i, j \in 1..Len(list[e]) : list[e][i] = list[e][j] => i = j
                        /\ {list[e][i] : i \in 1..Len(list[e])} = {c \in Own(e) : call[c].active}
      BY DEF CallsListedIffActive
    <2>1. Settled(call, list[e], e)
      BY DEF Ordered, Quiet, Closing, OnlyTask
    <2>2. list[e] \in Seq(Own(e)) /\ DOMAIN list[e] = 1..Len(list[e])
      BY <2>1 DEF Settled
    <2>3. \A i, j \in 1..Len(list[e]) : list[e][i] = list[e][j] => i = j
      BY <2>1, <2>2 DEF Settled, IsInjective
    <2>4. ToSet(list[e]) = {list[e][i] : i \in 1..Len(list[e])}
      BY <2>2 DEF ToSet
    <2>5. {list[e][i] : i \in 1..Len(list[e])} \subseteq Own(e)
      BY <2>2
    <2>6. {list[e][i] : i \in 1..Len(list[e])} = {c \in Own(e) : call[c].active}
      BY <2>1, <2>4, <2>5 DEF Settled
    <2> QED  BY <2>3, <2>6
  <1> QED  BY <1>1, OrderedAlways, PTL

(* Under the same condition an endpoint never has two active calls for one RPC and channel. *)
THEOREM RpcsAreUnique ==
  ASSUME QuietClose
  PROVE  Spec => []OneCallPerRpc
  <1>1. Ordered => OneCallPerRpc
    <2> SUFFICES ASSUME Ordered, NEW e \in Ends PROVE Unique(call, e)
      BY DEF OneCallPerRpc, Unique
    <2> QED  BY DEF Ordered, Quiet, Settled, Paused
  <1> QED  BY <1>1, OrderedAlways, PTL
=============================================================================
