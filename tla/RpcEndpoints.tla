---------------------------- MODULE RpcEndpoints ----------------------------
(***************************************************************************)
(* pw_rpc: a client and a server (both an internal::Endpoint with its list *)
(* of calls and its channels), the call objects the application holds, and *)
(* the packets between the two.                                            *)
(*                                                                         *)
(* Everything an operation does while it holds rpc_lock() is one step.     *)
(* Where the code gives the lock up in the middle (to run a callback, then *)
(* to go on) the rest of the operation is a task; between the two any      *)
(* other step may happen, whether another thread takes it or the callback  *)
(* itself does.                                                            *)
(***************************************************************************)
EXTENDS Integers, Sequences, FiniteSets, SequencesExt

CONSTANTS
  ClientCalls,    \* call objects of the client's application
  Responder,      \* the call object an invoker creates on the server's stack
  ServerCalls,    \* call objects in which the server's application keeps calls
  Rpcs,           \* the RPCs (service and method id) a client may ask for
  Methods,        \* those of them the server has registered
  ClientStreams,  \* the RPCs whose method type has a client stream
  ServerStreams,  \* the RPCs whose method type has a server stream
  Channels,       \* the channel ids
  MaxCallId,      \* kMaxCallId of NewCallId, 2^14 in the code
  MaxStarted,     \* bound: calls the client starts
  MaxInFlight,    \* bound: packets on the way in one direction
  MaxTasks,       \* bound: operations under way, that is threads
  MaxLosses,      \* bound: packets the transport loses
  QuietClose      \* the application leaves an endpoint alone while it closes a channel

Ends == {"client", "server"}
Own(e) == IF e = "client" THEN ClientCalls ELSE ServerCalls \cup {Responder}
AllCalls == Own("client") \cup Own("server")
Head_ == "before_begin"
Unassigned == "unassigned"
NoCallback == "no callback"

ASSUME RpcAssumption ==
  /\ MaxCallId \in Nat \ {0} /\ MaxStarted \in Nat /\ MaxInFlight \in Nat
  /\ MaxTasks \in Nat /\ MaxLosses \in Nat /\ QuietClose \in BOOLEAN
  /\ Own("client") \cap Own("server") = {}
  /\ Head_ \notin AllCalls /\ NoCallback \notin AllCalls /\ Unassigned \notin Channels
  /\ Methods \subseteq Rpcs /\ ClientStreams \subseteq Rpcs /\ ServerStreams \subseteq Rpcs

VARIABLES
  call,      \* call[c]: the members of call object c; gen is which call of the client it is
  list,      \* list[e]: the endpoint's calls_, first element first
  open,      \* open[e]: the channels the endpoint has
  started,   \* next_call_id_: calls started so far
  net,       \* net[e]: the packets on their way to e
  tasks,     \* operations that have given the lock up and will go on
  held,      \* held[c]: which call the callbacks in object c are of, 0 if they are not set
  ended,     \* ended[g]: on_completed and on_error callbacks call g of the client has had (ghost)
  lost       \* packets lost so far

vars == <<call, list, open, started, net, tasks, held, ended, lost>>

Closed == [active |-> FALSE, chan |-> Unassigned, rpc |-> "none", id |-> 0,
           gen |-> 0, stream |-> FALSE]

\* The ends of a call are not counted once its callbacks have come into an object from
\* which an earlier call's callback was still to be invoked.
Shared == -1

Init ==
  /\ call = [c \in AllCalls |-> Closed]
  /\ list = [e \in Ends |-> <<>>]
  /\ open = [e \in Ends |-> Channels]
  /\ started = 0
  /\ net = [e \in Ends |-> <<>>]
  /\ tasks = {}
  /\ held = [c \in ClientCalls |-> 0]
  /\ ended = [g \in 1..MaxStarted |-> 0]
  /\ lost = 0

(***************************************************************************)
(* Parts of operations: on the members of the calls, the list, the wire.   *)
(***************************************************************************)
\* The callbacks stay in the object; nothing reads the other members again.
MarkClosed(c) == [call EXCEPT ![c] = Closed]

Without(s, c) == RemoveFirst(s, c)

\* The first call of the list with these ids; a set of at most one element.
FindCallById(e, ch, r) ==
  LET match == {i \in 1..Len(list[e]) :
                  call[list[e][i]].chan = ch /\ call[list[e][i]].rpc = r}
  IN  {list[e][i] : i \in {j \in match : \A k \in match : j <= k}}

\* k is the record of a call.
MakePacket(k, type) ==
  [type |-> type, chan |-> k.chan, rpc |-> k.rpc, id |-> k.id, gen |-> k.gen]

Reply(p, type) == [p EXCEPT !.type = type]

Peer(e) == IF e = "client" THEN "server" ELSE "client"

\* What the transport holds once endpoint e has sent p: a full transport drops it. The
\* application only sends while there is Room, which leaves one place for answers.
Sent(n, e, p) ==
  IF Len(n[Peer(e)]) <= MaxInFlight THEN [n EXCEPT ![Peer(e)] = Append(@, p)] ELSE n

Room(e) == Len(net[Peer(e)]) < MaxInFlight

\* SendPacket and Channel::Send, and what can come of them: the packet is on the wire,
\* or the call is closed, its channel gone or the output refuses the packet.
Outcomes(e, k, type) ==
  LET refused == [ok |-> FALSE, net |-> net, lost |-> lost]
  IN  IF k.active /\ k.chan \in open[e]
      THEN {[ok |-> TRUE, net |-> Sent(net, e, MakePacket(k, type)), lost |-> lost]}
             \cup {[refused EXCEPT !.lost = lost + 1] : x \in 1..(IF lost < MaxLosses THEN 1 ELSE 0)}
      ELSE {refused}

\* The object whose on_error_ or on_completed_ will be invoked without the lock, if that is
\* set in a call of the client. (What on_next and a server's callbacks do are other steps.)
Callback(c) == IF c \in ClientCalls /\ held[c] # 0 THEN c ELSE NoCallback

\* The rest of an operation of e: its call object c, what CloseChannel goes on with, the
\* callback it has to invoke first, and which call an unfinished Start is for.
Task(at, e, c, ch, prev, cb, gen) ==
  [at |-> at, e |-> e, c |-> c, ch |-> ch, prev |-> prev, cb |-> cb, gen |-> gen]

\* The operation is over but for the callback.
Return(e, cb) == IF cb = NoCallback THEN {} ELSE {Task("return", e, Head_, Unassigned, Head_, cb, 0)}

\* The member is read again when it is invoked, without the lock (TODO pwbug/597): by then
\* it may be another call's, or moved away (a crash, or nothing).
Invoked(cb) ==
  [g \in DOMAIN ended |-> IF g = held[cb] /\ ended[g] # Shared THEN ended[g] + 1 ELSE ended[g]]

\* A callback of object c is still to be invoked.
Pending(c) == \E t \in tasks : t.cb = c

\* The callbacks of call h are put into object c.
Given(c, h) == IF h # 0 /\ Pending(c) THEN [ended EXCEPT ![h] = Shared] ELSE ended

CanSplit == Cardinality(tasks) < MaxTasks
Closing(e) == \E t \in tasks : t.at = "close" /\ t.e = e
\* The application may call the endpoint's functions.
MayUse(e) == QuietClose => ~Closing(e)
\* No operation under way will use object c again.
Free(c) == \A t \in tasks : t.at \in {"start", "close"} => t.c # c

\* Mutant of HandleError: the call stays registered and active.
HandleErrorKeepsCall(e, c) ==
  /\ UNCHANGED <<call, list>>
  /\ tasks' = tasks \cup Return(e, Callback(c))

\* HandleError and HandleCompleted: UnregisterAndMarkClosed, then the callback without the lock.
HandleError(e, c) ==
  /\ call' = IF call[c].active THEN MarkClosed(c) ELSE call
  /\ list' = IF call[c].active THEN [list EXCEPT ![e] = Without(@, c)] ELSE list
  /\ tasks' = tasks \cup Return(e, Callback(c))

(***************************************************************************)
(* The client's application.                                               *)
(***************************************************************************)
NewCall(r, ch, id, gen) ==
  [active |-> TRUE, chan |-> ch, rpc |-> r, id |-> id, gen |-> gen,
   stream |-> r \in ClientStreams]

\* Mutant of RegisterCall: an ongoing call of the same RPC is left alone.
RegisterCallBeside(e, c, new, at) ==
  /\ call' = [call EXCEPT ![c] = new]
  /\ list' = [list EXCEPT ![e] = <<c>> \o @]
  /\ tasks' = tasks \cup {Task(at, e, c, Unassigned, Head_, NoCallback, new.gen)}

\* The constructor of a call: it goes to the front of the list and a call for the same
\* RPC is closed; the lock is then given up for that call's on_error.
RegisterCall(e, c, new, at) ==
  LET old == FindCallById(e, new.chan, new.rpc)
      o   == CHOOSE o \in old : TRUE
      cb  == IF old = {} THEN NoCallback ELSE Callback(o)
  IN  /\ call' = [x \in AllCalls |-> IF x = c THEN new
                                     ELSE IF x \in old THEN Closed ELSE call[x]]
      /\ list' = [list EXCEPT ![e] = <<c>> \o (IF old = {} THEN @ ELSE Without(@, o))]
      /\ tasks' = tasks \cup {Task(at, e, c, Unassigned, Head_, cb, new.gen)}

NewCallId == (started + 1) % MaxCallId

\* The callbacks of call g are set in object c, whose record is k, and
\* SendInitialClientRequest: when the request cannot be sent the call is closed and
\* on_error called. l is the client's list and ts the other tasks.
SendInitialClientRequest(c, k, g, l, ts) ==
  /\ held' = [held EXCEPT ![c] = g] /\ ended' = Given(c, g)
  /\ \E o \in Outcomes("client", k, "REQUEST") :
       /\ net' = o.net /\ lost' = o.lost
       /\ call' = [call EXCEPT ![c] = IF o.ok THEN k ELSE Closed]
       /\ list' = [list EXCEPT !["client"] = IF o.ok \/ ~k.active THEN l ELSE Without(l, c)]
       /\ tasks' = IF o.ok THEN ts ELSE ts \cup Return("client", c)

\* (Unary|Stream)ResponseClientCall::Start. The lock is only given up in the middle, by
\* the constructor, when the same RPC is already under way.
Start(c, r, ch) ==
  /\ MayUse("client") /\ CanSplit /\ started < MaxStarted
  /\ ~call[c].active /\ Free(c) /\ Room("client")
  /\ LET k == NewCall(r, ch, NewCallId, started + 1)
     IN  IF FindCallById("client", ch, r) = {}
         THEN SendInitialClientRequest(c, k, started + 1, <<c>> \o list["client"], tasks)
         ELSE /\ RegisterCall("client", c, k, "start")
              /\ held' = [held EXCEPT ![c] = 0]
              /\ UNCHANGED <<net, ended, lost>>
  /\ started' = started + 1
  /\ UNCHANGED open

\* The rest of Start once the replaced call's on_error has returned.
FinishStart(t) ==
  /\ t \in tasks /\ t.at = "start" /\ t.cb = NoCallback
  /\ SendInitialClientRequest(t.c, call[t.c], t.gen, list["client"], tasks \ {t})
  /\ UNCHANGED <<open, started>>

\* Call::Write: it asks whether the call is active, not whether the stream is open.
Write(e, c) ==
  /\ MayUse(e) /\ Free(c) /\ call[c].active /\ Room(e)
  /\ IF e = "client" THEN call[c].rpc \in ClientStreams ELSE call[c].rpc \in ServerStreams
  /\ \E o \in Outcomes(e, call[c], IF e = "client" THEN "CLIENT_STREAM" ELSE "SERVER_STREAM") :
       net' = o.net /\ lost' = o.lost
  /\ UNCHANGED <<call, list, open, started, tasks, held, ended>>

CloseClientStream(c) ==
  /\ MayUse("client") /\ Free(c) /\ call[c].active /\ call[c].rpc \in ClientStreams /\ Room("client")
  /\ \E o \in Outcomes("client", call[c], "CLIENT_STREAM_END") : net' = o.net /\ lost' = o.lost
  /\ call' = [call EXCEPT ![c].stream = FALSE]
  /\ UNCHANGED <<list, open, started, tasks, held, ended>>

\* CloseAndSendFinalPacketLocked: the call is closed whether or not the packet was sent.
\* Cancel of a client call; Finish and the destructor of a server call.
CloseAndSendFinalPacket(e, c) ==
  /\ MayUse(e) /\ Free(c) /\ call[c].active /\ Room(e)
  /\ \E o \in Outcomes(e, call[c], IF e = "client" THEN "CLIENT_ERROR" ELSE "RESPONSE") : net' = o.net /\ lost' = o.lost
  /\ call' = MarkClosed(c)
  /\ list' = [list EXCEPT ![e] = Without(@, c)]
  /\ UNCHANGED <<open, started, tasks, held, ended>>

\* What closing a call object by its destructor or by a move into it sends.
LastPacket(e, c) == IF e = "client" THEN "CLIENT_STREAM_END" ELSE "RESPONSE"
SendsLast(e, c) == IF e = "client" THEN call[c].stream ELSE call[c].active
CloseOutcomes(e, c) ==
  IF SendsLast(e, c) THEN Outcomes(e, call[c], LastPacket(e, c)) ELSE {[ok |-> TRUE, net |-> net, lost |-> lost]}

\* ~ClientCall: the server only hears of it when the client stream was open.
DestroyClientCall(c) ==
  /\ MayUse("client") /\ Free(c) /\ call[c].active
  /\ \E o \in CloseOutcomes("client", c) : net' = o.net /\ lost' = o.lost
  /\ call' = MarkClosed(c)
  /\ list' = [list EXCEPT !["client"] = Without(@, c)]
  /\ UNCHANGED <<open, started, tasks, held, ended>>

\* Mutant of MoveFrom: src is not unregistered.
MoveFromKeepsSource(e, dst, src) ==
  /\ dst # src
  /\ \E o \in CloseOutcomes(e, dst) : net' = o.net /\ lost' = o.lost
  /\ call[src].active
  /\ call' = [call EXCEPT ![dst] = call[src], ![src] = Closed]
  /\ list' = [list EXCEPT ![e] = <<dst>> \o Without(@, dst)]

\* Move assignment: the call dst holds is closed, then dst takes src's call over.
MoveFrom(e, dst, src) ==
  /\ dst # src
  /\ \E o \in CloseOutcomes(e, dst) : net' = o.net /\ lost' = o.lost
  /\ IF call[src].active
     THEN /\ call' = [call EXCEPT ![dst] = call[src], ![src] = Closed]
          /\ list' = [list EXCEPT ![e] = <<dst>> \o Without(Without(@, dst), src)]
     ELSE /\ call' = IF call[dst].active THEN MarkClosed(dst) ELSE call
          /\ list' = [list EXCEPT ![e] = Without(@, dst)]

\* The callbacks go with an active call. Of a closed one on_completed_ is moved too; it
\* only matters where a callback of dst is pending.
Move(dst, src) ==
  /\ MayUse("client") /\ Free(dst) /\ Free(src)
  /\ call[dst].active \/ call[src].active \/ Pending(dst)
  /\ MoveFrom("client", dst, src)
  /\ held' = IF call[src].active THEN [held EXCEPT ![dst] = held[src], ![src] = 0] ELSE held
  /\ ended' = Given(dst, held[src])
  /\ UNCHANGED <<open, started, tasks>>

(***************************************************************************)
(* Channels.                                                               *)
(***************************************************************************)
OpenChannel(e, ch) ==
  /\ MayUse(e) /\ ch \notin open[e]
  /\ open' = [open EXCEPT ![e] = @ \cup {ch}]
  /\ UNCHANGED <<call, list, started, net, tasks, held, ended, lost>>

\* Where c is in the list; 0 is the head, and where what is not in the list is.
Position(l, c) == SelectInSeq(l, LAMBDA x : x = c)

\* What follows c, or the head, in the list.
Follows(l, c) ==
  IF Position(l, c) < Len(l) THEN l[Position(l, c) + 1] ELSE Head_

\* The loop of CloseChannel, from the element after prev to the next call of the
\* channel: it is marked closed, and its on_error called without the lock.
CloseFrom(e, ch, l, prev, ts) ==
  LET hits == {j \in 1..Len(l) : j > Position(l, prev) /\ call[l[j]].chan = ch}
      hit  == CHOOSE j \in hits : \A k \in hits : j <= k
  IN  /\ list' = [list EXCEPT ![e] = l]
      /\ IF hits = {}
         THEN call' = call /\ tasks' = ts
         ELSE /\ call' = MarkClosed(l[hit])
              /\ tasks' = ts \cup {Task("close", e, l[hit], ch, IF hit = 1 THEN Head_ ELSE l[hit - 1],
                                        Callback(l[hit]), 0)}

CloseChannel(e, ch) ==
  /\ MayUse(e) /\ CanSplit /\ ch \in open[e]
  /\ (QuietClose => \A t \in tasks : t.e # e)
  /\ open' = [open EXCEPT ![e] = @ \ {ch}]
  /\ CloseFrom(e, ch, list[e], Head_, tasks)
  /\ UNCHANGED <<started, net, held, ended, lost>>

\* The callback is over: erase_after(previous), whatever follows `previous` by now. If
\* `previous` has left the list meanwhile it follows itself and nothing is erased; the
\* loop goes on from the head's point of view (an outcome of undefined behaviour).
ContinueClose(t) ==
  /\ t \in tasks /\ t.at = "close" /\ t.cb = NoCallback
  /\ LET l == list[t.e]
         listed == t.prev = Head_ \/ Position(l, t.prev) > 0
         prev == IF listed THEN t.prev ELSE Head_
         l2 == IF listed /\ Follows(l, prev) # Head_ THEN Without(l, Follows(l, prev)) ELSE l
     IN  CloseFrom(t.e, t.ch, l2, prev, tasks \ {t})
  /\ UNCHANGED <<open, started, net, held, ended, lost>>

\* A callback is invoked; the operation it is the end of is over.
RunCallback(t) ==
  /\ t \in tasks /\ t.cb # NoCallback
  /\ ended' = Invoked(t.cb)
  /\ tasks' = (tasks \ {t}) \cup (IF t.at = "return" THEN {}
                                  ELSE {Task(t.at, t.e, t.c, t.ch, t.prev, NoCallback, t.gen)})
  /\ UNCHANGED <<call, list, open, started, net, held, lost>>

(***************************************************************************)
(* Client::ProcessPacket.                                                  *)
(***************************************************************************)
Arrives(e, p) == net[e] # <<>> /\ p = Head(net[e]) /\ MayUse(e) /\ CanSplit
Taken(e) == [net EXCEPT ![e] = Tail(@)]

\* Mutant of CallOf: the call id is not compared.
CallOfAnyId(e, p) == FindCallById(e, p.chan, p.rpc)

\* The call a packet is for: same ids, same call id.
CallOf(e, p) == {c \in FindCallById(e, p.chan, p.rpc) : call[c].id = p.id}

\* Mutant of ClientNoCall: the server is not told.
ClientNoCallSilent(p) ==
  /\ Arrives("client", p)
  /\ p.chan \notin open["client"] \/ CallOf("client", p) = {}
  /\ net' = Taken("client")
  /\ UNCHANGED <<call, list, open, started, tasks, held, ended, lost>>

\* The call is not there: a stream message is answered, so that the server can kill the
\* stream; anything else, and any packet for an unknown channel, is dropped.
ClientNoCall(p) ==
  /\ Arrives("client", p)
  /\ p.chan \notin open["client"] \/ CallOf("client", p) = {}
  /\ net' = IF p.chan \in open["client"] /\ p.type = "SERVER_STREAM"
            THEN Sent(Taken("client"), "client", Reply(p, "CLIENT_ERROR")) ELSE Taken("client")
  /\ UNCHANGED <<call, list, open, started, tasks, held, ended, lost>>

\* RESPONSE and SERVER_ERROR end the call: unregistered, closed, then the callback.
ClientEnds(p) ==
  /\ Arrives("client", p) /\ p.chan \in open["client"]
  /\ p.type \in {"RESPONSE", "SERVER_ERROR"}
  /\ \E c \in CallOf("client", p) : HandleError("client", c)
  /\ net' = Taken("client")
  /\ UNCHANGED <<open, started, held, ended, lost>>

\* SERVER_STREAM: on_next, or an error for an RPC that has no server stream.
ClientStream(p) ==
  /\ Arrives("client", p) /\ p.chan \in open["client"] /\ p.type = "SERVER_STREAM"
  /\ \E c \in CallOf("client", p) :
       IF p.rpc \in ServerStreams
       THEN net' = Taken("client") /\ UNCHANGED <<call, list, tasks>>
       ELSE /\ HandleError("client", c)
            /\ net' = Sent(Taken("client"), "client", Reply(p, "CLIENT_ERROR"))
  /\ UNCHANGED <<open, started, held, ended, lost>>

(***************************************************************************)
(* Server::ProcessPacket and the server's application.                     *)
(***************************************************************************)
\* No such channel (answered on the interface the packet came from) or no such method.
ServerUnknown(p) ==
  /\ Arrives("server", p)
  /\ p.chan \notin open["server"] \/ p.rpc \notin Methods
  /\ net' = IF p.type # "CLIENT_ERROR"
            THEN Sent(Taken("server"), "server", Reply(p, "SERVER_ERROR")) ELSE Taken("server")
  /\ UNCHANGED <<call, list, open, started, tasks, held, ended, lost>>

ServerHas(p) == Arrives("server", p) /\ p.chan \in open["server"] /\ p.rpc \in Methods

\* REQUEST: the invoker constructs the responder, which cancels an ongoing call of the
\* RPC, gives up the lock and calls the method.
Invoke(p) ==
  /\ ServerHas(p) /\ p.type = "REQUEST"
  /\ \A t \in tasks : t.at # "handler"
  /\ RegisterCall("server", Responder, NewCall(p.rpc, p.chan, p.id, p.gen), "handler")
  /\ net' = Taken("server")
  /\ UNCHANGED <<open, started, held, ended, lost>>

\* The method moves the responder into an object of its own, with its callbacks.
HandlerKeepsCall(t, c) ==
  /\ t \in tasks /\ t.at = "handler" /\ t.cb = NoCallback /\ call[Responder].active /\ MayUse("server")
  /\ MoveFrom("server", c, Responder)
  /\ UNCHANGED <<open, started, tasks, held, ended>>

\* It returns: the responder's destructor closes a call that is still in it.
HandlerReturns(t) ==
  /\ t \in tasks /\ t.at = "handler" /\ t.cb = NoCallback /\ MayUse("server")
  /\ \E o \in CloseOutcomes("server", Responder) : net' = o.net /\ lost' = o.lost
  /\ call' = IF call[Responder].active THEN MarkClosed(Responder) ELSE call
  /\ list' = [list EXCEPT !["server"] = Without(@, Responder)]
  /\ tasks' = tasks \ {t}
  /\ UNCHANGED <<open, started, held, ended>>

\* HandleClientStreamPacket: not for a call that is pending and has an open client stream.
ServerRefusesStream(p) ==
  /\ ServerHas(p) /\ p.type \in {"CLIENT_STREAM", "CLIENT_STREAM_END"}
  /\ \A c \in CallOf("server", p) : ~call[c].stream
  /\ net' = Sent(Taken("server"), "server", Reply(p, "SERVER_ERROR"))
  /\ UNCHANGED <<call, list, open, started, tasks, held, ended, lost>>

ServerStream(p) ==
  /\ ServerHas(p) /\ p.type \in {"CLIENT_STREAM", "CLIENT_STREAM_END"}
  /\ \E c \in CallOf("server", p) :
       /\ call[c].stream
       /\ call' = [call EXCEPT ![c].stream = p.type = "CLIENT_STREAM"]
  /\ net' = Taken("server")
  /\ UNCHANGED <<list, open, started, tasks, held, ended, lost>>

\* CLIENT_ERROR for the call closes it, without an answer; for any other it is dropped.
ServerError(p) ==
  /\ ServerHas(p) /\ p.type = "CLIENT_ERROR"
  /\ IF CallOf("server", p) = {} THEN UNCHANGED <<call, list, tasks>>
     ELSE \E c \in CallOf("server", p) : HandleError("server", c)
  /\ net' = Taken("server")
  /\ UNCHANGED <<open, started, held, ended, lost>>

\* The transport loses a packet.
Lose(e) ==
  /\ net[e] # <<>> /\ lost < MaxLosses
  /\ net' = Taken(e)
  /\ lost' = lost + 1
  /\ UNCHANGED <<call, list, open, started, tasks, held, ended>>

ClientReceives == net["client"] # <<>> /\ LET p == Head(net["client"]) IN
                    ClientNoCall(p) \/ ClientEnds(p) \/ ClientStream(p)
ServerReceives == net["server"] # <<>> /\ LET p == Head(net["server"]) IN
                    \/ ServerUnknown(p) \/ Invoke(p) \/ ServerRefusesStream(p)
                    \/ ServerStream(p) \/ ServerError(p)
Resume(t) == FinishStart(t) \/ ContinueClose(t) \/ RunCallback(t) \/ HandlerReturns(t)

Next ==
  \/ \E c \in ClientCalls, r \in Rpcs, ch \in Channels : Start(c, r, ch)
  \/ \E e \in Ends : \E c \in Own(e) : Write(e, c) \/ CloseAndSendFinalPacket(e, c)
  \/ \E c \in ClientCalls : CloseClientStream(c) \/ DestroyClientCall(c)
  \/ \E c, d \in ClientCalls : Move(c, d)
  \/ \E e \in Ends, ch \in Channels : OpenChannel(e, ch) \/ CloseChannel(e, ch)
  \/ ClientReceives \/ ServerReceives
  \/ \E t \in tasks : Resume(t) \/ \E c \in ServerCalls : HandlerKeepsCall(t, c)
  \/ \E e \in Ends : Lose(e)

Spec == Init /\ [][Next]_vars

\* The threads that process packets and those in the middle of an operation go on; the
\* bound on tasks is the model's, hence strong fairness. A server that streams keeps
\* writing.
Fairness ==
  /\ SF_vars(ClientReceives) /\ SF_vars(ServerReceives)
  /\ WF_vars(\E t \in tasks : FinishStart(t))
  /\ WF_vars(\E t \in tasks : RunCallback(t))
  /\ WF_vars(\E t \in tasks : ContinueClose(t))
  /\ WF_vars(\E t \in tasks : HandlerReturns(t))
  /\ \A s \in ServerCalls : WF_vars(Write("server", s))

FairSpec == Spec /\ Fairness

(***************************************************************************)
(* Properties.                                                             *)
(***************************************************************************)
\* While no channel is being closed an endpoint's list holds exactly its active calls,
\* each once (endpoint.h: calls "add themselves to the Endpoint's list when they're
\* started and remove themselves when they complete").
CallsListedIffActive ==
  \A e \in Ends : Closing(e) \/
    /\ \A i, j \in 1..Len(list[e]) : list[e][i] = list[e][j] => i = j
    /\ {list[e][i] : i \in 1..Len(list[e])} = {c \in Own(e) : call[c].active}

\* Registering, moving and replacing calls never leaves two calls for one RPC on one
\* channel, of which packets would reach only the first.
OneCallPerRpc ==
  \A e \in Ends : \A c, d \in Own(e) :
    call[c].active /\ call[d].active /\ call[c].chan = call[d].chan /\ call[c].rpc = call[d].rpc
      => c = d

\* A call of the client is ended at most once, by on_completed or by on_error, however
\* responses, errors, replacement and closing of the channel cross and call objects are
\* moved. The exception is the one the code marks with pwbug/597: an object that is given
\* another call between the unlock and the invocation may run that call's callback.
EndsOnce == \A g \in 1..MaxStarted : ended[g] \in {0, 1, Shared}

\* The call ProcessPacket gives a packet to is the call the packet was sent for, not a
\* later call of the same RPC that was started while the packet was on its way.
PacketsReachTheirCall ==
  \A e \in Ends : net[e] # <<>> =>
    LET p == Head(net[e])
    IN  p.type # "REQUEST" => \A c \in CallOf(e, p) : call[c].gen = p.gen

\* A server stream whose client call is gone is ended at the latest when the client has
\* answered one of its messages (client.cc: "notify the server so that it can kill the
\* stream"), unless a channel is closed: no object of the server holds abandoned calls
\* for ever.
StreamIsKilled ==
  \A s \in ServerCalls :
    LET abandoned == /\ call[s].active /\ call[s].rpc \in ServerStreams
                     /\ \A c \in ClientCalls : ~(call[c].active /\ call[c].gen = call[s].gen)
    IN  []<>(~abandoned \/ \E e \in Ends : open[e] # Channels)
=============================================================================
