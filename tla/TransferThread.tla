--------------------------- MODULE TransferThread ---------------------------
(***************************************************************************)
(* pw_transfer's TransferThread: application, RPC and administration       *)
(* threads (the producers) hand events to the one transfer thread through  *)
(* a single next_event_ slot.  A producer owns the slot from acquiring     *)
(* next_event_ownership_ until it notifies the thread, the thread from     *)
(* then until it has handled the event.                                    *)
(*                                                                         *)
(* What a context does with an event is TransferSession's subject.  Here a *)
(* context is inactive, completed or active, and an event or a timeout may *)
(* or may not finish an active one.  Sessions and resources are the same   *)
(* thing in this version of the protocol, and there is one handler for     *)
(* each resource, so a handler goes by its resource's name.                *)
(***************************************************************************)
EXTENDS Integers, FiniteSets, FiniteSetsExt

CONSTANTS
    Producers,          \* threads that call into the TransferThread
    Sessions,           \* session and resource ids
    MaxClientContexts,  \* kMaxConcurrentClientTransfers
    MaxServerContexts,  \* kMaxConcurrentServerTransfers
    MaxStarts,          \* bound: client transfers started
    MaxCalls            \* bound: calls of the producers, all together

NoSession == "no session"
NoHandler == "no handler"   \* nullptr

ASSUME ThreadAssumption ==
    /\ MaxClientContexts \in Nat /\ MaxServerContexts \in Nat
    /\ MaxStarts \in Nat /\ MaxCalls \in Nat
    /\ NoSession \notin Sessions /\ NoHandler \notin Sessions

VARIABLES
    ownership,      \* next_event_ownership_, a BinarySemaphore
    notification,   \* event_notification_
    event,          \* next_event_
    staged,         \* staged_on_completion_
    stage,          \* producer -> where it is in its call
    call,           \* producer -> the call it is in
    tpc,            \* where the transfer thread is in Run()
    clients,        \* client_transfers_
    servers,        \* server_transfers_
    handlers,       \* handlers_: the registered handlers
    destroyed,      \* handlers that RemoveTransferHandler has returned for
    starts,         \* client transfers started; each has its own callback
    invoked,        \* callback -> how often it was invoked
    calls           \* calls made so far

slotVars == <<ownership, notification, event, staged>>
producerVars == <<stage, call, destroyed, starts, calls>>
contextVars == <<clients, servers, handlers, invoked>>
vars == <<slotVars, producerVars, tpc, contextVars>>

-----------------------------------------------------------------------------

NoCall == [op |-> "none", id |-> NoSession, callback |-> 0]

Ops == {"StartClientTransfer", "EndClientTransfer", "ProcessClientChunk",
        "HandleInitialChunk", "ProcessServerChunk", "EndServerTransfer",
        "AddTransferHandler", "RemoveTransferHandler"}

EventTypes == {"none", "kNewClientTransfer", "kNewServerTransfer", "kClientChunk",
               "kServerChunk", "kClientEndTransfer", "kSendStatusChunk",
               "kAddTransferHandler", "kRemoveTransferHandler"}

ClientIds == 1..MaxClientContexts
ServerIds == 1..MaxServerContexts
Callbacks == 1..MaxStarts

ContextStates == {"inactive", "completed", "active"}
ClientContext == [state : ContextStates, session : Sessions \cup {NoSession},
                  callback : 0..MaxStarts]
ServerContext == [state : ContextStates, session : Sessions \cup {NoSession},
                  handler : Sessions \cup {NoHandler}]

IsActive(c) == c.state = "active"

\* Mutant of FindNewTransfer: an active transfer of the session is overlooked.
FindFreeTransfer(contexts, session) ==
    LET free == {i \in DOMAIN contexts : ~IsActive(contexts[i])}
    IN  IF free # {} THEN Max(free) ELSE 0

\* FindNewTransfer: restart the active transfer of that session, or else take
\* the last context that is not active.  0 is nullptr.
FindNewTransfer(contexts, session) ==
    LET same == {i \in DOMAIN contexts : IsActive(contexts[i]) /\ contexts[i].session = session}
        free == {i \in DOMAIN contexts : ~IsActive(contexts[i])}
    IN  IF same # {} THEN Min(same) ELSE IF free # {} THEN Max(free) ELSE 0

\* FindActiveTransfer: the first context that was ever used for that session.
FindActiveTransfer(contexts, session) ==
    LET used == {i \in DOMAIN contexts :
                    contexts[i].state # "inactive" /\ contexts[i].session = session}
    IN  IF used # {} THEN Min(used) ELSE 0

-----------------------------------------------------------------------------
(* The producers                                                           *)

\* A producer enters a call.  Handlers are unique objects: one that is being
\* removed or has been is not used again.
Call(p, op, id) ==
    /\ stage[p] = "idle"
    /\ calls < MaxCalls
    /\ op = "StartClientTransfer" => starts < MaxStarts
    /\ op = "AddTransferHandler" =>
        /\ id \notin handlers \cup destroyed
        /\ \A q \in Producers :
            ~(call[q].id = id /\ call[q].op \in {"AddTransferHandler", "RemoveTransferHandler"})
        /\ ~(event.id = id /\ event.type = "kAddTransferHandler")
    /\ op = "RemoveTransferHandler" =>
        /\ id \in handlers
        /\ \A q \in Producers : ~(call[q].id = id /\ call[q].op = "RemoveTransferHandler")
    /\ stage' = [stage EXCEPT ![p] = "acquire"]
    /\ starts' = IF op = "StartClientTransfer" THEN starts + 1 ELSE starts
    /\ call' = [call EXCEPT ![p] =
          [op |-> op, id |-> id,
           callback |-> IF op = "StartClientTransfer" THEN starts + 1 ELSE 0]]
    /\ calls' = calls + 1
    /\ UNCHANGED <<slotVars, destroyed, tpc, contextVars>>

\* next_event_ownership_.acquire()
Acquire(p) ==
    /\ stage[p] = "acquire"
    /\ ownership = 1
    /\ ownership' = ownership - 1
    /\ stage' = [stage EXCEPT ![p] = "post"]
    /\ UNCHANGED <<notification, event, staged, call, destroyed, starts, calls,
                   tpc, contextVars>>

\* Fills next_event_ and notifies the transfer thread.
PostEvent(p, type, nextStage, nextCall) ==
    /\ stage[p] = "post"
    /\ event' = [type |-> type, id |-> call[p].id]
    /\ notification' = 1
    /\ stage' = [stage EXCEPT ![p] = nextStage]
    /\ call' = [call EXCEPT ![p] = nextCall]
    /\ UNCHANGED <<ownership, destroyed, starts, calls, tpc, contextVars>>

\* StartTransfer with a stream.  staged_on_completion_ is set in the same breath.
PostNewClient(p) ==
    /\ call[p].op = "StartClientTransfer"
    /\ PostEvent(p, "kNewClientTransfer", "idle", NoCall)
    /\ staged' = call[p].callback

\* TransferService::HandleChunk: StartServerTransfer, which looks the handler
\* up in the calling thread, and then ProcessServerChunk.
PostNewServer(p) ==
    /\ call[p].op = "HandleInitialChunk"
    /\ PostEvent(p,
                 IF call[p].id \in handlers THEN "kNewServerTransfer" ELSE "kSendStatusChunk",
                 "acquire", [call[p] EXCEPT !.op = "ProcessServerChunk"])
    /\ staged' = 0

PostSimple(p) ==
    /\ \/ /\ call[p].op = "ProcessClientChunk"
          /\ PostEvent(p, "kClientChunk", "idle", NoCall)
       \/ /\ call[p].op = "ProcessServerChunk"
          /\ PostEvent(p, "kServerChunk", "idle", NoCall)
       \* EndServerTransfer posts the client's event type.
       \/ /\ call[p].op \in {"EndClientTransfer", "EndServerTransfer"}
          /\ PostEvent(p, "kClientEndTransfer", "idle", NoCall)
       \/ /\ call[p].op = "AddTransferHandler"
          /\ PostEvent(p, "kAddTransferHandler", "idle", NoCall)
       \/ /\ call[p].op = "RemoveTransferHandler"
          /\ PostEvent(p, "kRemoveTransferHandler", "wait", call[p])
    /\ UNCHANGED staged

\* Mutant of WaitAcquire: the wait does not take the semaphore.
WaitAcquirePeeks(p) ==
    /\ stage[p] = "wait"
    /\ ownership = 1
    /\ stage' = [stage EXCEPT ![p] = "return"]
    /\ UNCHANGED <<slotVars, call, destroyed, starts, calls, tpc, contextVars>>

\* Mutant of WaitAcquire: the wait is skipped.
WaitSkipped(p) ==
    /\ stage[p] = "wait"
    /\ stage' = [stage EXCEPT ![p] = "idle"]
    /\ destroyed' = destroyed \cup {call[p].id}
    /\ call' = [call EXCEPT ![p] = NoCall]
    /\ UNCHANGED <<slotVars, starts, calls, tpc, contextVars>>

\* WaitUntilEventIsProcessed: acquire and release.  When RemoveTransferHandler
\* returns, its caller may destroy the handler.
WaitAcquire(p) ==
    /\ stage[p] = "wait"
    /\ ownership = 1
    /\ ownership' = ownership - 1
    /\ stage' = [stage EXCEPT ![p] = "return"]
    /\ UNCHANGED <<notification, event, staged, call, destroyed, starts, calls,
                   tpc, contextVars>>

WaitRelease(p) ==
    /\ stage[p] = "return"
    /\ ownership' = ownership + 1
    /\ stage' = [stage EXCEPT ![p] = "idle"]
    /\ destroyed' = destroyed \cup {call[p].id}
    /\ call' = [call EXCEPT ![p] = NoCall]
    /\ UNCHANGED <<notification, event, staged, starts, calls, tpc, contextVars>>

-----------------------------------------------------------------------------
(* The transfer thread                                                     *)

\* Run() begins by making the slot available.
Run ==
    /\ tpc = "start"
    /\ tpc' = "wait"
    /\ ownership' = ownership + 1
    /\ UNCHANGED <<notification, event, staged, producerVars, contextVars>>

\* Mutant of TakeEvent: the slot is released before the event is handled.
TakeEventAndRelease ==
    /\ tpc = "wait"
    /\ notification = 1
    /\ notification' = 0
    /\ ownership' = 1
    /\ tpc' = "handle"
    /\ UNCHANGED <<event, staged, producerVars, contextVars>>

TakeEvent ==
    /\ tpc = "wait"
    /\ notification = 1
    /\ notification' = 0
    /\ tpc' = "handle"
    /\ UNCHANGED <<ownership, event, staged, producerVars, contextVars>>

\* try_acquire_until gave up: only the timeouts are looked at.
WaitTimesOut ==
    /\ tpc = "wait"
    /\ notification = 0
    /\ tpc' = "timeouts"
    /\ UNCHANGED <<slotVars, producerVars, contextVars>>

Handled ==
    /\ tpc = "handle"
    /\ tpc' = "release"
    /\ UNCHANGED <<ownership, notification, event, producerVars>>

Bump(count, callbacks) ==
    [c \in DOMAIN count |-> IF c \in callbacks THEN count[c] + 1 ELSE count[c]]

\* kNewClientTransfer.  The context gets the new callback first; a transfer
\* that is still active is then finished with ABORTED, which runs the callback
\* the context has by now.  Sending the first chunk may fail, too.
HandleNewClient ==
    /\ event.type = "kNewClientTransfer"
    /\ Handled
    /\ UNCHANGED <<servers, handlers>>
    /\ LET i == FindNewTransfer(clients, event.id) IN
       \/ /\ i = 0
          /\ UNCHANGED <<clients, invoked, staged>>
       \/ /\ i # 0
          /\ staged' = 0
          /\ LET once == IF IsActive(clients[i]) THEN Bump(invoked, {staged}) ELSE invoked IN
             \E state \in {"active", "completed"} :
                /\ clients' = [clients EXCEPT
                      ![i] = [state |-> state, session |-> event.id, callback |-> staged]]
                /\ invoked' = IF state = "completed" THEN Bump(once, {staged}) ELSE once

\* A chunk or a cancellation for a client transfer.  A completed context only
\* answers with its status, an unknown session is ignored.
HandleClientEvent ==
    /\ event.type \in {"kClientChunk", "kClientEndTransfer"}
    /\ Handled
    /\ UNCHANGED <<servers, handlers, staged>>
    /\ LET i == FindActiveTransfer(clients, event.id) IN
       IF i # 0 /\ IsActive(clients[i])
       THEN \/ /\ clients' = [clients EXCEPT ![i].state = "completed"]
               /\ invoked' = Bump(invoked, {clients[i].callback})
            \/ /\ event.type = "kClientChunk"
               /\ UNCHANGED <<clients, invoked>>
       ELSE UNCHANGED <<clients, invoked>>

\* kNewServerTransfer.  An active transfer of the session is aborted first;
\* the handler's Prepare may fail.
HandleNewServer ==
    /\ event.type = "kNewServerTransfer"
    /\ Handled
    /\ UNCHANGED <<clients, handlers, invoked, staged>>
    /\ LET i == FindNewTransfer(servers, event.id) IN
       \/ /\ i = 0
          /\ UNCHANGED servers
       \/ /\ i # 0
          /\ \/ servers' = [servers EXCEPT ![i] =
                    [state |-> "active", session |-> event.id, handler |-> event.id]]
             \/ servers' = [servers EXCEPT ![i] =
                    [state |-> "completed", session |-> event.id, handler |-> NoHandler]]

FinishServer(s) == [s EXCEPT !.state = "completed", !.handler = NoHandler]

HandleServerChunk ==
    /\ event.type = "kServerChunk"
    /\ Handled
    /\ UNCHANGED <<clients, handlers, invoked, staged>>
    /\ LET i == FindActiveTransfer(servers, event.id) IN
       \/ UNCHANGED servers
       \/ /\ i # 0 /\ IsActive(servers[i])
          /\ servers' = [servers EXCEPT ![i] = FinishServer(servers[i])]

\* SendStatusChunk writes NOT_FOUND to the stream; no context is involved.
HandleSendStatus ==
    /\ event.type = "kSendStatusChunk"
    /\ Handled
    /\ UNCHANGED <<contextVars, staged>>

HandleAddHandler ==
    /\ event.type = "kAddTransferHandler"
    /\ Handled
    /\ handlers' = handlers \cup {event.id}
    /\ UNCHANGED <<clients, servers, invoked, staged>>

\* Every transfer that uses the handler is ended before the handler leaves
\* the list.
HandleRemoveHandler ==
    /\ event.type = "kRemoveTransferHandler"
    /\ Handled
    /\ servers' = [i \in ServerIds |->
                     IF servers[i].handler = event.id THEN FinishServer(servers[i])
                     ELSE servers[i]]
    /\ handlers' = handlers \ {event.id}
    /\ UNCHANGED <<clients, invoked, staged>>

\* Mutant of ReleaseEvent: the slot is not released.
KeepEvent ==
    /\ tpc = "release"
    /\ tpc' = "timeouts"
    /\ UNCHANGED <<slotVars, producerVars, contextVars>>

\* next_event_ownership_.release() after the event has been handled.
ReleaseEvent ==
    /\ tpc = "release"
    /\ tpc' = "timeouts"
    /\ ownership' = ownership + 1
    /\ UNCHANGED <<notification, event, staged, producerVars, contextVars>>

\* The loop over the contexts that have timed out; some of them give up.
HandleTimeouts ==
    /\ tpc = "timeouts"
    /\ tpc' = "wait"
    /\ \E cs \in SUBSET {i \in ClientIds : IsActive(clients[i])},
          ss \in SUBSET {i \in ServerIds : IsActive(servers[i])} :
        /\ clients' = [i \in ClientIds |->
                         IF i \in cs THEN [clients[i] EXCEPT !.state = "completed"] ELSE clients[i]]
        /\ invoked' = Bump(invoked, {clients[i].callback : i \in cs})
        /\ servers' = [i \in ServerIds |->
                         IF i \in ss THEN FinishServer(servers[i]) ELSE servers[i]]
    /\ UNCHANGED <<slotVars, producerVars, handlers>>

-----------------------------------------------------------------------------

Init ==
    /\ ownership = 0
    /\ notification = 0
    /\ event = [type |-> "none", id |-> NoSession]
    /\ staged = 0
    /\ stage = [p \in Producers |-> "idle"]
    /\ call = [p \in Producers |-> NoCall]
    /\ tpc = "start"
    /\ clients = [i \in ClientIds |->
                    [state |-> "inactive", session |-> NoSession, callback |-> 0]]
    /\ servers = [i \in ServerIds |->
                    [state |-> "inactive", session |-> NoSession, handler |-> NoHandler]]
    /\ handlers = {}
    /\ destroyed = {}
    /\ starts = 0
    /\ invoked = [c \in Callbacks |-> 0]
    /\ calls = 0

Next ==
    \/ \E p \in Producers, op \in Ops, id \in Sessions : Call(p, op, id)
    \/ \E p \in Producers : Acquire(p)
    \/ \E p \in Producers : PostNewClient(p)
    \/ \E p \in Producers : PostNewServer(p)
    \/ \E p \in Producers : PostSimple(p)
    \/ \E p \in Producers : WaitAcquire(p)
    \/ \E p \in Producers : WaitRelease(p)
    \/ Run
    \/ TakeEvent
    \/ WaitTimesOut
    \/ HandleNewClient
    \/ HandleClientEvent
    \/ HandleNewServer
    \/ HandleServerChunk
    \/ HandleSendStatus
    \/ HandleAddHandler
    \/ HandleRemoveHandler
    \/ ReleaseEvent
    \/ HandleTimeouts

Spec == Init /\ [][Next]_vars

HandleEvent ==
    \/ HandleNewClient \/ HandleClientEvent \/ HandleNewServer \/ HandleServerChunk
    \/ HandleSendStatus \/ HandleAddHandler \/ HandleRemoveHandler

\* The transfer thread keeps running, and so does a producer that is not blocked.
Fairness ==
    /\ WF_vars(Run) /\ WF_vars(TakeEvent) /\ WF_vars(HandleEvent)
    /\ WF_vars(ReleaseEvent) /\ WF_vars(HandleTimeouts)
    /\ \A p \in Producers :
        /\ WF_vars(Acquire(p)) /\ WF_vars(WaitAcquire(p)) /\ WF_vars(WaitRelease(p))
        /\ WF_vars(PostNewClient(p) \/ PostNewServer(p) \/ PostSimple(p))

FairSpec == Spec /\ Fairness

-----------------------------------------------------------------------------
(* Properties                                                              *)

\* Type invariant.
TypeOK ==
    /\ ownership \in {0, 1}
    /\ notification \in {0, 1}
    /\ event \in [type : EventTypes, id : Sessions \cup {NoSession}]
    /\ staged \in 0..MaxStarts
    /\ stage \in [Producers -> {"idle", "acquire", "post", "wait", "return"}]
    /\ call \in [Producers -> [op : Ops \cup {"none"}, id : Sessions \cup {NoSession},
                           callback : 0..MaxStarts]]
    /\ tpc \in {"start", "wait", "handle", "release", "timeouts"}
    /\ clients \in [ClientIds -> ClientContext]
    /\ servers \in [ServerIds -> ServerContext]
    /\ handlers \subseteq Sessions
    /\ destroyed \subseteq Sessions
    /\ starts \in 0..MaxStarts
    /\ invoked \in [Callbacks -> Nat]
    /\ calls \in 0..MaxCalls

SlotHolders ==
    {p \in Producers : stage[p] \in {"post", "return"}}
        \cup (IF notification = 1 \/ tpc \in {"start", "handle", "release"}
              THEN {"transfer thread"} ELSE {})

\* next_event_ has one holder at a time, and the semaphore says so: nobody
\* overwrites an event that waits or is being handled, and no release finds
\* the BinarySemaphore already released.
SlotHasOneHolder == Cardinality(SlotHolders) = 1 - ownership

\* When RemoveTransferHandler has returned, the handler can be destroyed: it
\* is not registered, no transfer uses it, and no event that is waiting or
\* being handled will.
NoDanglingHandler ==
    \A h \in destroyed :
        /\ h \notin handlers
        /\ \A i \in ServerIds : servers[i].handler # h
        /\ ~(/\ event.type \in {"kNewServerTransfer", "kAddTransferHandler"}
             /\ event.id = h
             /\ notification = 1 \/ tpc = "handle")

\* A session has at most one active context on either side, so its chunks
\* have one addressee and its handler is prepared once at a time.
OneActiveContext ==
    /\ \A i, j \in ClientIds : IsActive(clients[i]) /\ IsActive(clients[j])
            /\ clients[i].session = clients[j].session => i = j
    /\ \A i, j \in ServerIds : IsActive(servers[i]) /\ IsActive(servers[j])
            /\ servers[i].handler = servers[j].handler => i = j

\* Every call into the TransferThread returns, RemoveTransferHandler with its
\* wait for the event included: no order of acquires and releases leaves a
\* producer blocked on the slot.
CallReturns == \A p \in Producers : stage[p] # "idle" ~> stage[p] = "idle"
=============================================================================
