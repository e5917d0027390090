------------------------ MODULE TransferThread_proofs ------------------------
(***************************************************************************)
(* Proofs about the TransferThread for any producers, sessions and context *)
(* tables.  The slot protocol alone (SlotInv) keeps an event from being    *)
(* overwritten; on top of it, HandlerInv follows a handler through its     *)
(* registration and removal, whatever else the producers post in between.  *)
(***************************************************************************)
EXTENDS TransferThread, FiniteSetTheorems, TLAPS

\* The event in next_event_ has been posted and not been handled yet.
Pending == notification = 1 \/ tpc = "handle"

\* The producer owns next_event_.
Holds(p) == stage[p] \in {"post", "return"}

\* The transfer thread owns next_event_, or is about to be told so.
ThreadHolds == notification = 1 \/ tpc \in {"start", "handle", "release"}

\* Who owns next_event_, without counting: nobody while the semaphore is
\* released, and otherwise the thread or exactly one producer.
SlotInv ==
    /\ notification = 1 => tpc \in {"wait", "timeouts"}
    /\ ownership = 1 => ~ThreadHolds /\ \A p \in Producers : ~Holds(p)
    /\ ownership = 0 => ThreadHolds \/ \E p \in Producers : Holds(p)
    /\ ThreadHolds => \A p \in Producers : ~Holds(p)
    /\ \A p, q \in Producers : Holds(p) /\ Holds(q) => p = q

\* What a call or an event carries is a session, except before the first one.
IdsInv ==
    /\ \A p \in Producers : stage[p] # "idle" => call[p].id \in Sessions /\ call[p].op \in Ops
    /\ \A p \in Producers : stage[p] = "idle" => call[p] = NoCall
    /\ \A p \in Producers : stage[p] \in {"wait", "return"} => call[p].op = "RemoveTransferHandler"
    /\ event.type # "none" => event.id \in Sessions
    /\ Pending => event.type # "none"

TypeInv == TypeOK /\ SlotInv /\ IdsInv

\* Nothing refers to the handler h, and the pending event will not change that.
Unused(h) ==
    /\ h \notin handlers
    /\ \A i \in ServerIds : servers[i].handler # h
    /\ ~(event.type \in {"kNewServerTransfer", "kAddTransferHandler"} /\ event.id = h /\ Pending)

Adding(p, h) == call[p].op = "AddTransferHandler" /\ call[p].id = h
Removing(p, h) == call[p].op = "RemoveTransferHandler" /\ call[p].id = h
AddPending(h) == Pending /\ event.type = "kAddTransferHandler" /\ event.id = h
RemovePending(h) == Pending /\ event.type = "kRemoveTransferHandler" /\ event.id = h

\* A handler is added by one call, which nobody can overtake by removing it,
\* and a removal that waits for its event finds the handler unused once the
\* event is no longer pending.
HandlerInv ==
    /\ \A h \in destroyed : Unused(h)
    /\ \A h \in Sessions, p \in Producers : Adding(p, h) =>
        /\ h \notin handlers \cup destroyed
        /\ ~AddPending(h)
        /\ \A q \in Producers : ~Removing(q, h) /\ (Adding(q, h) => q = p)
    /\ \A h \in Sessions : AddPending(h) =>
        /\ h \notin handlers \cup destroyed
        /\ \A q \in Producers : ~Removing(q, h)
    /\ \A p \in Producers : stage[p] \in {"wait", "return"} =>
        RemovePending(call[p].id) \/ Unused(call[p].id)

\* An active server transfer uses the handler of its session, and no two
\* active contexts serve the same session.
ContextInv ==
    /\ \A i \in ServerIds : IsActive(servers[i]) => servers[i].handler = servers[i].session
    /\ \A i, j \in ClientIds : IsActive(clients[i]) /\ IsActive(clients[j])
            /\ clients[i].session = clients[j].session => i = j
    /\ \A i, j \in ServerIds : IsActive(servers[i]) /\ IsActive(servers[j])
            /\ servers[i].session = servers[j].session => i = j

-----------------------------------------------------------------------------
(* Choosing a context                                                      *)

\* A nonempty set of natural numbers has a least element, so Min picks one.
LEMMA MinOfInterval ==
    ASSUME NEW n \in Nat, NEW S \in SUBSET (1..n), S # {}
    PROVE  Min(S) \in S
<1>1. S \subseteq Nat
  OBVIOUS
<1>2. PICK t \in S : \A u \in S : ~(<<u, t>> \in OpToRel(<, Nat))
  BY <1>1, NatLessThanWellFounded, WFMin
<1>3. \A u \in S : t <= u
  <2> SUFFICES ASSUME NEW u \in S PROVE t <= u
    OBVIOUS
  <2>1. u \in Nat /\ t \in Nat
    BY <1>1
  <2>2. ~(<<u, t>> \in OpToRel(<, Nat))
    BY <1>2
  <2>3. ~(u < t)
    BY <2>1, <2>2 DEF OpToRel
  <2> QED
    BY <2>1, <2>3
<1>4. t \in S
  OBVIOUS
<1> QED
  BY <1>3, <1>4 DEF Min

\* A nonempty set of numbers up to n has a greatest element, so Max picks one.
LEMMA MaxOfInterval ==
    ASSUME NEW n \in Nat, NEW S \in SUBSET (1..n), S # {}
    PROVE  Max(S) \in S
<1> DEFINE T == {x \in 0..n : n - x \in S}
<1>1. T \subseteq Nat
  OBVIOUS
<1>2. T # {}
  <2>1. PICK s \in S : TRUE
    OBVIOUS
  <2>2. s \in 1..n /\ n - s \in 0..n /\ n - (n - s) = s
    BY <2>1
  <2> QED
    BY <2>1, <2>2
<1>3. PICK t \in T : \A u \in T : ~(<<u, t>> \in OpToRel(<, Nat))
  <2> HIDE DEF T
  <2> QED
    BY <1>1, <1>2, NatLessThanWellFounded, WFMin
<1>4. \A u \in T : t <= u
  <2> SUFFICES ASSUME NEW u \in T PROVE t <= u
    OBVIOUS
  <2>1. u \in Nat /\ t \in Nat
    BY <1>1
  <2>2. ~(<<u, t>> \in OpToRel(<, Nat))
    BY <1>3
  <2> HIDE DEF T
  <2>3. ~(u < t)
    BY <2>1, <2>2 DEF OpToRel
  <2> QED
    BY <2>1, <2>3
<1>5. n - t \in S
  BY <1>3
<1>6. \A y \in S : n - t >= y
  <2> SUFFICES ASSUME NEW y \in S PROVE n - t >= y
    OBVIOUS
  <2>1. y \in 1..n /\ n - y \in 0..n /\ n - (n - y) = y
    OBVIOUS
  <2>2. n - y \in T
    BY <2>1
  <2>3. t \in 0..n /\ t <= n - y
    BY <1>5, <2>2, <1>4
  <2> QED
    BY <2>1, <2>3
<1> QED
  BY <1>5, <1>6 DEF Max

\* FindNewTransfer returns nullptr (0) or a context; an active context only
\* for a session it already serves, and an inactive one only if no active
\* context serves that session.
LEMMA FindNewTransferPicks ==
    ASSUME NEW n \in Nat, NEW contexts, DOMAIN contexts = 1..n, NEW session
    PROVE  LET i == FindNewTransfer(contexts, session) IN
           i # 0 =>
            /\ i \in 1..n
            /\ IsActive(contexts[i]) => contexts[i].session = session
            /\ ~IsActive(contexts[i]) =>
                \A j \in 1..n : IsActive(contexts[j]) => contexts[j].session # session
<1> DEFINE same == {i \in 1..n : IsActive(contexts[i]) /\ contexts[i].session = session}
           free == {i \in 1..n : ~IsActive(contexts[i])}
           i == FindNewTransfer(contexts, session)
<1>1. i = IF same # {} THEN Min(same) ELSE IF free # {} THEN Max(free) ELSE 0
  BY DEF FindNewTransfer
<1>2. same # {} => Min(same) \in same
  BY MinOfInterval
<1>3. free # {} => Max(free) \in free
  BY MaxOfInterval
<1> QED
  BY <1>1, <1>2, <1>3

\* FindActiveTransfer returns nullptr (0) or a context of that session.
LEMMA FindActiveTransferPicks ==
    ASSUME NEW n \in Nat, NEW contexts, DOMAIN contexts = 1..n, NEW session
    PROVE  LET i == FindActiveTransfer(contexts, session) IN
           i # 0 => i \in 1..n /\ contexts[i].session = session
<1> DEFINE used == {i \in 1..n : contexts[i].state # "inactive" /\ contexts[i].session = session}
<1>1. used # {} => Min(used) \in used
  BY MinOfInterval
<1> QED
  BY <1>1 DEF FindActiveTransfer

-----------------------------------------------------------------------------
(* Types and the slot                                                      *)

\* The slot, the producers and the contexts start out well-typed, and the
\* transfer thread owns the slot before Run() releases it.
LEMMA TypeInvInit == Init => TypeInv
  BY ThreadAssumption
  DEF Init, TypeInv, TypeOK, SlotInv, IdsInv, ThreadHolds, Holds, Pending, NoCall, Ops,
      EventTypes, Callbacks, ClientContext, ServerContext, ContextStates

\* Counting an invocation keeps the counters natural numbers.
LEMMA BumpType ==
    ASSUME NEW count \in [Callbacks -> Nat], NEW callbacks
    PROVE  Bump(count, callbacks) \in [Callbacks -> Nat]
  BY DEF Bump

\* Finishing a context keeps it well-typed.
LEMMA FinishType ==
    /\ \A s \in ServerContext : FinishServer(s) \in ServerContext
    /\ \A c \in ClientContext : [c EXCEPT !.state = "completed"] \in ClientContext
  BY DEF FinishServer, ServerContext, ClientContext, ContextStates

\* What a producer does keeps the types and the slot protocol.
LEMMA ProducerTypes ==
    ASSUME TypeInv,
           NEW p \in Producers,
           \/ \E op \in Ops, id \in Sessions : Call(p, op, id)
           \/ Acquire(p) \/ PostNewClient(p) \/ PostNewServer(p) \/ PostSimple(p)
           \/ WaitAcquire(p) \/ WaitRelease(p)
    PROVE  TypeInv'
<1> USE ThreadAssumption DEF TypeInv, slotVars, producerVars, contextVars
<1>1. ASSUME NEW op \in Ops, NEW id \in Sessions, Call(p, op, id) PROVE TypeInv'
  <2>1. TypeOK'
    BY <1>1 DEF Call, TypeOK
  <2>2. SlotInv'
    BY <1>1 DEF Call, SlotInv, ThreadHolds, Holds, TypeOK
  <2>3. IdsInv'
    BY <1>1 DEF Call, IdsInv, Pending, TypeOK
  <2> QED
    BY <2>1, <2>2, <2>3
<1>2. CASE Acquire(p)
  <2>1. TypeOK'
    BY <1>2 DEF Acquire, TypeOK
  <2>2. SlotInv'
    BY <1>2 DEF Acquire, SlotInv, ThreadHolds, Holds, TypeOK
  <2>3. IdsInv'
    BY <1>2 DEF Acquire, IdsInv, Pending, TypeOK
  <2> QED
    BY <2>1, <2>2, <2>3
<1>3. CASE PostNewClient(p)
  <2>1. TypeOK'
    BY <1>3 DEF PostNewClient, PostEvent, TypeOK, EventTypes, NoCall
  <2>2. SlotInv'
    BY <1>3 DEF PostNewClient, PostEvent, SlotInv, ThreadHolds, Holds, TypeOK
  <2>3. IdsInv'
    BY <1>3 DEF PostNewClient, PostEvent, IdsInv, Pending, TypeOK
  <2> QED
    BY <2>1, <2>2, <2>3
<1>4. CASE PostNewServer(p)
  <2>1. TypeOK'
    BY <1>4 DEF PostNewServer, PostEvent, TypeOK, EventTypes, Ops
  <2>2. SlotInv'
    BY <1>4 DEF PostNewServer, PostEvent, SlotInv, ThreadHolds, Holds, TypeOK
  <2>3. IdsInv'
    BY <1>4 DEF PostNewServer, PostEvent, IdsInv, Pending, TypeOK, Ops
  <2> QED
    BY <2>1, <2>2, <2>3
<1>5. CASE PostSimple(p)
  <2>1. TypeOK'
    BY <1>5, SMTT(30) DEF PostSimple, PostEvent, TypeOK, EventTypes, NoCall
  <2>2. SlotInv'
    BY <1>5 DEF PostSimple, PostEvent, SlotInv, ThreadHolds, Holds, TypeOK
  <2>3. IdsInv'
    <3>1. call[p].id \in Sessions /\ call[p].op \in Ops
      BY <1>5 DEF PostSimple, PostEvent, IdsInv
    <3>2. event'.id = call[p].id /\ event'.type # "none"
      BY <1>5 DEF PostSimple, PostEvent
    <3>3. /\ \/ stage' = [stage EXCEPT ![p] = "idle"] /\ call' = [call EXCEPT ![p] = NoCall]
             \/ /\ stage' = [stage EXCEPT ![p] = "wait"] /\ call' = call
                /\ call[p].op = "RemoveTransferHandler"
      BY <1>5 DEF PostSimple, PostEvent, TypeOK
    <3> QED
      BY <3>1, <3>2, <3>3 DEF IdsInv, TypeOK
  <2> QED
    BY <2>1, <2>2, <2>3
<1>6. CASE WaitAcquire(p)
  <2>1. TypeOK'
    BY <1>6 DEF WaitAcquire, TypeOK
  <2>2. SlotInv'
    BY <1>6 DEF WaitAcquire, SlotInv, ThreadHolds, Holds, TypeOK
  <2>3. IdsInv'
    BY <1>6 DEF WaitAcquire, IdsInv, Pending, TypeOK
  <2> QED
    BY <2>1, <2>2, <2>3
<1>7. CASE WaitRelease(p)
  <2>1. ownership = 0
    BY <1>7 DEF WaitRelease, SlotInv, Holds, TypeOK
  <2>2. TypeOK'
    BY <1>7, <2>1 DEF WaitRelease, TypeOK, IdsInv, NoCall
  <2>3. SlotInv'
    BY <1>7, <2>1 DEF WaitRelease, SlotInv, ThreadHolds, Holds, TypeOK
  <2>4. IdsInv'
    BY <1>7 DEF WaitRelease, IdsInv, Pending, TypeOK
  <2> QED
    BY <2>2, <2>3, <2>4
<1> QED
  BY <1>1, <1>2, <1>3, <1>4, <1>5, <1>6, <1>7

\* The thread's steps keep the contexts well-typed.
LEMMA HandlersTypeContexts ==
    ASSUME TypeInv, HandleEvent \/ HandleTimeouts
    PROVE  /\ clients' \in [ClientIds -> ClientContext]
           /\ servers' \in [ServerIds -> ServerContext]
           /\ handlers' \subseteq Sessions
           /\ invoked' \in [Callbacks -> Nat]
           /\ staged' \in 0..MaxStarts
<1> USE ThreadAssumption DEF TypeInv, Handled
<1>1. CASE HandleNewClient
  <2> DEFINE i == FindNewTransfer(clients, event.id)
  <2>1. i # 0 => i \in ClientIds
    BY FindNewTransferPicks, ThreadAssumption DEF TypeOK, ClientIds
  <2>2. \A c : /\ Bump(invoked, c) \in [Callbacks -> Nat]
               /\ \A d : Bump(Bump(invoked, c), d) \in [Callbacks -> Nat]
    BY BumpType DEF TypeOK
  <2> HIDE DEF i
  <2>3. CASE i = 0
    BY <1>1, <2>3 DEF HandleNewClient, TypeOK, i
  <2>4. CASE i # 0
    <3>1. PICK state \in {"active", "completed"} :
            clients' = [clients EXCEPT ![i] =
                          [state |-> state, session |-> event.id, callback |-> staged]]
      BY <1>1, <2>4 DEF HandleNewClient, i
    <3>2. event.id \in Sessions \cup {NoSession} /\ staged \in 0..MaxStarts
      BY DEF TypeOK
    <3>3. invoked' \in [Callbacks -> Nat]
      BY <1>1, <2>2, <2>4 DEF HandleNewClient, i, TypeOK
    <3>4. clients' \in [ClientIds -> ClientContext]
      BY <2>1, <2>4, <3>1, <3>2 DEF TypeOK, ClientContext, ContextStates
    <3> QED
      BY <1>1, <2>4, <3>3, <3>4 DEF HandleNewClient, TypeOK, i
  <2> QED
    BY <2>3, <2>4
<1>2. CASE HandleClientEvent
  <2> DEFINE i == FindActiveTransfer(clients, event.id)
  <2>1. i # 0 => i \in ClientIds
    BY FindActiveTransferPicks, ThreadAssumption DEF TypeOK, ClientIds
  <2>2. \A c : Bump(invoked, c) \in [Callbacks -> Nat]
    BY BumpType DEF TypeOK
  <2> HIDE DEF i
  <2>3. clients' \in [ClientIds -> ClientContext]
    <3>1. CASE i # 0 /\ clients' = [clients EXCEPT ![i].state = "completed"]
      BY <2>1, <3>1, FinishType DEF TypeOK
    <3>2. CASE clients' = clients
      BY <3>2 DEF TypeOK
    <3> QED
      BY <1>2, <3>1, <3>2 DEF HandleClientEvent, i
  <2>4. invoked' \in [Callbacks -> Nat]
    BY <1>2, <2>2 DEF HandleClientEvent, TypeOK
  <2> QED
    BY <1>2, <2>3, <2>4 DEF HandleClientEvent, TypeOK
<1>3. CASE HandleNewServer
  <2> DEFINE i == FindNewTransfer(servers, event.id)
  <2>1. i # 0 => i \in ServerIds
    BY FindNewTransferPicks, ThreadAssumption DEF TypeOK, ServerIds
  <2>2. event.id \in Sessions
    BY <1>3 DEF HandleNewServer, IdsInv, Pending
  <2> HIDE DEF i
  <2>3. servers' \in [ServerIds -> ServerContext]
    <3>1. \A s \in ServerContext : i # 0 => [servers EXCEPT ![i] = s] \in [ServerIds -> ServerContext]
      BY <2>1 DEF TypeOK
    <3>2. /\ [state |-> "active", session |-> event.id, handler |-> event.id] \in ServerContext
          /\ [state |-> "completed", session |-> event.id, handler |-> NoHandler] \in ServerContext
      BY <2>2 DEF ServerContext, ContextStates
    <3> QED
      BY <1>3, <3>1, <3>2 DEF HandleNewServer, TypeOK, i
  <2> QED
    BY <1>3, <2>3 DEF HandleNewServer, TypeOK
<1>4. CASE HandleServerChunk
  <2> DEFINE i == FindActiveTransfer(servers, event.id)
  <2>1. i # 0 => i \in ServerIds
    BY FindActiveTransferPicks, ThreadAssumption DEF TypeOK, ServerIds
  <2> HIDE DEF i
  <2>2. servers' \in [ServerIds -> ServerContext]
    <3>1. CASE i # 0 /\ servers' = [servers EXCEPT ![i] = FinishServer(servers[i])]
      BY <2>1, <3>1, FinishType DEF TypeOK
    <3>2. CASE servers' = servers
      BY <3>2 DEF TypeOK
    <3> QED
      BY <1>4, <3>1, <3>2 DEF HandleServerChunk, i
  <2> QED
    BY <1>4, <2>2 DEF HandleServerChunk, TypeOK
<1>5. CASE HandleSendStatus
  BY <1>5 DEF HandleSendStatus, TypeOK, contextVars
<1>6. CASE HandleAddHandler
  <2>1. event.id \in Sessions
    BY <1>6 DEF HandleAddHandler, IdsInv, Pending
  <2> QED
    BY <1>6, <2>1 DEF HandleAddHandler, TypeOK
<1>7. CASE HandleRemoveHandler
  BY <1>7, FinishType DEF HandleRemoveHandler, TypeOK
<1>8. CASE HandleTimeouts
  <2>1. \A c : Bump(invoked, c) \in [Callbacks -> Nat]
    BY BumpType DEF TypeOK
  <2>2. PICK cs \in SUBSET {i \in ClientIds : IsActive(clients[i])},
            ss \in SUBSET {i \in ServerIds : IsActive(servers[i])} :
            /\ clients' = [i \in ClientIds |->
                 IF i \in cs THEN [clients[i] EXCEPT !.state = "completed"] ELSE clients[i]]
            /\ invoked' = Bump(invoked, {clients[i].callback : i \in cs})
            /\ servers' = [i \in ServerIds |->
                 IF i \in ss THEN FinishServer(servers[i]) ELSE servers[i]]
    BY <1>8, Zenon DEF HandleTimeouts
  <2>3. clients' \in [ClientIds -> ClientContext] /\ servers' \in [ServerIds -> ServerContext]
    BY <2>2, FinishType DEF TypeOK
  <2>4. invoked' \in [Callbacks -> Nat]
    BY <2>1, <2>2
  <2> QED
    BY <1>8, <2>3, <2>4 DEF HandleTimeouts, TypeOK, slotVars
<1> QED
  BY <1>1, <1>2, <1>3, <1>4, <1>5, <1>6, <1>7, <1>8 DEF HandleEvent

\* What the transfer thread does keeps the types and the slot protocol.
LEMMA ThreadTypes ==
    ASSUME TypeInv,
           Run \/ TakeEvent \/ WaitTimesOut \/ HandleEvent \/ ReleaseEvent \/ HandleTimeouts
    PROVE  TypeInv'
<1> USE DEF TypeInv, slotVars, producerVars, contextVars
<1>1. CASE Run
  <2>1. ownership = 0
    BY <1>1 DEF Run, SlotInv, ThreadHolds, TypeOK
  <2> QED
    BY <1>1, <2>1 DEF Run, TypeOK, SlotInv, IdsInv, ThreadHolds, Holds, Pending
<1>2. CASE TakeEvent
  BY <1>2 DEF TakeEvent, TypeOK, SlotInv, IdsInv, ThreadHolds, Holds, Pending
<1>3. CASE WaitTimesOut
  BY <1>3 DEF WaitTimesOut, TypeOK, SlotInv, IdsInv, ThreadHolds, Holds, Pending
<1>4. CASE HandleEvent
  <2>1. Handled
    BY <1>4 DEF HandleEvent, HandleNewClient, HandleClientEvent, HandleNewServer,
        HandleServerChunk, HandleSendStatus, HandleAddHandler, HandleRemoveHandler
  <2>2. TypeOK'
    BY <1>4, <2>1, HandlersTypeContexts DEF Handled, TypeOK
  <2>3. SlotInv' /\ IdsInv'
    BY <2>1 DEF Handled, SlotInv, IdsInv, ThreadHolds, Holds, Pending
  <2> QED
    BY <2>2, <2>3
<1>5. CASE ReleaseEvent
  <2>1. ownership = 0
    BY <1>5 DEF ReleaseEvent, SlotInv, ThreadHolds, TypeOK
  <2> QED
    BY <1>5, <2>1 DEF ReleaseEvent, TypeOK, SlotInv, IdsInv, ThreadHolds, Holds, Pending
<1>6. CASE HandleTimeouts
  <2>1. TypeOK'
    BY <1>6, HandlersTypeContexts DEF HandleTimeouts, TypeOK
  <2>2. SlotInv' /\ IdsInv'
    BY <1>6 DEF HandleTimeouts, SlotInv, IdsInv, ThreadHolds, Holds, Pending
  <2> QED
    BY <2>1, <2>2
<1> QED
  BY <1>1, <1>2, <1>3, <1>4, <1>5, <1>6

\* Nothing changes in a stuttering step.
LEMMA StutterKeeps ==
    ASSUME UNCHANGED vars
    PROVE  /\ TypeInv => TypeInv'
           /\ HandlerInv => HandlerInv'
           /\ ContextInv => ContextInv'
  BY DEF vars, slotVars, producerVars, contextVars, TypeInv, TypeOK, SlotInv, IdsInv,
      HandlerInv, ContextInv, ThreadHolds, Holds, Pending, Unused, Adding, Removing, AddPending,
      RemovePending, SlotHolders

\* One step of the specification keeps the types and the slot protocol.
LEMMA TypeInvStep == TypeInv /\ [Next]_vars => TypeInv'
  BY ProducerTypes, ThreadTypes, StutterKeeps DEF Next, HandleEvent

\* The types, the slot protocol and what the calls and events carry.
THEOREM TypesHold == Spec => []TypeInv
<1>1. Init => TypeInv
  BY TypeInvInit
<1>2. TypeInv /\ [Next]_vars => TypeInv'
  BY TypeInvStep
<1> QED
  BY <1>1, <1>2, PTL DEF Spec

\* Type correctness of the TransferThread, for any number of producers,
\* sessions, contexts and calls.
THEOREM TypeCorrect == Spec => []TypeOK
<1>1. TypeInv => TypeOK
  BY DEF TypeInv
<1> QED
  BY <1>1, TypesHold, PTL

\* The single next_event_ slot always has exactly one holder or is released,
\* so no event is overwritten and the semaphore never counts beyond one.
THEOREM SlotExclusion == Spec => []SlotHasOneHolder
<1>1. ASSUME TypeInv PROVE SlotHasOneHolder
  <2> USE <1>1 DEF TypeInv
  <2>1. SlotHolders = {p \in Producers : Holds(p)}
                        \cup (IF ThreadHolds THEN {"transfer thread"} ELSE {})
    BY DEF SlotHolders, Holds, ThreadHolds
  <2>2. CASE ownership = 1
    <3>1. SlotHolders = {}
      BY <2>1, <2>2 DEF SlotInv
    <3> QED
      BY <2>2, <3>1, FS_EmptySet DEF SlotHasOneHolder
  <2>3. CASE ownership = 0 /\ ThreadHolds
    <3>1. SlotHolders = {"transfer thread"}
      BY <2>1, <2>3 DEF SlotInv
    <3>2. Cardinality(SlotHolders) = 1
      BY <3>1, FS_Singleton, Zenon
    <3> QED
      BY <2>3, <3>2 DEF SlotHasOneHolder
  <2>4. CASE ownership = 0 /\ ~ThreadHolds
    <3>1. PICK p \in Producers : Holds(p)
      BY <2>4 DEF SlotInv
    <3>2. SlotHolders = {p}
      BY <2>1, <2>4, <3>1 DEF SlotInv
    <3> QED
      BY <2>4, <3>2, FS_Singleton DEF SlotHasOneHolder
  <2> QED
    BY <2>2, <2>3, <2>4 DEF TypeOK
<1> QED
  BY <1>1, TypesHold, PTL

-----------------------------------------------------------------------------
(* Handlers                                                                *)

\* No handler is registered, used or destroyed in the beginning.
LEMMA HandlerInvInit == Init => HandlerInv
  BY DEF Init, HandlerInv, Adding, AddPending, Pending, NoCall

\* A producer's steps outside PostEvent keep HandlerInv.
LEMMA ProducerKeepsHandlers ==
    ASSUME TypeInv, HandlerInv,
           NEW p \in Producers,
           \/ \E op \in Ops, id \in Sessions : Call(p, op, id)
           \/ Acquire(p) \/ WaitAcquire(p) \/ WaitRelease(p)
    PROVE  HandlerInv'
<1> USE DEF TypeInv, slotVars, producerVars, contextVars
<1>1. ASSUME NEW op \in Ops, NEW id \in Sessions, Call(p, op, id) PROVE HandlerInv'
  <2>1. \A h : Unused(h)' = Unused(h) /\ AddPending(h)' = AddPending(h)
                 /\ RemovePending(h)' = RemovePending(h)
    BY <1>1 DEF Call, Unused, AddPending, RemovePending, Pending
  <2>2. \A q \in Producers : q # p => stage'[q] = stage[q] /\ call'[q] = call[q]
    BY <1>1 DEF Call, TypeOK
  <2>3. stage'[p] = "acquire" /\ call'[p].op = op /\ call'[p].id = id
    BY <1>1 DEF Call, TypeOK
  <2>4. \A h \in destroyed' : Unused(h)'
    BY <1>1, <2>1 DEF Call, HandlerInv
  <2>5. \A h \in Sessions, q \in Producers : Adding(q, h)' =>
        /\ h \notin handlers' \cup destroyed'
        /\ ~AddPending(h)'
        /\ \A r \in Producers : ~Removing(r, h)' /\ (Adding(r, h)' => r = q)
    <3> SUFFICES ASSUME NEW h \in Sessions, NEW q \in Producers, Adding(q, h)'
                 PROVE  /\ h \notin handlers' \cup destroyed'
                        /\ ~AddPending(h)'
                        /\ \A r \in Producers : ~Removing(r, h)' /\ (Adding(r, h)' => r = q)
      OBVIOUS
    <3>1. handlers' = handlers /\ destroyed' = destroyed
      BY <1>1 DEF Call
    <3>2. CASE q = p
      <4>1. op = "AddTransferHandler" /\ id = h
        BY <2>3, <3>2 DEF Adding
      <4>2. /\ h \notin handlers \cup destroyed
            /\ ~AddPending(h)
            /\ \A r \in Producers : ~Removing(r, h) /\ ~Adding(r, h)
        BY <1>1, <4>1 DEF Call, AddPending, Adding, Removing
      <4> QED
        BY <2>1, <2>2, <2>3, <3>1, <3>2, <4>1, <4>2 DEF Adding, Removing
    <3>3. CASE q # p
      <4>1. Adding(q, h)
        BY <2>2, <3>3 DEF Adding
      <4>2. /\ h \notin handlers \cup destroyed
            /\ ~AddPending(h)
            /\ \A r \in Producers : ~Removing(r, h) /\ (Adding(r, h) => r = q)
        BY <4>1 DEF HandlerInv
      <4>3. ~(id = h /\ op \in {"AddTransferHandler", "RemoveTransferHandler"})
        BY <1>1, <4>1, <4>2 DEF Call, Adding
      <4> QED
        BY <2>1, <2>2, <2>3, <3>1, <4>2, <4>3 DEF Adding, Removing
    <3> QED
      BY <3>2, <3>3
  <2>6. \A h \in Sessions : AddPending(h)' =>
        /\ h \notin handlers' \cup destroyed'
        /\ \A q \in Producers : ~Removing(q, h)'
    <3> SUFFICES ASSUME NEW h \in Sessions, AddPending(h)
                 PROVE  /\ h \notin handlers' \cup destroyed'
                        /\ \A q \in Producers : ~Removing(q, h)'
      BY <2>1
    <3>1. h \notin handlers \cup destroyed /\ \A q \in Producers : ~Removing(q, h)
      BY DEF HandlerInv
    <3>2. ~(op = "RemoveTransferHandler" /\ id = h)
      BY <1>1, <3>1 DEF Call
    <3> QED
      BY <1>1, <2>2, <2>3, <3>1, <3>2 DEF Call, Removing
  <2>7. \A q \in Producers : stage'[q] \in {"wait", "return"} =>
        RemovePending(call[q].id)' \/ Unused(call[q].id)'
    BY <2>1, <2>2, <2>3 DEF HandlerInv
  <2>8. \A q \in Producers : stage'[q] \in {"wait", "return"} => call'[q].id = call[q].id
    BY <2>2, <2>3
  <2> QED
    BY <2>1, <2>4, <2>5, <2>6, <2>7, <2>8 DEF HandlerInv
<1>2. CASE Acquire(p) \/ WaitAcquire(p)
  <2>1. \A h : Unused(h)' = Unused(h) /\ AddPending(h)' = AddPending(h)
                 /\ RemovePending(h)' = RemovePending(h)
    BY <1>2 DEF Acquire, WaitAcquire, Unused, AddPending, RemovePending, Pending
  <2>2. \A q \in Producers : stage'[q] \in {"wait", "return"} => stage[q] \in {"wait", "return"}
    BY <1>2 DEF Acquire, WaitAcquire, TypeOK
  <2>3. call' = call /\ destroyed' = destroyed /\ handlers' = handlers
    BY <1>2 DEF Acquire, WaitAcquire
  <2> QED
    BY <2>1, <2>2, <2>3 DEF HandlerInv, Adding, Removing
<1>3. CASE WaitRelease(p)
  <2>1. \A h : Unused(h)' = Unused(h) /\ AddPending(h)' = AddPending(h)
                 /\ RemovePending(h)' = RemovePending(h)
    BY <1>3 DEF WaitRelease, Unused, AddPending, RemovePending, Pending
  <2>2. ~Pending
    BY <1>3 DEF WaitRelease, SlotInv, ThreadHolds, Holds, Pending
  <2>3. Removing(p, call[p].id) /\ Unused(call[p].id)
    BY <1>3, <2>2 DEF WaitRelease, HandlerInv, RemovePending, Removing, IdsInv
  <2>4. \A h : \A q \in Producers : Adding(q, h)' => Adding(q, h)
    BY <1>3 DEF WaitRelease, Adding, TypeOK, NoCall
  <2>5. \A h : \A q \in Producers : Removing(q, h)' => Removing(q, h)
    BY <1>3 DEF WaitRelease, Removing, TypeOK, NoCall
  <2>6. \A q \in Producers : stage'[q] \in {"wait", "return"} =>
            stage[q] \in {"wait", "return"} /\ call'[q] = call[q]
    BY <1>3 DEF WaitRelease, TypeOK
  <2>7. destroyed' = destroyed \cup {call[p].id} /\ handlers' = handlers
    BY <1>3 DEF WaitRelease
  <2>8. \A h \in Sessions, q \in Producers : Adding(q, h) => h # call[p].id
    BY <2>3 DEF HandlerInv
  <2>9. \A h \in Sessions : AddPending(h) => h # call[p].id
    BY <2>3 DEF HandlerInv
  <2> QED
    BY <2>1, <2>3, <2>4, <2>5, <2>6, <2>7, <2>8, <2>9 DEF HandlerInv
<1> QED
  BY <1>1, <1>2, <1>3

\* Posting an event keeps HandlerInv: a transfer is only posted for a handler
\* that is registered, and an addition for one that nobody removes.
LEMMA PostKeepsHandlers ==
    ASSUME TypeInv, HandlerInv,
           NEW p \in Producers,
           PostNewClient(p) \/ PostNewServer(p) \/ PostSimple(p)
    PROVE  HandlerInv'
<1> USE DEF TypeInv
<1> DEFINE id == call[p].id
<1>1. /\ id \in Sessions /\ stage[p] = "post"
      /\ event'.id = id
      /\ handlers' = handlers /\ destroyed' = destroyed /\ servers' = servers
      /\ tpc' = tpc /\ notification' = 1
  BY DEF PostNewClient, PostNewServer, PostSimple, PostEvent, IdsInv, contextVars
<1>2. ~Pending /\ Pending'
  BY <1>1 DEF SlotInv, ThreadHolds, Holds, Pending
<1>3. event'.type = "kNewServerTransfer" => id \in handlers
  BY DEF PostNewClient, PostNewServer, PostSimple, PostEvent
<1>4. event'.type = "kAddTransferHandler" =>
        Adding(p, id) /\ stage'[p] = "idle" /\ call'[p] = NoCall
  BY DEF PostNewClient, PostNewServer, PostSimple, PostEvent, Adding, TypeOK
<1>5. \A q \in Producers : q # p => stage'[q] = stage[q] /\ call'[q] = call[q]
  BY DEF PostNewClient, PostNewServer, PostSimple, PostEvent, TypeOK
<1>6. \A h : (Adding(p, h)' => FALSE) /\ (Removing(p, h)' => Removing(p, h))
  BY DEF PostNewClient, PostNewServer, PostSimple, PostEvent, TypeOK, Adding, Removing, NoCall
<1>7. stage'[p] \in {"wait", "return"} =>
        event'.type = "kRemoveTransferHandler" /\ call'[p].id = id
  BY DEF PostNewClient, PostNewServer, PostSimple, PostEvent, TypeOK
<1>8. \A h : Unused(h) /\ ~Adding(p, h) => Unused(h)'
  <2> SUFFICES ASSUME NEW h, Unused(h), ~Adding(p, h) PROVE Unused(h)'
    OBVIOUS
  <2>1. event'.id = h => event'.type \notin {"kNewServerTransfer", "kAddTransferHandler"}
    BY <1>1, <1>3, <1>4 DEF Unused
  <2> QED
    BY <1>1, <2>1 DEF Unused
<1>9. \A h \in destroyed' : Unused(h)'
  <2> SUFFICES ASSUME NEW h \in destroyed PROVE Unused(h)'
    BY <1>1
  <2>1. h \in Sessions
    BY DEF TypeOK
  <2> QED
    BY <1>8, <2>1 DEF HandlerInv
<1>10. \A h \in Sessions, q \in Producers : Adding(q, h)' =>
        /\ h \notin handlers' \cup destroyed'
        /\ ~AddPending(h)'
        /\ \A r \in Producers : ~Removing(r, h)' /\ (Adding(r, h)' => r = q)
  <2> SUFFICES ASSUME NEW h \in Sessions, NEW q \in Producers, Adding(q, h)'
               PROVE  /\ h \notin handlers' \cup destroyed'
                      /\ ~AddPending(h)'
                      /\ \A r \in Producers : ~Removing(r, h)' /\ (Adding(r, h)' => r = q)
    OBVIOUS
  <2>1. q # p
    BY <1>6
  <2>2. Adding(q, h)
    BY <1>5, <2>1 DEF Adding
  <2>3. /\ h \notin handlers \cup destroyed
        /\ \A r \in Producers : ~Removing(r, h) /\ (Adding(r, h) => r = q)
    BY <2>2 DEF HandlerInv
  <2>4. ~AddPending(h)'
    BY <1>1, <1>4, <2>1, <2>3 DEF AddPending
  <2>5. \A r \in Producers : ~Removing(r, h)' /\ (Adding(r, h)' => r = q)
    BY <1>5, <1>6, <2>3 DEF Adding, Removing
  <2> QED
    BY <1>1, <2>3, <2>4, <2>5
<1>11. \A h \in Sessions : AddPending(h)' =>
        /\ h \notin handlers' \cup destroyed'
        /\ \A q \in Producers : ~Removing(q, h)'
  <2> SUFFICES ASSUME NEW h \in Sessions, AddPending(h)'
               PROVE  /\ h \notin handlers' \cup destroyed'
                      /\ \A q \in Producers : ~Removing(q, h)'
    OBVIOUS
  <2>1. Adding(p, h)
    BY <1>1, <1>4 DEF AddPending
  <2>2. h \notin handlers \cup destroyed /\ \A q \in Producers : ~Removing(q, h)
    BY <2>1 DEF HandlerInv
  <2> QED
    BY <1>1, <1>5, <1>6, <2>2 DEF Removing
<1>12. \A q \in Producers : stage'[q] \in {"wait", "return"} =>
        RemovePending(call[q].id)' \/ Unused(call[q].id)'
  <2> SUFFICES ASSUME NEW q \in Producers, stage'[q] \in {"wait", "return"}
               PROVE  RemovePending(call[q].id)' \/ Unused(call[q].id)'
    OBVIOUS
  <2>1. CASE q = p
    BY <1>1, <1>2, <1>7, <2>1 DEF RemovePending
  <2>2. CASE q # p
    <3>1. stage[q] \in {"wait", "return"} /\ call'[q] = call[q]
      BY <1>5, <2>2
    <3>2. Unused(call[q].id) /\ Removing(q, call[q].id) /\ call[q].id \in Sessions
      BY <1>2, <3>1 DEF HandlerInv, RemovePending, Removing, IdsInv
    <3>3. ~Adding(p, call[q].id)
      BY <3>2 DEF HandlerInv
    <3> QED
      BY <1>8, <3>1, <3>2, <3>3
  <2> QED
    BY <2>1, <2>2
<1> QED
  BY <1>9, <1>10, <1>11, <1>12 DEF HandlerInv, Adding, Removing, AddPending, Unused,
      RemovePending, Pending

\* The transfer thread's steps keep HandlerInv: only the pending event brings
\* a handler into use, and a pending removal leaves it unused.
LEMMA ThreadKeepsHandlers ==
    ASSUME TypeInv, HandlerInv,
           Run \/ TakeEvent \/ WaitTimesOut \/ HandleEvent \/ ReleaseEvent \/ HandleTimeouts
    PROVE  HandlerInv'
<1> USE DEF TypeInv, slotVars, producerVars, contextVars
<1>1. ASSUME handlers' = handlers, servers' = servers, event' = event,
             stage' = stage, call' = call, destroyed' = destroyed, Pending' = Pending
      PROVE  HandlerInv'
  BY <1>1 DEF HandlerInv, Adding, Removing, AddPending, Unused, RemovePending
<1>2. CASE Run \/ TakeEvent \/ WaitTimesOut \/ ReleaseEvent
  <2>1. Pending' = Pending
    BY <1>2 DEF Run, TakeEvent, WaitTimesOut, ReleaseEvent, Pending, SlotInv
  <2> QED
    BY <1>1, <1>2, <2>1 DEF Run, TakeEvent, WaitTimesOut, ReleaseEvent
<1>3. CASE HandleTimeouts
  <2>1. PICK ss \in SUBSET {i \in ServerIds : IsActive(servers[i])} :
            servers' = [i \in ServerIds |->
                         IF i \in ss THEN FinishServer(servers[i]) ELSE servers[i]]
    BY <1>3, Zenon DEF HandleTimeouts
  <2>2. \A i \in ServerIds : servers'[i].handler = servers[i].handler
                               \/ servers'[i].handler = NoHandler
    BY <2>1 DEF FinishServer, TypeOK, ServerContext
  <2>3. /\ handlers' = handlers /\ event' = event /\ stage' = stage /\ call' = call
        /\ destroyed' = destroyed /\ Pending' = Pending
    BY <1>3 DEF HandleTimeouts, Pending
  <2>4. \A h \in Sessions : Unused(h) => Unused(h)'
    BY <2>2, <2>3, ThreadAssumption DEF Unused
  <2>5. \A q \in Producers : stage[q] \in {"wait", "return"} => call[q].id \in Sessions
    BY DEF IdsInv
  <2>6. destroyed \subseteq Sessions
    BY DEF TypeOK
  <2> QED
    BY <2>3, <2>4, <2>5, <2>6 DEF HandlerInv, Adding, Removing, AddPending, RemovePending
<1>4. CASE HandleEvent
  <2>1. Handled
    BY <1>4 DEF HandleEvent, HandleNewClient, HandleClientEvent, HandleNewServer,
        HandleServerChunk, HandleSendStatus, HandleAddHandler, HandleRemoveHandler
  <2>2. /\ event' = event /\ stage' = stage /\ call' = call /\ destroyed' = destroyed
        /\ Pending /\ ~Pending'
    BY <2>1 DEF Handled, Pending, SlotInv
  <2>3. \A h \in Sessions : h \in handlers' => h \in handlers \/ AddPending(h)
    BY <1>4, <2>2 DEF HandleEvent, HandleNewClient, HandleClientEvent, HandleNewServer,
        HandleServerChunk, HandleSendStatus, HandleAddHandler, HandleRemoveHandler, AddPending
  <2>4. \A i \in ServerIds :
            \/ servers'[i].handler = servers[i].handler
            \/ servers'[i].handler = NoHandler
            \/ event.type = "kNewServerTransfer" /\ servers'[i].handler = event.id
    <3>1. CASE HandleNewServer
      <4> DEFINE k == FindNewTransfer(servers, event.id)
      <4>1. k # 0 => k \in ServerIds
        BY FindNewTransferPicks, ThreadAssumption DEF TypeOK, ServerIds
      <4> HIDE DEF k
      <4>2. \/ servers' = servers
            \/ k # 0 /\ servers' = [servers EXCEPT ![k] =
                    [state |-> "active", session |-> event.id, handler |-> event.id]]
            \/ k # 0 /\ servers' = [servers EXCEPT ![k] =
                    [state |-> "completed", session |-> event.id, handler |-> NoHandler]]
        BY <3>1 DEF HandleNewServer, k
      <4> QED
        BY <3>1, <4>1, <4>2 DEF HandleNewServer, TypeOK
    <3>2. CASE HandleServerChunk
      <4> DEFINE k == FindActiveTransfer(servers, event.id)
      <4>1. k # 0 => k \in ServerIds
        BY FindActiveTransferPicks, ThreadAssumption DEF TypeOK, ServerIds
      <4> HIDE DEF k
      <4>2. \/ servers' = servers
            \/ k # 0 /\ servers' = [servers EXCEPT ![k] = FinishServer(servers[k])]
        BY <3>2 DEF HandleServerChunk, k
      <4>3. CASE servers' = servers
        BY <4>3
      <4>4. CASE k # 0 /\ servers' = [servers EXCEPT ![k] = FinishServer(servers[k])]
        <5>1. servers'[k].handler = NoHandler
          BY <4>1, <4>4 DEF FinishServer, TypeOK, ServerContext
        <5>2. \A i \in ServerIds : i # k => servers'[i] = servers[i]
          BY <4>4 DEF TypeOK
        <5> QED
          BY <5>1, <5>2
      <4> QED
        BY <4>2, <4>3, <4>4
    <3>3. CASE HandleRemoveHandler
      BY <3>3 DEF HandleRemoveHandler, FinishServer, TypeOK, ServerContext
    <3>4. CASE servers' = servers
      BY <3>4
    <3> QED
      BY <1>4, <3>1, <3>2, <3>3, <3>4 DEF HandleEvent, HandleNewClient, HandleClientEvent,
          HandleSendStatus, HandleAddHandler
  <2>5. \A h \in Sessions : Unused(h) => Unused(h)'
    BY <2>2, <2>3, <2>4, ThreadAssumption DEF Unused, AddPending
  <2>6. \A h \in Sessions : RemovePending(h) => Unused(h)'
    <3> SUFFICES ASSUME NEW h \in Sessions, RemovePending(h) PROVE Unused(h)'
      OBVIOUS
    <3>1. HandleRemoveHandler /\ event.id = h
      BY <1>4 DEF RemovePending, HandleEvent, HandleNewClient, HandleClientEvent,
          HandleNewServer, HandleServerChunk, HandleSendStatus, HandleAddHandler
    <3>2. h \notin handlers'
      BY <3>1 DEF HandleRemoveHandler
    <3>3. \A i \in ServerIds : servers'[i].handler # h
      BY <3>1, ThreadAssumption, ZenonT(60) DEF HandleRemoveHandler, FinishServer, TypeOK, ServerContext
    <3> QED
      BY <2>2, <3>2, <3>3 DEF Unused
  <2>7. \A h \in destroyed' : Unused(h)'
    BY <2>2, <2>5 DEF HandlerInv, TypeOK
  <2>8. \A h \in Sessions, q \in Producers : Adding(q, h)' =>
        /\ h \notin handlers' \cup destroyed'
        /\ ~AddPending(h)'
        /\ \A r \in Producers : ~Removing(r, h)' /\ (Adding(r, h)' => r = q)
    BY <2>2, <2>3 DEF HandlerInv, Adding, Removing, AddPending
  <2>9. \A h \in Sessions : ~AddPending(h)'
    BY <2>2 DEF AddPending
  <2>10. \A q \in Producers : stage'[q] \in {"wait", "return"} => Unused(call[q].id)'
    BY <2>2, <2>5, <2>6 DEF HandlerInv, IdsInv
  <2> QED
    BY <2>7, <2>8, <2>9, <2>10 DEF HandlerInv
<1> QED
  BY <1>2, <1>3, <1>4

\* One step of the specification keeps HandlerInv.
LEMMA HandlerInvStep == TypeInv /\ HandlerInv /\ [Next]_vars => HandlerInv'
  BY ProducerKeepsHandlers, PostKeepsHandlers, ThreadKeepsHandlers, StutterKeeps
  DEF Next, HandleEvent

\* Once RemoveTransferHandler has returned, nothing in the TransferThread
\* refers to the handler or ever will, whatever the other producers post
\* between the removal's event and its return.
THEOREM HandlerRemovalIsSafe == Spec => []NoDanglingHandler
<1>1. Init => HandlerInv
  BY HandlerInvInit
<1>2. TypeInv /\ HandlerInv /\ [Next]_vars => HandlerInv'
  BY HandlerInvStep
<1>3. HandlerInv => NoDanglingHandler
  BY DEF HandlerInv, NoDanglingHandler, Unused, Pending
<1> QED
  BY <1>1, <1>2, <1>3, TypesHold, PTL DEF Spec

-----------------------------------------------------------------------------
(* Contexts                                                                *)

\* No context is active in the beginning.
LEMMA ContextInvInit == Init => ContextInv
  BY DEF Init, ContextInv, IsActive

\* Only the transfer thread's handlers touch the contexts.  A new transfer
\* takes the context FindNewTransfer picks, which is the one that already
\* serves its session if there is one; everything else only finishes contexts.
LEMMA ContextInvStep == TypeInv /\ ContextInv /\ [Next]_vars => ContextInv'
<1> SUFFICES ASSUME TypeInv, ContextInv, [Next]_vars PROVE ContextInv'
  OBVIOUS
<1> USE DEF TypeInv
<1>1. ASSUME \A i \in ClientIds : IsActive(clients'[i]) => clients'[i] = clients[i],
             \A i \in ServerIds : IsActive(servers'[i]) => servers'[i] = servers[i]
      PROVE  ContextInv'
  BY <1>1 DEF ContextInv, IsActive
<1>2. CASE UNCHANGED <<clients, servers>>
  BY <1>2 DEF ContextInv, IsActive
<1>3. CASE HandleNewClient
  <2> DEFINE k == FindNewTransfer(clients, event.id)
  <2>1. k # 0 =>
            /\ k \in ClientIds
            /\ IsActive(clients[k]) => clients[k].session = event.id
            /\ ~IsActive(clients[k]) =>
                \A j \in ClientIds : IsActive(clients[j]) => clients[j].session # event.id
    <3>1. DOMAIN clients = 1..MaxClientContexts /\ MaxClientContexts \in Nat
      BY ThreadAssumption DEF TypeOK, ClientIds
    <3> HIDE DEF TypeInv
    <3> QED
      BY <3>1, FindNewTransferPicks, Zenon DEF ClientIds
  <2> HIDE DEF k
  <2>2. CASE k = 0
    BY <1>2, <1>3, <2>2 DEF HandleNewClient, k
  <2>3. CASE k # 0
    <3>1. PICK state \in {"active", "completed"} :
            clients' = [clients EXCEPT ![k] =
                          [state |-> state, session |-> event.id, callback |-> staged]]
      BY <1>3, <2>3 DEF HandleNewClient, k
    <3>2. \A j \in ClientIds : j # k => clients'[j] = clients[j]
      BY <3>1 DEF TypeOK
    <3>3. clients'[k].session = event.id
      BY <2>1, <2>3, <3>1 DEF TypeOK
    <3>4. \A j \in ClientIds : j # k /\ IsActive(clients[j]) => clients[j].session # event.id
      BY <2>1, <2>3 DEF ContextInv
    <3>5. servers' = servers
      BY <1>3 DEF HandleNewClient
    <3>6. \A i, j \in ClientIds : IsActive(clients'[i]) /\ IsActive(clients'[j])
            /\ clients'[i].session = clients'[j].session => i = j
      <4> SUFFICES ASSUME NEW i \in ClientIds, NEW j \in ClientIds,
                          IsActive(clients'[i]), IsActive(clients'[j]),
                          clients'[i].session = clients'[j].session, i # j
                   PROVE  FALSE
        OBVIOUS
      <4>1. CASE i = k
        BY <3>2, <3>3, <3>4, <4>1
      <4>2. CASE j = k
        BY <3>2, <3>3, <3>4, <4>2
      <4>3. CASE i # k /\ j # k
        BY <3>2, <4>3 DEF ContextInv
      <4> QED
        BY <4>1, <4>2, <4>3
    <3> QED
      BY <3>5, <3>6 DEF ContextInv, IsActive
  <2> QED
    BY <2>2, <2>3
<1>4. CASE HandleClientEvent
  <2> DEFINE k == FindActiveTransfer(clients, event.id)
  <2>1. k # 0 => k \in ClientIds
    BY FindActiveTransferPicks, ThreadAssumption DEF TypeOK, ClientIds
  <2> HIDE DEF k
  <2>2. CASE clients' = clients
    BY <1>2, <1>4, <2>2 DEF HandleClientEvent
  <2>3. CASE k # 0 /\ clients' = [clients EXCEPT ![k].state = "completed"]
    <3>1. clients'[k].state = "completed"
      BY <2>1, <2>3 DEF TypeOK, ClientContext
    <3>2. \A i \in ClientIds : i # k => clients'[i] = clients[i]
      BY <2>3 DEF TypeOK
    <3>3. servers' = servers
      BY <1>4 DEF HandleClientEvent
    <3> QED
      BY <1>1, <3>1, <3>2, <3>3 DEF IsActive
  <2> QED
    BY <1>4, <2>2, <2>3 DEF HandleClientEvent, k
<1>5. CASE HandleNewServer
  <2> DEFINE k == FindNewTransfer(servers, event.id)
  <2>1. k # 0 =>
            /\ k \in ServerIds
            /\ IsActive(servers[k]) => servers[k].session = event.id
            /\ ~IsActive(servers[k]) =>
                \A j \in ServerIds : IsActive(servers[j]) => servers[j].session # event.id
    <3>1. DOMAIN servers = 1..MaxServerContexts /\ MaxServerContexts \in Nat
      BY ThreadAssumption DEF TypeOK, ServerIds
    <3> HIDE DEF TypeInv
    <3> QED
      BY <3>1, FindNewTransferPicks, Zenon DEF ServerIds
  <2> HIDE DEF k
  <2>2. CASE servers' = servers
    BY <1>2, <1>5, <2>2 DEF HandleNewServer
  <2>3. CASE k # 0 /\ servers' = [servers EXCEPT ![k] =
                    [state |-> "active", session |-> event.id, handler |-> event.id]]
    <3>2. \A j \in ServerIds : j # k => servers'[j] = servers[j]
      BY <2>3 DEF TypeOK
    <3>3. servers'[k].session = event.id /\ servers'[k].handler = event.id
      BY <2>1, <2>3 DEF TypeOK
    <3>4. \A j \in ServerIds : j # k /\ IsActive(servers[j]) => servers[j].session # event.id
      BY <2>1, <2>3 DEF ContextInv
    <3>5. clients' = clients
      BY <1>5 DEF HandleNewServer
    <3>6. \A i, j \in ServerIds : IsActive(servers'[i]) /\ IsActive(servers'[j])
            /\ servers'[i].session = servers'[j].session => i = j
      <4> SUFFICES ASSUME NEW i \in ServerIds, NEW j \in ServerIds,
                          IsActive(servers'[i]), IsActive(servers'[j]),
                          servers'[i].session = servers'[j].session, i # j
                   PROVE  FALSE
        OBVIOUS
      <4>1. CASE i = k
        BY <3>2, <3>3, <3>4, <4>1
      <4>2. CASE j = k
        BY <3>2, <3>3, <3>4, <4>2
      <4>3. CASE i # k /\ j # k
        BY <3>2, <4>3 DEF ContextInv
      <4> QED
        BY <4>1, <4>2, <4>3
    <3>7. \A i \in ServerIds : IsActive(servers'[i]) => servers'[i].handler = servers'[i].session
      BY <3>2, <3>3 DEF ContextInv
    <3> QED
      BY <3>5, <3>6, <3>7 DEF ContextInv, IsActive
  <2>4. CASE k # 0 /\ servers' = [servers EXCEPT ![k] =
                    [state |-> "completed", session |-> event.id, handler |-> NoHandler]]
    <3>1. servers'[k].state = "completed"
      BY <2>1, <2>4 DEF TypeOK
    <3>2. \A i \in ServerIds : i # k => servers'[i] = servers[i]
      BY <2>4 DEF TypeOK
    <3>3. clients' = clients
      BY <1>5 DEF HandleNewServer
    <3> QED
      BY <1>1, <3>1, <3>2, <3>3 DEF IsActive
  <2> QED
    BY <1>5, <2>2, <2>3, <2>4 DEF HandleNewServer, k
<1>6. CASE HandleServerChunk
  <2> DEFINE k == FindActiveTransfer(servers, event.id)
  <2>1. k # 0 => k \in ServerIds
    BY FindActiveTransferPicks, ThreadAssumption DEF TypeOK, ServerIds
  <2> HIDE DEF k
  <2>2. CASE servers' = servers
    BY <1>2, <1>6, <2>2 DEF HandleServerChunk
  <2>3. CASE k # 0 /\ servers' = [servers EXCEPT ![k] = FinishServer(servers[k])]
    <3>1. servers'[k].state = "completed"
      BY <2>1, <2>3 DEF TypeOK, ServerContext, FinishServer
    <3>2. \A i \in ServerIds : i # k => servers'[i] = servers[i]
      BY <2>3 DEF TypeOK
    <3>3. clients' = clients
      BY <1>6 DEF HandleServerChunk
    <3> QED
      BY <1>1, <3>1, <3>2, <3>3 DEF IsActive
  <2> QED
    BY <1>6, <2>2, <2>3 DEF HandleServerChunk, k
<1>7. CASE HandleRemoveHandler
  <2>1. \A i \in ServerIds : IsActive(servers'[i]) => servers'[i] = servers[i]
    BY <1>7 DEF HandleRemoveHandler, FinishServer, TypeOK, ServerContext, IsActive
  <2>2. clients' = clients
    BY <1>7 DEF HandleRemoveHandler
  <2> QED
    BY <1>1, <2>1, <2>2
<1>8. CASE HandleTimeouts
  <2>1. PICK cs \in SUBSET {i \in ClientIds : IsActive(clients[i])},
             ss \in SUBSET {i \in ServerIds : IsActive(servers[i])} :
            /\ clients' = [i \in ClientIds |->
                 IF i \in cs THEN [clients[i] EXCEPT !.state = "completed"] ELSE clients[i]]
            /\ servers' = [i \in ServerIds |->
                 IF i \in ss THEN FinishServer(servers[i]) ELSE servers[i]]
    BY <1>8, Zenon DEF HandleTimeouts
  <2>2. \A i \in ClientIds : IsActive(clients'[i]) => clients'[i] = clients[i]
    BY <2>1 DEF TypeOK, ClientContext, IsActive
  <2>3. \A i \in ServerIds : IsActive(servers'[i]) => servers'[i] = servers[i]
    BY <2>1 DEF TypeOK, ServerContext, FinishServer, IsActive
  <2> QED
    BY <1>1, <2>2, <2>3
<1> QED
  BY <1>2, <1>3, <1>4, <1>5, <1>6, <1>7, <1>8
  DEF Next, vars, contextVars, Call, Acquire, PostNewClient, PostNewServer, PostSimple,
      PostEvent, WaitAcquire, WaitRelease, Run, TakeEvent, WaitTimesOut, HandleSendStatus,
      HandleAddHandler, ReleaseEvent

\* A session never has two active contexts on the same side, so a restart
\* always lands in the context it restarts.
THEOREM ContextsAreUnique == Spec => []OneActiveContext
<1>1. Init => ContextInv
  BY ContextInvInit
<1>2. TypeInv /\ ContextInv /\ [Next]_vars => ContextInv'
  BY ContextInvStep
<1>3. ContextInv => OneActiveContext
  BY DEF ContextInv, OneActiveContext
<1> QED
  BY <1>1, <1>2, <1>3, TypesHold, PTL DEF Spec

=============================================================================
