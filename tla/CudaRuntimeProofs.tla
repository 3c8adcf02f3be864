-------------------------- MODULE CudaRuntimeProofs --------------------------
(***************************************************************************)
(* The safety of CudaRuntime for any number of calls, contexts, events and *)
(* streams. IInv strengthens the checked invariants until every step       *)
(* preserves it: it adds where the ticket of a call stands at each of its  *)
(* steps, and that whoever can still touch a stream keeps it alive.        *)
(***************************************************************************)
EXTENDS CudaRuntime, TLAPS

(* The device executes only what was issued. *)
StreamInv == \A s \in Streams : finished[s] <= issued[s]

(* A context variable shares a live stream. *)
ContextInv ==
  \A x \in Contexts : context[x] # None => stream[context[x]] = "live"

(* The tickets of a call are commands of its stream, its event is recorded *)
(* after its work, and no two copies are the same command.                 *)
TicketInv ==
  \A c \in Calls :
    /\ target[c] = None => work[c] = 0 /\ mark[c] = 0
    /\ target[c] # None =>
         work[c] <= issued[target[c]] /\ mark[c] <= issued[target[c]]
    /\ mark[c] # 0 => work[c] < mark[c]
    /\ \A d \in Calls :
         work[c] # 0 /\ work[d] = work[c] /\ target[d] = target[c] => d = c

CallInv ==
  \A c \in Calls :
    /\ pc[c] \in Running =>
         /\ via[c] \in Contexts
         /\ context[via[c]] = target[c]
         /\ target[c] # None
    /\ pc[c] \notin {"recorded", "returned"} => mark[c] = 0
    /\ pc[c] = "recorded" => mark[c] # 0
    /\ pc[c] \in {"idle", "createCopyEvent", "createMarkEvent"} =>
         native[c] = "unused" /\ work[c] = 0
    /\ pc[c] \in {"copy", "record", "recorded"} => native[c] = "live"
    /\ pc[c] = "drain" => work[c] <= goal[c]
    /\ pc[c] = "failed" => Done(c)

EventInv ==
  \A e \in Events :
    /\ state[e] # None =>
         /\ pc[state[e]] = "returned"
         /\ mark[state[e]] # 0
         /\ target[state[e]] # None
         /\ stream[target[state[e]]] = "live"
         /\ native[state[e]] = "live"
         /\ complete[e] => Fired(state[e])
    /\ waiting[e] => state[e] # None
    /\ \A d \in Events : state[e] # None /\ state[d] = state[e] => d = e

ReportInv ==
  \A c \in reported :
    /\ pc[c] = "returned"
    /\ mark[c] # 0
    /\ target[c] # None
    /\ Fired(c)

IInv ==
  /\ TypeOK
  /\ StreamInv
  /\ ContextInv
  /\ TicketInv
  /\ CallInv
  /\ EventInv
  /\ ReportInv
  /\ NoEventIsLost


-----------------------------------------------------------------------------
(* The two helpers every destructor goes through. *)

(* A stream lives on exactly when somebody still holds it. *)
LEMMA ReleaseFacts ==
  ASSUME stream \in [Streams -> Lives], ReleaseStreams
  PROVE  /\ stream' \in [Streams -> Lives]
         /\ \A s \in Streams :
              stream'[s] = "live" <=> stream[s] = "live" /\ Held(s)'
  <1>1. PICK fate \in Fates :
          stream' = [s \in Streams |->
                       IF stream[s] = "live" /\ ~Held(s)' THEN fate ELSE stream[s]]
    BY DEF ReleaseStreams
  <1>2. QED
    BY <1>1 DEF Fates, Lives

(* Destroying a completion state changes its own native event only. *)
LEMMA DestroyFacts ==
  ASSUME native \in [Calls -> Lives], NEW c \in Calls \cup {None},
         DestroyCompletion(c)
  PROVE  /\ native' \in [Calls -> Lives]
         /\ \A d \in Calls : IF d = c THEN native'[d] # "live"
                             ELSE native'[d] = native[d]
  <1>1. PICK fate \in Fates :
          native' = IF c = None THEN native ELSE [native EXCEPT ![c] = fate]
    BY DEF DestroyCompletion
  <1>2. QED
    BY <1>1, RuntimeAssumption DEF Fates, Lives

-----------------------------------------------------------------------------
(* The drains and the tickets need the stream of a running call. *)
LEMMA TypeStep ==
  ASSUME TypeOK, CallInv, [Next]_vars
  PROVE  TypeOK'
  <1> USE DEF TypeOK, streamVars, callVars, eventVars
  <1>1. CASE ContextNext
    <2>1. ASSUME NEW x \in Contexts, NEW s \in Streams, CreateContext(x, s)
          PROVE  TypeOK'
      BY <2>1 DEF CreateContext, Lives
    <2>2. ASSUME NEW x \in Contexts, NEW y \in Contexts,
                 CopyContext(x, y) \/ MoveContext(x, y) \/ DropContext(x)
          PROVE  TypeOK'
      BY <2>2, ReleaseFacts DEF CopyContext, MoveContext, DropContext
    <2>3. QED
      BY <1>1, <2>1, <2>2 DEF ContextNext
  <1>2. CASE CallNext
    <2> SUFFICES ASSUME NEW c \in Calls,
                        \/ Reject(c) \/ Advance(c)
                        \/ \E e \in Events : CopyNothing(c, e)
                        \/ \E x \in Contexts : Begin(c, x)
                 PROVE  TypeOK'
      BY <1>2 DEF CallNext
    <2> USE DEF Goto, Drain, Issue, NextTicket, Steps
    <2>0. pc[c] \in Running => target[c] \in Streams
      BY DEF CallInv
    <2>1. CASE Reject(c)
      BY <2>1 DEF Reject
    <2>2. ASSUME NEW x \in Contexts, Begin(c, x) PROVE TypeOK'
      BY <2>2 DEF Begin
    <2>3. CASE CreateEvent(c)
      BY <2>3 DEF CreateEvent, Lives
    <2>4. CASE CreateEventFails(c)
      BY <2>0, <2>4 DEF CreateEventFails, Running
    <2>5. CASE EnqueueCopy(c)
      BY <2>0, <2>5 DEF EnqueueCopy, Running
    <2>6. CASE EnqueueCopyFails(c)
      BY <2>0, <2>6 DEF EnqueueCopyFails, Running
    <2>7. CASE Record(c)
      BY <2>0, <2>7 DEF Record, Running
    <2>8. CASE RecordFails(c)
      BY <2>0, <2>8 DEF RecordFails, Running
    <2>9. CASE Drained(c)
      BY <2>9 DEF Drained, Lives
    <2>10. ASSUME NEW e \in Events, Return(c, e) \/ CopyNothing(c, e)
           PROVE  TypeOK'
      <3>1. native' \in [Calls -> Lives] /\ stream' \in [Streams -> Lives]
        BY <2>10, ReleaseFacts, DestroyFacts DEF Return, CopyNothing, SetEvent
      <3>2. CASE Return(c, e)
        BY <3>1, <3>2 DEF Return, SetEvent
      <3>3. CASE CopyNothing(c, e)
        BY <3>1, <3>3 DEF CopyNothing, SetEvent
      <3>4. QED
        BY <2>10, <3>2, <3>3
    <2>11. CASE Discard(c)
      BY <2>11, ReleaseFacts, DestroyFacts DEF Discard
    <2>12. QED
      BY <2>1, <2>2, <2>3, <2>4, <2>5, <2>6, <2>7, <2>8, <2>9, <2>10, <2>11
      DEF Advance
  <1>3. CASE EventNext
    <2> SUFFICES ASSUME NEW e \in Events,
                        \/ \E d \in Events : MoveEvent(d, e)
                        \/ DestroyEvent(e)
                        \/ Query(e) \/ Wait(e) \/ WaitSucceeds(e) \/ WaitFails(e)
                 PROVE  TypeOK'
      BY <1>3 DEF EventNext
    <2>1. ASSUME NEW d \in Events, MoveEvent(d, e) PROVE TypeOK'
      BY <2>1, ReleaseFacts, DestroyFacts DEF MoveEvent
    <2>2. CASE DestroyEvent(e)
      BY <2>2, ReleaseFacts, DestroyFacts DEF DestroyEvent, SetEvent
    <2>3. CASE Query(e) \/ WaitSucceeds(e)
      BY <2>3 DEF Query, WaitSucceeds, Tell
    <2>4. CASE Wait(e) \/ WaitFails(e)
      BY <2>4 DEF Wait, WaitFails
    <2>5. QED
      BY <2>1, <2>2, <2>3, <2>4
  <1>4. ASSUME NEW s \in Streams, Execute(s) PROVE TypeOK'
    BY <1>4 DEF Execute
  <1>5. CASE UNCHANGED vars
    BY <1>5 DEF vars
  <1>6. QED
    BY <1>1, <1>2, <1>3, <1>4, <1>5 DEF Next

(* Creating, copying, moving and dropping contexts. *)
LEMMA ContextStep ==
  ASSUME IInv, TypeOK', ContextNext
  PROVE  IInv'
  <1> USE DEF IInv, TypeOK, streamVars, callVars, eventVars
  <1>1. ASSUME NEW x \in Contexts, NEW s \in Streams, CreateContext(x, s)
        PROVE  IInv'
    <2> USE <1>1
    <2>1. StreamInv' /\ TicketInv' /\ ReportInv' /\ NoEventIsLost'
      BY DEF StreamInv, TicketInv, ReportInv, NoEventIsLost, Fired, Running,
         CreateContext
    <2>2. ContextInv'
      BY RuntimeAssumption DEF ContextInv, CallInv, CreateContext
    <2>3. CallInv'
      BY RuntimeAssumption DEF CallInv, TicketInv, Done, Running,
         CreateContext
    <2>4. EventInv'
      BY RuntimeAssumption DEF EventInv, CallInv, ContextInv, Fired, Running,
         CreateContext
    <2>5. QED
      BY <2>1, <2>2, <2>3, <2>4 DEF IInv
  <1>2. ASSUME NEW x \in Contexts, NEW y \in Contexts, CopyContext(x, y)
        PROVE  IInv'
    <2> USE <1>2
    <2>1. StreamInv' /\ TicketInv' /\ ReportInv' /\ NoEventIsLost'
      BY DEF StreamInv, TicketInv, ReportInv, NoEventIsLost, Fired, Running,
         CopyContext
    <2>2. ContextInv'
      BY RuntimeAssumption, ReleaseFacts DEF ContextInv, CallInv, Held,
         HoldsCompletion, CopyContext
    <2>3. CallInv'
      BY RuntimeAssumption DEF CallInv, TicketInv, Done, Running, InUse,
         CopyContext
    <2>4. EventInv'
      BY RuntimeAssumption, ReleaseFacts DEF EventInv, CallInv, ContextInv,
         Fired, Running, Held, HoldsCompletion, CopyContext
    <2>5. QED
      BY <2>1, <2>2, <2>3, <2>4 DEF IInv
  <1>3. ASSUME NEW x \in Contexts, NEW y \in Contexts, MoveContext(x, y)
        PROVE  IInv'
    <2> USE <1>3
    <2>1. StreamInv' /\ TicketInv' /\ ReportInv' /\ NoEventIsLost'
      BY DEF StreamInv, TicketInv, ReportInv, NoEventIsLost, Fired, Running,
         MoveContext
    <2>2. ContextInv'
      BY RuntimeAssumption, ReleaseFacts DEF ContextInv, CallInv, Held,
         HoldsCompletion, MoveContext
    <2>3. CallInv'
      BY RuntimeAssumption DEF CallInv, TicketInv, Done, Running, InUse,
         MoveContext
    <2>4. EventInv'
      BY RuntimeAssumption, ReleaseFacts DEF EventInv, CallInv, ContextInv,
         Fired, Running, Held, HoldsCompletion, MoveContext
    <2>5. QED
      BY <2>1, <2>2, <2>3, <2>4 DEF IInv
  <1>4. ASSUME NEW x \in Contexts, DropContext(x)
        PROVE  IInv'
    <2> USE <1>4
    <2>1. StreamInv' /\ TicketInv' /\ ReportInv' /\ NoEventIsLost'
      BY DEF StreamInv, TicketInv, ReportInv, NoEventIsLost, Fired, Running,
         DropContext
    <2>2. ContextInv'
      BY RuntimeAssumption, ReleaseFacts DEF ContextInv, CallInv, Held,
         HoldsCompletion, DropContext
    <2>3. CallInv'
      BY RuntimeAssumption DEF CallInv, TicketInv, Done, Running, InUse,
         DropContext
    <2>4. EventInv'
      BY RuntimeAssumption, ReleaseFacts DEF EventInv, CallInv, ContextInv,
         Fired, Running, Held, HoldsCompletion, DropContext
    <2>5. QED
      BY <2>1, <2>2, <2>3, <2>4 DEF IInv
  <1>5. QED
    BY <1>1, <1>2, <1>3, <1>4 DEF ContextNext

(* The steps of the calls. *)
LEMMA CallStep ==
  ASSUME IInv, TypeOK', CallNext
  PROVE  IInv'
  <1> SUFFICES ASSUME NEW c \in Calls,
                      \/ Reject(c) \/ Advance(c)
                      \/ \E e \in Events : CopyNothing(c, e)
                      \/ \E x \in Contexts : Begin(c, x)
               PROVE  IInv'
    BY DEF CallNext
  <1> USE DEF IInv, TypeOK, streamVars, callVars, eventVars
  <1>1. CASE Reject(c)
    <2> USE <1>1
    <2>1. StreamInv' /\ ContextInv' /\ TicketInv'
      BY DEF StreamInv, ContextInv, TicketInv, Reject, Goto
    <2>2. CallInv'
      BY RuntimeAssumption DEF CallInv, TicketInv, Done, Running, Goto, Reject
    <2>3. EventInv'
      BY RuntimeAssumption DEF EventInv, CallInv, ContextInv, Fired, Running,
         Goto, Reject
    <2>4. ReportInv'
      BY RuntimeAssumption DEF ReportInv, EventInv, TicketInv, Fired, Running,
         Goto, Reject
    <2>5. NoEventIsLost'
      BY DEF NoEventIsLost, CallInv, EventInv, Running, Goto, Reject
    <2>6. QED
      BY <2>1, <2>2, <2>3, <2>4, <2>5 DEF IInv
  <1>2. ASSUME NEW x \in Contexts, Begin(c, x)
        PROVE  IInv'
    <2> USE <1>2
    <2>1. StreamInv' /\ ContextInv'
      BY DEF StreamInv, ContextInv, Begin
    <2>2. TicketInv'
      BY DEF TicketInv, CallInv, Running, Begin
    <2>3. CallInv'
      BY RuntimeAssumption DEF CallInv, TicketInv, Done, Running, Begin
    <2>4. EventInv'
      BY RuntimeAssumption DEF EventInv, CallInv, ContextInv, Fired, Running,
         Begin
    <2>5. ReportInv'
      BY RuntimeAssumption DEF ReportInv, EventInv, TicketInv, Fired, Running,
         Begin
    <2>6. NoEventIsLost'
      BY DEF NoEventIsLost, CallInv, EventInv, Running, Begin
    <2>7. QED
      BY <2>1, <2>2, <2>3, <2>4, <2>5, <2>6 DEF IInv
  <1>3. CASE CreateEvent(c)
    <2> USE <1>3
    <2>1. StreamInv' /\ ContextInv' /\ TicketInv'
      BY DEF StreamInv, ContextInv, TicketInv, CreateEvent, Goto
    <2>2. CallInv'
      BY RuntimeAssumption DEF CallInv, TicketInv, Done, Running, Goto,
         CreateEvent
    <2>3. EventInv'
      BY RuntimeAssumption DEF EventInv, CallInv, ContextInv, Fired, Running,
         Goto, CreateEvent
    <2>4. ReportInv'
      BY RuntimeAssumption DEF ReportInv, EventInv, TicketInv, Fired, Running,
         Goto, CreateEvent
    <2>5. NoEventIsLost'
      BY DEF NoEventIsLost, CallInv, EventInv, Running, Goto, CreateEvent
    <2>6. QED
      BY <2>1, <2>2, <2>3, <2>4, <2>5 DEF IInv
  <1>4. CASE CreateEventFails(c)
    <2> USE <1>4
    <2>1. StreamInv' /\ ContextInv' /\ TicketInv'
      BY DEF StreamInv, ContextInv, TicketInv, CreateEventFails, Goto, Drain
    <2>2. CallInv'
      BY RuntimeAssumption DEF CallInv, TicketInv, Done, Running, Goto, Drain,
         CreateEventFails
    <2>3. EventInv'
      BY RuntimeAssumption DEF EventInv, CallInv, ContextInv, Fired, Running,
         Goto, Drain, CreateEventFails
    <2>4. ReportInv'
      BY RuntimeAssumption DEF ReportInv, EventInv, TicketInv, Fired, Running,
         Goto, Drain, CreateEventFails
    <2>5. NoEventIsLost'
      BY DEF NoEventIsLost, CallInv, EventInv, Running, Goto, Drain,
         CreateEventFails
    <2>6. QED
      BY <2>1, <2>2, <2>3, <2>4, <2>5 DEF IInv
  <1>5. CASE EnqueueCopy(c)
    <2> USE <1>5
    <2>1. ContextInv'
      BY DEF ContextInv, EnqueueCopy, Goto
    <2>2. StreamInv'
      BY DEF StreamInv, Goto, Issue, NextTicket, EnqueueCopy
    <2>3. TicketInv'
      BY DEF TicketInv, CallInv, Running, Goto, Issue, NextTicket, EnqueueCopy
    <2>4. CallInv'
      BY RuntimeAssumption DEF CallInv, TicketInv, Done, Running, Goto, Issue,
         NextTicket, EnqueueCopy
    <2>5. EventInv'
      BY RuntimeAssumption DEF EventInv, CallInv, ContextInv, Fired, Running,
         Goto, Issue, NextTicket, EnqueueCopy
    <2>6. ReportInv'
      BY RuntimeAssumption DEF ReportInv, EventInv, TicketInv, Fired, Running,
         Goto, Issue, NextTicket, EnqueueCopy
    <2>7. NoEventIsLost'
      BY DEF NoEventIsLost, CallInv, EventInv, Running, Goto, Issue,
         NextTicket, EnqueueCopy
    <2>8. QED
      BY <2>1, <2>2, <2>3, <2>4, <2>5, <2>6, <2>7 DEF IInv
  <1>6. CASE EnqueueCopyFails(c)
    <2> USE <1>6
    <2>1. StreamInv' /\ ContextInv' /\ TicketInv'
      BY DEF StreamInv, ContextInv, TicketInv, EnqueueCopyFails, Goto, Drain
    <2>2. CallInv'
      BY RuntimeAssumption DEF CallInv, TicketInv, Done, Running, Goto, Drain,
         EnqueueCopyFails
    <2>3. EventInv'
      BY RuntimeAssumption DEF EventInv, CallInv, ContextInv, Fired, Running,
         Goto, Drain, EnqueueCopyFails
    <2>4. ReportInv'
      BY RuntimeAssumption DEF ReportInv, EventInv, TicketInv, Fired, Running,
         Goto, Drain, EnqueueCopyFails
    <2>5. NoEventIsLost'
      BY DEF NoEventIsLost, CallInv, EventInv, Running, Goto, Drain,
         EnqueueCopyFails
    <2>6. QED
      BY <2>1, <2>2, <2>3, <2>4, <2>5 DEF IInv
  <1>7. CASE Record(c)
    <2> USE <1>7
    <2>1. ContextInv'
      BY DEF ContextInv, Record, Goto
    <2>2. StreamInv'
      BY DEF StreamInv, Goto, Issue, NextTicket, Record
    <2>3. TicketInv'
      BY DEF TicketInv, CallInv, Running, Goto, Issue, NextTicket, Record
    <2>4. CallInv'
      BY RuntimeAssumption DEF CallInv, TicketInv, Done, Running, Goto, Issue,
         NextTicket, Record
    <2>5. EventInv'
      BY RuntimeAssumption DEF EventInv, CallInv, ContextInv, Fired, Running,
         Goto, Issue, NextTicket, Record
    <2>6. ReportInv'
      BY RuntimeAssumption DEF ReportInv, EventInv, TicketInv, Fired, Running,
         Goto, Issue, NextTicket, Record
    <2>7. NoEventIsLost'
      BY DEF NoEventIsLost, CallInv, EventInv, Running, Goto, Issue,
         NextTicket, Record
    <2>8. QED
      BY <2>1, <2>2, <2>3, <2>4, <2>5, <2>6, <2>7 DEF IInv
  <1>8. CASE RecordFails(c)
    <2> USE <1>8
    <2>1. StreamInv' /\ ContextInv' /\ TicketInv'
      BY DEF StreamInv, ContextInv, TicketInv, RecordFails, Goto, Drain
    <2>2. CallInv'
      BY RuntimeAssumption DEF CallInv, TicketInv, Done, Running, Goto, Drain,
         RecordFails
    <2>3. EventInv'
      BY RuntimeAssumption DEF EventInv, CallInv, ContextInv, Fired, Running,
         Goto, Drain, RecordFails
    <2>4. ReportInv'
      BY RuntimeAssumption DEF ReportInv, EventInv, TicketInv, Fired, Running,
         Goto, Drain, RecordFails
    <2>5. NoEventIsLost'
      BY DEF NoEventIsLost, CallInv, EventInv, Running, Goto, Drain,
         RecordFails
    <2>6. QED
      BY <2>1, <2>2, <2>3, <2>4, <2>5 DEF IInv
  <1>9. CASE Drained(c)
    <2> USE <1>9
    <2>1. StreamInv' /\ ContextInv' /\ TicketInv'
      BY DEF StreamInv, ContextInv, TicketInv, Drained, Goto
    <2>2. CallInv'
      BY RuntimeAssumption DEF CallInv, TicketInv, Done, Running, Goto, Ran,
         Drained
    <2>3. EventInv'
      BY RuntimeAssumption DEF EventInv, CallInv, ContextInv, Fired, Running,
         Goto, Ran, Drained
    <2>4. ReportInv'
      BY RuntimeAssumption DEF ReportInv, EventInv, TicketInv, Fired, Running,
         Goto, Ran, Drained
    <2>5. NoEventIsLost'
      BY DEF NoEventIsLost, CallInv, EventInv, Running, Goto, Ran, Drained
    <2>6. QED
      BY <2>1, <2>2, <2>3, <2>4, <2>5 DEF IInv
  <1>10. ASSUME NEW e \in Events, CopyNothing(c, e)
        PROVE  IInv'
    <2> USE <1>10
    <2>1. StreamInv' /\ TicketInv'
      BY DEF StreamInv, TicketInv, CopyNothing, Goto, SetEvent
    <2>2. ContextInv'
      BY RuntimeAssumption, ReleaseFacts DEF ContextInv, CallInv, Held,
         HoldsCompletion, Goto, SetEvent, CopyNothing
    <2>3. CallInv'
      BY RuntimeAssumption, DestroyFacts DEF CallInv, EventInv, TicketInv,
         Done, Running, Goto, SetEvent, CopyNothing
    <2>4. EventInv'
      BY RuntimeAssumption, ReleaseFacts, DestroyFacts DEF EventInv, CallInv,
         ContextInv, Fired, Running, Held, HoldsCompletion, Goto, SetEvent,
         CopyNothing
    <2>5. ReportInv'
      BY RuntimeAssumption DEF ReportInv, EventInv, TicketInv, Fired, Running,
         Goto, SetEvent, CopyNothing
    <2>6. NoEventIsLost'
      BY DestroyFacts DEF NoEventIsLost, CallInv, EventInv, Running, Goto,
         SetEvent, CopyNothing
    <2>7. QED
      BY <2>1, <2>2, <2>3, <2>4, <2>5, <2>6 DEF IInv
  <1>11. ASSUME NEW e \in Events, Return(c, e)
        PROVE  IInv'
    <2> USE <1>11
    <2>1. StreamInv' /\ TicketInv'
      BY DEF StreamInv, TicketInv, Return, Goto, SetEvent
    <2>2. ContextInv'
      BY RuntimeAssumption, ReleaseFacts DEF ContextInv, CallInv, Held,
         HoldsCompletion, Goto, SetEvent, Return
    <2>3. CallInv'
      BY RuntimeAssumption, DestroyFacts DEF CallInv, EventInv, TicketInv,
         Done, Running, Goto, SetEvent, Return
    <2>4. EventInv'
      BY RuntimeAssumption, ReleaseFacts, DestroyFacts DEF EventInv, CallInv,
         ContextInv, Fired, Running, Held, HoldsCompletion, Goto, SetEvent,
         Return
    <2>5. ReportInv'
      BY RuntimeAssumption DEF ReportInv, EventInv, TicketInv, Fired, Running,
         Goto, SetEvent, Return
    <2>6. NoEventIsLost'
      BY DestroyFacts DEF NoEventIsLost, CallInv, EventInv, Running, Goto,
         SetEvent, Return
    <2>7. QED
      BY <2>1, <2>2, <2>3, <2>4, <2>5, <2>6 DEF IInv
  <1>12. CASE Discard(c)
    <2> USE <1>12
    <2>1. StreamInv' /\ TicketInv'
      BY DEF StreamInv, TicketInv, Discard, Goto
    <2>2. ContextInv'
      BY RuntimeAssumption, ReleaseFacts DEF ContextInv, CallInv, Held,
         HoldsCompletion, Goto, Discard
    <2>3. CallInv'
      BY RuntimeAssumption, DestroyFacts DEF CallInv, TicketInv, Done,
         Running, Goto, Discard
    <2>4. EventInv'
      BY RuntimeAssumption, ReleaseFacts, DestroyFacts DEF EventInv, CallInv,
         ContextInv, Fired, Running, Held, HoldsCompletion, Goto, Discard
    <2>5. ReportInv'
      BY RuntimeAssumption DEF ReportInv, EventInv, TicketInv, Fired, Running,
         Goto, Discard
    <2>6. NoEventIsLost'
      BY DestroyFacts DEF NoEventIsLost, CallInv, EventInv, Running, Goto,
         Discard
    <2>7. QED
      BY <2>1, <2>2, <2>3, <2>4, <2>5, <2>6 DEF IInv
  <1>13. QED
    BY <1>1, <1>2, <1>3, <1>4, <1>5, <1>6, <1>7, <1>8, <1>9, <1>10, <1>11,
       <1>12 DEF Advance

(* The event objects. *)
LEMMA EventStep ==
  ASSUME IInv, TypeOK', EventNext
  PROVE  IInv'
  <1> SUFFICES ASSUME NEW e \in Events,
                      \/ \E d \in Events : MoveEvent(d, e)
                      \/ DestroyEvent(e)
                      \/ Query(e) \/ Wait(e) \/ WaitSucceeds(e) \/ WaitFails(e)
               PROVE  IInv'
    BY DEF EventNext
  <1> USE DEF IInv, TypeOK, streamVars, callVars, eventVars
  <1>1. ASSUME NEW d \in Events, MoveEvent(d, e)
        PROVE  IInv'
    <2> USE <1>1
    <2>1. StreamInv' /\ TicketInv' /\ ReportInv'
      BY DEF StreamInv, TicketInv, ReportInv, Fired, MoveEvent
    <2>2. ContextInv'
      BY RuntimeAssumption, ReleaseFacts DEF ContextInv, CallInv, Held,
         HoldsCompletion, MoveEvent
    <2>3. CallInv'
      BY RuntimeAssumption, DestroyFacts DEF CallInv, EventInv, TicketInv,
         Done, Running, MoveEvent
    <2>4. EventInv'
      BY RuntimeAssumption, ReleaseFacts, DestroyFacts DEF EventInv, CallInv,
         ContextInv, Fired, Running, Held, HoldsCompletion, MoveEvent
    <2>5. NoEventIsLost'
      BY DestroyFacts DEF NoEventIsLost, CallInv, EventInv, Running, MoveEvent
    <2>6. QED
      BY <2>1, <2>2, <2>3, <2>4, <2>5 DEF IInv
  <1>2. CASE DestroyEvent(e)
    <2> USE <1>2
    <2>1. StreamInv' /\ TicketInv' /\ ReportInv'
      BY DEF StreamInv, TicketInv, ReportInv, Fired, DestroyEvent, SetEvent
    <2>2. ContextInv'
      BY RuntimeAssumption, ReleaseFacts DEF ContextInv, CallInv, Held,
         HoldsCompletion, SetEvent, DestroyEvent
    <2>3. CallInv'
      BY RuntimeAssumption, DestroyFacts DEF CallInv, EventInv, TicketInv,
         Done, Running, SetEvent, DestroyEvent
    <2>4. EventInv'
      BY RuntimeAssumption, ReleaseFacts, DestroyFacts DEF EventInv, CallInv,
         ContextInv, Fired, Running, Held, HoldsCompletion, SetEvent,
         DestroyEvent
    <2>5. NoEventIsLost'
      BY DestroyFacts DEF NoEventIsLost, CallInv, EventInv, Running, SetEvent,
         DestroyEvent
    <2>6. QED
      BY <2>1, <2>2, <2>3, <2>4, <2>5 DEF IInv
  <1>3. CASE Query(e)
    <2> USE <1>3
    <2>1. StreamInv' /\ ContextInv' /\ TicketInv' /\ CallInv' /\ NoEventIsLost'
      BY DEF StreamInv, ContextInv, TicketInv, CallInv, NoEventIsLost, Done,
         Running, Query
    <2>2. EventInv'
      BY RuntimeAssumption DEF EventInv, CallInv, ContextInv, Fired, Running,
         Tell, Query
    <2>3. ReportInv'
      BY RuntimeAssumption DEF ReportInv, EventInv, TicketInv, Fired, Running,
         Tell, Query
    <2>4. QED
      BY <2>1, <2>2, <2>3 DEF IInv
  <1>4. CASE Wait(e)
    <2> USE <1>4
    <2>1. /\ StreamInv' /\ ContextInv' /\ TicketInv' /\ CallInv'
          /\ ReportInv' /\ NoEventIsLost'
      BY DEF StreamInv, ContextInv, TicketInv, CallInv, ReportInv,
         NoEventIsLost, Done, Fired, Running, Wait
    <2>2. EventInv'
      BY RuntimeAssumption DEF EventInv, CallInv, ContextInv, Fired, Running,
         Wait
    <2>3. QED
      BY <2>1, <2>2 DEF IInv
  <1>5. CASE WaitSucceeds(e)
    <2> USE <1>5
    <2>1. StreamInv' /\ ContextInv' /\ TicketInv' /\ CallInv' /\ NoEventIsLost'
      BY DEF StreamInv, ContextInv, TicketInv, CallInv, NoEventIsLost, Done,
         Running, WaitSucceeds
    <2>2. EventInv'
      BY RuntimeAssumption DEF EventInv, CallInv, ContextInv, Fired, Running,
         Tell, WaitSucceeds
    <2>3. ReportInv'
      BY RuntimeAssumption DEF ReportInv, EventInv, TicketInv, Fired, Running,
         Tell, WaitSucceeds
    <2>4. QED
      BY <2>1, <2>2, <2>3 DEF IInv
  <1>6. CASE WaitFails(e)
    <2> USE <1>6
    <2>1. /\ StreamInv' /\ ContextInv' /\ TicketInv' /\ CallInv'
          /\ ReportInv' /\ NoEventIsLost'
      BY DEF StreamInv, ContextInv, TicketInv, CallInv, ReportInv,
         NoEventIsLost, Done, Fired, Running, WaitFails
    <2>2. EventInv'
      BY RuntimeAssumption DEF EventInv, CallInv, ContextInv, Fired, Running,
         WaitFails
    <2>3. QED
      BY <2>1, <2>2 DEF IInv
  <1>7. QED
    BY <1>1, <1>2, <1>3, <1>4, <1>5, <1>6

(* The device. *)
LEMMA DeviceStep ==
  ASSUME IInv, TypeOK', NEW s \in Streams, Execute(s)
  PROVE  IInv'
  <1> USE DEF IInv, TypeOK, streamVars, callVars, eventVars, Execute
  <1>1. ContextInv' /\ TicketInv' /\ NoEventIsLost'
    BY DEF ContextInv, TicketInv, NoEventIsLost, Running
  <1>2. StreamInv'
    BY DEF StreamInv
  <1>3. \A c \in Calls : target[c] # None =>
          finished[target[c]] <= finished'[target[c]]
    BY DEF StreamInv
  <1>4. CallInv'
    BY <1>3 DEF CallInv, TicketInv, Done, Running
  <1>5. EventInv'
    BY <1>3 DEF EventInv, Fired
  <1>6. ReportInv'
    BY <1>3 DEF ReportInv, Fired
  <1>7. QED
    BY <1>1, <1>2, <1>4, <1>5, <1>6

(* Every step preserves the strengthened invariant. *)
LEMMA Step == IInv /\ [Next]_vars => IInv'
  <1> SUFFICES ASSUME IInv, [Next]_vars PROVE IInv'
    OBVIOUS
  <1>1. TypeOK'
    BY TypeStep DEF IInv
  <1>2. CASE UNCHANGED vars
    BY <1>2 DEF vars, streamVars, callVars, eventVars, IInv, TypeOK, StreamInv,
       ContextInv, TicketInv, CallInv, EventInv, ReportInv, NoEventIsLost, Done,
       Fired, Running
  <1>3. QED
    BY <1>1, <1>2, ContextStep, CallStep, EventStep, DeviceStep DEF Next

-----------------------------------------------------------------------------
(* The strengthened invariant holds in every reachable state: tickets,     *)
(* ownership and lifetimes agree at every step of every call.              *)
THEOREM Invariance == Spec => []IInv
  <1>1. Init => IInv
    BY DEF Init, IInv, TypeOK, Steps, Lives, StreamInv, ContextInv, TicketInv,
       CallInv, EventInv, ReportInv, NoEventIsLost, Running
  <1>2. QED
    BY <1>1, Step, PTL DEF Spec

(* Every variable of the runtime keeps its type. *)
THEOREM TypeCorrect == Spec => []TypeOK
  <1>1. IInv => TypeOK
    BY DEF IInv
  <1>2. QED
    BY <1>1, Invariance, PTL

(* A copy that returned a failure has nothing left on the stream.          *)
THEOREM FailureSafe == Spec => []FailedCallLeavesNothing
  <1>1. IInv => FailedCallLeavesNothing
    BY DEF IInv, CallInv, FailedCallLeavesNothing
  <1>2. QED
    BY <1>1, Invariance, PTL

(* A completion that was reported covers the call's own copy and all the   *)
(* copies enqueued before its event: the mark has been reached, and every  *)
(* ticket up to the mark with it.                                          *)
THEOREM CompletionSound == Spec => []ReportedCallIsDone
  <1>1. ASSUME IInv PROVE ReportedCallIsDone
    <2> SUFFICES ASSUME NEW c \in reported, NEW d \in Calls,
                        target[d] = target[c], work[d] <= mark[c]
                 PROVE  Done(c) /\ Done(d)
      <3>1. reported \in SUBSET Calls
        BY <1>1 DEF IInv, TypeOK
      <3>2. \A c \in reported : work[c] <= mark[c]
        BY <1>1, <3>1 DEF IInv, TypeOK, ReportInv, TicketInv
      <3>3. QED
        BY <3>1, <3>2 DEF ReportedCallIsDone
    <2>1. c \in Calls /\ target[c] \in Streams /\ Fired(c) /\ work[c] <= mark[c]
      BY <1>1 DEF IInv, TypeOK, ReportInv, TicketInv
    <2>2. QED
      BY <1>1, <2>1 DEF IInv, TypeOK, Fired, Done
  <1>2. QED
    BY <1>1, Invariance, PTL

(* The native event and the stream behind an event object exist, and no    *)
(* other object holds that native event.                                   *)
THEOREM HandlesLive == Spec => []EventsOwnLiveHandles
  <1>1. IInv => EventsOwnLiveHandles
    BY DEF IInv, EventInv, EventsOwnLiveHandles
  <1>2. QED
    BY <1>1, Invariance, PTL

(* Every native event that exists has an owner. *)
THEOREM NoLoss == Spec => []NoEventIsLost
  <1>1. IInv => NoEventIsLost
    BY DEF IInv
  <1>2. QED
    BY <1>1, Invariance, PTL

(* A stream dies only when no native event recorded on it is left: who     *)
(* owns such an event holds the stream.                                    *)
THEOREM StreamsOutliveEvents == Spec => StreamOutlivesItsEvents
  <1> DEFINE Kept ==
        \A s \in Streams : stream[s] = "live" /\ stream'[s] # "live" =>
          \A c \in Calls : target[c] = s => native'[c] # "live"
  <1>1. ASSUME IInv, IInv', Next PROVE Kept
    <2>1. stream' = stream \/ target' = target
      BY <1>1 DEF Next, ContextNext, CallNext, EventNext, Advance, CreateContext,
         CopyContext, MoveContext, DropContext, Reject, Begin, CreateEvent,
         CreateEventFails, EnqueueCopy, EnqueueCopyFails, Record, RecordFails,
         Drained, CopyNothing, Return, Discard, MoveEvent, DestroyEvent, Query,
         Wait, WaitSucceeds, WaitFails, Execute, callVars
    <2>2. ASSUME NEW s \in Streams, NEW c \in Calls, target'[c] = s,
                 native'[c] = "live"
          PROVE  stream'[s] = "live"
      <3>1. CASE pc'[c] \in Running
        BY <1>1, <2>2, <3>1, RuntimeAssumption
        DEF IInv, TypeOK, CallInv, ContextInv
      <3>2. CASE \E e \in Events : state'[e] = c
        BY <1>1, <2>2, <3>2, RuntimeAssumption DEF IInv, EventInv
      <3>3. QED
        BY <1>1, <2>2, <3>1, <3>2 DEF IInv, NoEventIsLost
    <2>3. QED
      BY <2>1, <2>2
  <1>2. ASSUME UNCHANGED vars PROVE Kept
    BY <1>2 DEF vars
  <1>3. QED
    BY <1>1, <1>2, Invariance, PTL DEF Spec, StreamOutlivesItsEvents

-----------------------------------------------------------------------------
(* The refinement. A step changes what one caller knows of its call, or    *)
(* what one call has pending, as a step of AsyncCall does, or neither.     *)

(* Initially no call of the abstract system has begun. *)
LEMMA AsyncInit == Init => Async!Init
  BY DEF Init, Async!Init, Phase, PhaseOf, Pending, Done, Running

(* The pending calls change only where work, target or finished does. *)
LEMMA SamePending ==
  UNCHANGED <<work, target, finished>> => Pending' = Pending
  BY DEF Pending, Done

(* What callers know of the calls depends on these variables only.         *)
LEMMA SamePhase == UNCHANGED <<pc, reported>> => Phase' = Phase
  BY DEF Phase, PhaseOf

(* What a caller knows follows from where its call is. *)
LEMMA PhaseFacts ==
  ASSUME TypeOK, NEW c \in Calls
  PROVE  /\ pc[c] = "idle" => Phase[c] = "idle"
         /\ pc[c] \in Running => Phase[c] = "running"
         /\ pc[c] = "returned" /\ c \notin reported => Phase[c] = "returned"
  BY DEF TypeOK, Phase, PhaseOf, Running, Steps

(* A step of call c changes what callers know of c alone.                  *)
LEMMA PhaseMoves ==
  ASSUME TypeOK, NEW c \in Calls, c \notin reported, NEW p \in Steps,
         pc' = [pc EXCEPT ![c] = p], reported' = reported
  PROVE  /\ p = "failed" => Phase' = [Phase EXCEPT ![c] = "failed"]
         /\ p \in Running => Phase' = [Phase EXCEPT ![c] = "running"]
         /\ p = "returned" => Phase' = [Phase EXCEPT ![c] = "returned"]
  <1>1. ASSUME NEW d \in Calls, d # c PROVE Phase'[d] = Phase[d]
    BY <1>1 DEF TypeOK, Phase, PhaseOf
  <1>2. /\ p = "failed" => Phase'[c] = "failed"
        /\ p \in Running => Phase'[c] = "running"
        /\ p = "returned" => Phase'[c] = "returned"
    BY DEF TypeOK, Phase, PhaseOf, Running, Steps
  <1>3. QED
    BY <1>1, <1>2 DEF Phase

(* A call that runs on shows its caller nothing. *)
LEMMA Unseen ==
  ASSUME TypeOK, NEW c \in Calls, pc[c] \in Running, NEW p \in Running,
         pc' = [pc EXCEPT ![c] = p], reported' = reported
  PROVE  Phase' = Phase
  BY DEF TypeOK, Phase, PhaseOf, Running, Steps

(* Every step of a call is a step of AsyncCall, or invisible to it. *)
LEMMA AsyncCallStep ==
  ASSUME IInv, NEW c \in Calls,
         \/ Reject(c) \/ Advance(c)
         \/ \E e \in Events : CopyNothing(c, e)
         \/ \E x \in Contexts : Begin(c, x)
  PROVE  [Async!Next]_<<Phase, Pending>>
  <1> USE DEF callVars, eventVars, streamVars, Goto
  <1>0. /\ TypeOK
        /\ c \in reported => pc[c] = "returned"
    BY DEF IInv, ReportInv
  <1>1. ASSUME UNCHANGED <<work, target, finished>>, reported' = reported,
               NEW p \in Steps, pc' = [pc EXCEPT ![c] = p],
               pc[c] \in Running \cup {"idle"}
        PROVE  /\ p = "failed" /\ Done(c) => Async!Fail(c)
               /\ p = "returned" => Async!Return(c)
               /\ p \in Running /\ pc[c] \in Running =>
                    UNCHANGED <<Phase, Pending>>
    <2>1. Pending' = Pending
      BY <1>1, SamePending
    <2>2. c \notin reported /\ Phase[c] \in {"idle", "running"}
      BY <1>0, <1>1, PhaseFacts DEF Running
    <2>3. p \in Running /\ pc[c] \in Running => Phase' = Phase
      BY <1>0, <1>1, Unseen
    <2>4. /\ p = "failed" => Phase' = [Phase EXCEPT ![c] = "failed"]
          /\ p = "returned" => Phase' = [Phase EXCEPT ![c] = "returned"]
      BY <1>0, <1>1, <2>2, PhaseMoves
    <2>5. Done(c) => c \notin Pending
      BY DEF Pending
    <2>6. QED
      BY <2>1, <2>2, <2>3, <2>4, <2>5
      DEF Async!Fail, Async!Return, Async!Enter, Phase, Pending
  <1>2. ASSUME NEW x \in Contexts, Begin(c, x) PROVE Async!Start(c)
    <2>1. Pending' = Pending
      BY <1>0, <1>2 DEF Begin, Pending, Done, IInv, TypeOK, CallInv
    <2>2. PICK p \in {"createCopyEvent", "createMarkEvent"} :
            pc' = [pc EXCEPT ![c] = p]
      BY <1>2 DEF Begin
    <2>3. p \in Running /\ c \notin reported /\ reported' = reported
      BY <1>0, <1>2 DEF Begin, Running, Steps
    <2>4. Phase[c] = "idle" /\ Phase' = [Phase EXCEPT ![c] = "running"]
      BY <1>0, <1>2, <2>2, <2>3, PhaseFacts, PhaseMoves DEF Begin, Running
    <2>5. QED
      BY <2>1, <2>4 DEF Async!Start, Async!Enter
  <1>3. CASE EnqueueCopy(c)
    <2>1. Phase' = Phase /\ Phase[c] = "running"
      BY <1>0, <1>3, Unseen, PhaseFacts DEF EnqueueCopy, Running, Steps
    <2>2. Pending' = Pending \cup {c}
      BY <1>0, <1>3 DEF EnqueueCopy, NextTicket, Pending, Done, IInv, TypeOK,
         StreamInv, CallInv, Running, Steps
    <2>3. Async!Enqueue(c)
      BY <2>1, <2>2 DEF Async!Enqueue
    <2>4. QED
      BY <2>3 DEF Async!Next
  <1>4. CASE Record(c) \/ RecordFails(c) \/ EnqueueCopyFails(c) \/ CreateEvent(c)
    BY <1>1, <1>4 DEF Record, RecordFails, EnqueueCopyFails, CreateEvent, Drain,
       Running, Steps
  <1>5. CASE Reject(c) \/ Drained(c) \/ CreateEventFails(c)
    <2>1. pc'[c] = "failed" => Done(c)
      BY <1>0, <1>5 DEF Reject, Drained, CreateEventFails, Drain, IInv, TypeOK,
         CallInv, TicketInv, StreamInv, Done, Ran, Running, Steps
    <2>2. Async!Fail(c) \/ UNCHANGED <<Phase, Pending>>
      BY <1>0, <1>1, <1>5, <2>1 DEF Reject, Drained, CreateEventFails, Drain,
         Running, Steps, TypeOK
    <2>3. QED
      BY <2>2 DEF Async!Next
  <1>6. ASSUME NEW e \in Events, CopyNothing(c, e) \/ Return(c, e)
        PROVE  Async!Return(c)
    BY <1>1, <1>6 DEF CopyNothing, Return, Running, Steps
  <1>7. CASE Discard(c)
    <2>1. Async!Return(c)
      BY <1>1, <1>7 DEF Discard, Running, Steps
    <2>2. QED
      BY <2>1 DEF Async!Next
  <1>8. QED
    BY <1>2, <1>3, <1>4, <1>5, <1>6, <1>7 DEF Advance, Async!Next

(* The device ends the work of one call at most with each command. *)
LEMMA AsyncDeviceStep ==
  ASSUME IInv, NEW s \in Streams, Execute(s)
  PROVE  [Async!Next]_<<Phase, Pending>>
  <1>1. Phase' = Phase
    BY SamePhase DEF Execute, callVars
  <1>2. \A c \in Calls : Done(c) => Done(c)'
    BY DEF IInv, TypeOK, TicketInv, Execute, Done, callVars
  <1>3. \A c, d \in Calls :
          c \in Pending \ Pending' /\ d \in Pending \ Pending' => c = d
    BY DEF IInv, TypeOK, TicketInv, Execute, Pending, Done, callVars
  <1>4. CASE Pending' = Pending
    BY <1>1, <1>4
  <1>5. CASE Pending' # Pending
    <2>1. PICK c \in Calls : c \in Pending \ Pending'
      BY <1>2, <1>5 DEF Pending
    <2>2. Pending' = Pending \ {c}
      BY <1>2, <1>3, <2>1 DEF Pending
    <2>3. Async!Finish(c)
      BY <1>1, <2>1, <2>2 DEF Async!Finish
    <2>4. QED
      BY <2>3 DEF Async!Next
  <1>6. QED
    BY <1>4, <1>5

(* Telling the caller of completion is Report, the first time.            *)
LEMMA AsyncEventStep ==
  ASSUME IInv, IInv', NEW e \in Events,
         \/ \E d \in Events : MoveEvent(d, e)
         \/ DestroyEvent(e)
         \/ Query(e) \/ Wait(e) \/ WaitSucceeds(e) \/ WaitFails(e)
  PROVE  [Async!Next]_<<Phase, Pending>>
  <1> USE DEF callVars, eventVars, streamVars
  <1>1. Pending' = Pending /\ UNCHANGED <<pc, target, work, mark, finished>>
    BY SamePending DEF MoveEvent, DestroyEvent, Query, Wait, WaitSucceeds,
       WaitFails
  <1>2. CASE reported' = reported
    BY <1>1, <1>2, SamePhase
  <1>3. CASE reported' # reported
    <2> DEFINE c == state[e]
    <2>1. reported' = reported \cup {c} /\ c \in Calls /\ c \notin reported
      <3>1. reported' = reported \cup ({state[e]} \ {None})
        BY <1>3 DEF MoveEvent, DestroyEvent, Query, Wait, WaitSucceeds,
           WaitFails, Tell
      <3>2. state[e] # None /\ state[e] \notin reported
        BY <1>3, <3>1
      <3>3. state[e] \in Calls
        BY <3>2 DEF IInv, TypeOK
      <3>4. QED
        BY <3>1, <3>2, <3>3
    <2>2. pc[c] = "returned" /\ Done(c)
      BY <1>1, <2>1 DEF IInv, TypeOK, EventInv, ReportInv, TicketInv, Fired, Done
    <2>3. Phase[c] = "returned"
      BY <2>1, <2>2, PhaseFacts DEF IInv
    <2>4. Phase' = [Phase EXCEPT ![c] = "reported"]
      BY <1>1, <2>1, <2>2 DEF Phase, PhaseOf, Running, Steps
    <2>5. Async!Report(c)
      BY <1>1, <2>1, <2>2, <2>3, <2>4 DEF Async!Report, Async!Enter, Pending
    <2>6. QED
      BY <2>1, <2>5 DEF Async!Next
  <1>4. QED
    BY <1>2, <1>3

(* CudaRuntime implements AsyncCall: whatever runtime call fails, a failed *)
(* CopyBytes has nothing pending, and no completion is reported early.     *)
THEOREM Refinement == Spec => ImplementsAsyncCall
  <1>1. ASSUME IInv, IInv', [Next]_vars
        PROVE  [Async!Next]_<<Phase, Pending>>
    <2>1. CASE UNCHANGED vars
      BY <2>1, SamePhase, SamePending DEF vars, callVars, streamVars
    <2>2. CASE ContextNext
      BY <2>2, SamePhase, SamePending DEF ContextNext, CreateContext,
         CopyContext, MoveContext, DropContext, callVars, streamVars
    <2>3. QED
      BY <1>1, <2>1, <2>2, AsyncCallStep, AsyncEventStep, AsyncDeviceStep
      DEF Next, CallNext, EventNext
  <1>2. QED
    BY <1>1, AsyncInit, Invariance, PTL
    DEF Spec, ImplementsAsyncCall, Async!Spec, Async!vars

=============================================================================
