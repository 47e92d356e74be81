--------------------------- MODULE TcpServerProofs ---------------------------
(* Theorems about TcpServer for every number of connections, queue size and *)
(* line length, and every bound.                                            *)
EXTENDS TcpServer, TLAPS

-----------------------------------------------------------------------------
(* Type correctness.                                                        *)

(* A queue and a buffer begin empty.                                        *)
LEMMA Empty == <<>> \in Seq(Event) /\ <<>> \in Seq(Commands) /\ <<>> \in Seq(Chunk)
  OBVIOUS

(* The types at the start ...                                               *)
LEMMA InitType == Init => TypeOK
<1> SUFFICES ASSUME Init PROVE TypeOK
  OBVIOUS
<1>1. NoLine \in Lines
  BY DEF NoLine, Lines
<1>2. NotReady \in [listen : BOOLEAN, client : {"none", "in", "err"}]
  BY DEF NotReady
<1>3. /\ wire \in [Conns -> Seq(Chunk)]
      /\ rx \in [Conns -> Seq(Commands)]
      /\ conn \in [Conns -> {"none", "backlog", "accepted", "dead"}]
  BY Empty DEF Init
<1>4. queue \in Seq(Event) /\ cmds \in Seq(Commands)
  BY Empty DEF Init
<1>5. offset \in 0 .. LineLen
  BY LineAssumption DEF Init
<1> QED
  BY <1>1, <1>2, <1>3, <1>4, <1>5 DEF Init, TypeOK

(* ... when the service is started ...                                      *)
LEMMA StartType == TypeOK /\ Start => TypeOK'
<1> SUFFICES ASSUME TypeOK, Start PROVE TypeOK'
  OBVIOUS
<1>1. queue' \in Seq(Event)
  BY Empty DEF Start
<1>2. discarded' \in Nat /\ starts' \in Nat
  BY DEF TypeOK, Start
<1> QED
  BY <1>1, <1>2 DEF TypeOK, Start, netVars

(* ... when an event is published ...                                       *)
LEMMA PublishType == TypeOK /\ (PublishCheck \/ PublishPush) => TypeOK'
<1> USE DEF TypeOK
<1>1. ASSUME TypeOK, PublishCheck PROVE TypeOK'
  BY <1>1 DEF PublishCheck, netVars
<1>2. ASSUME TypeOK, PublishPush PROVE TypeOK'
  <2> DEFINE kept == IF QueueFull THEN Tail(queue) ELSE queue
  <2>1. kept \in Seq(Event)
    BY <1>2, QueueAssumption DEF QueueFull
  <2>2. [id |-> pushed + 1, period |-> seen] \in Event
    BY <1>2 DEF Event
  <2>3. queue' \in Seq(Event)
    BY <1>2, <2>1, <2>2 DEF PublishPush
  <2>4. dropped' \in Nat
    BY <1>2 DEF PublishPush, CountDrop
  <2> QED
    BY <1>2, <2>3, <2>4 DEF PublishPush, netVars
<1> QED BY <1>1, <1>2

(* ... when the service is stopped ...                                      *)
LEMMA StopType == TypeOK /\ (RequestStop \/ Join) => TypeOK'
<1>1. ASSUME TypeOK, RequestStop PROVE TypeOK'
  BY <1>1 DEF TypeOK, RequestStop, netVars, auxVars
<1>2. ASSUME TypeOK, Join PROVE TypeOK'
  BY <1>2 DEF TypeOK, Join, netVars, auxVars
<1> QED BY <1>1, <1>2

(* ... when what belonged to a connection is thrown away ...                *)
LEMMA DiscardType ==
  TypeOK /\ Discard => subscribed' \in BOOLEAN /\ queue' \in Seq(Event) /\ discarded' \in Nat
<1> SUFFICES ASSUME TypeOK, Discard
             PROVE  subscribed' \in BOOLEAN /\ queue' \in Seq(Event) /\ discarded' \in Nat
  OBVIOUS
<1>1. queue' \in Seq(Event)
  BY Empty DEF Discard
<1>2. discarded' \in Nat
  BY DEF TypeOK, Discard
<1> QED
  BY <1>1, <1>2 DEF Discard

(* ... when a client is accepted ...                                        *)
LEMMA AcceptType == TypeOK /\ (Poll \/ Accept \/ SkipAccept) => TypeOK'
<1>1. ASSUME TypeOK, Poll PROVE TypeOK'
  <2>1. ready' \in [listen : BOOLEAN, client : {"none", "in", "err"}]
    <3>1. CASE UNCHANGED ready
      BY <1>1, <3>1 DEF TypeOK
    <3>2. CASE \E ev \in ClientEvents : ready' = [listen |-> Backlog # {}, client |-> ev]
      <4>1. ClientEvents \subseteq {"none", "in", "err"}
        BY DEF ClientEvents
      <4>2. (Backlog # {}) \in BOOLEAN
        OBVIOUS
      <4> QED BY <3>2, <4>1, <4>2
    <3> QED BY <1>1, <3>1, <3>2 DEF Poll
  <2>2. worker' \in {"accept", "exit"}
    BY <1>1 DEF Poll
  <2> QED
    BY <1>1, <2>1, <2>2 DEF TypeOK, Poll, netVars, auxVars
<1>2. ASSUME TypeOK, Accept PROVE TypeOK'
  <2>1. PICK c \in Backlog : /\ Discard
                             /\ client' = c
                             /\ conn' = Replace(c)
                             /\ cmds' = <<>>
    BY <1>2 DEF Accept
  <2>2. conn' \in [Conns -> {"none", "backlog", "accepted", "dead"}]
    BY <1>2, <2>1 DEF TypeOK, Replace
  <2>3. client' \in Conns
    BY <2>1 DEF Backlog
  <2> QED
    BY <1>2, <2>1, <2>2, <2>3, DiscardType DEF TypeOK, Accept
<1>3. ASSUME TypeOK, SkipAccept PROVE TypeOK'
  BY <1>3 DEF TypeOK, SkipAccept, netVars, auxVars
<1> QED BY <1>1, <1>2, <1>3

(* ... when it is read from ...                                             *)
LEMMA ReceiveType == TypeOK /\ (Receive \/ HangUp \/ NothingToRead) => TypeOK'
<1>1. ASSUME TypeOK, Receive PROVE TypeOK'
  <2>1. client \in Conns /\ rx[client] \in Seq(Commands)
    BY <1>1 DEF TypeOK, Receive
  <2>2. cmds' \in Seq(Commands) /\ rx' \in [Conns -> Seq(Commands)]
    <3>1. CASE rx[client] # <<>>
      <4>1. PICK n \in 1 .. Len(rx[client]) :
              /\ cmds' = SubSeq(rx[client], 1, n)
              /\ rx' = [rx EXCEPT ![client] = SubSeq(@, n + 1, Len(@))]
        BY <1>1, <3>1 DEF Receive
      <4>2. SubSeq(rx[client], 1, n) \in Seq(Commands)
        BY <2>1
      <4>3. SubSeq(rx[client], n + 1, Len(rx[client])) \in Seq(Commands)
        BY <2>1
      <4> QED BY <1>1, <2>1, <4>1, <4>2, <4>3 DEF TypeOK
    <3>2. CASE rx[client] = <<>>
      BY <1>1, <3>2 DEF TypeOK, Receive
    <3> QED BY <3>1, <3>2
  <2>3. worker' \in {"dispatch", "flush"}
    BY <1>1 DEF Receive
  <2> QED BY <1>1, <2>2, <2>3 DEF TypeOK, Receive, auxVars
<1>2. ASSUME TypeOK, HangUp PROVE TypeOK'
  BY <1>2, DiscardType DEF TypeOK, HangUp, CloseClient
<1>3. ASSUME TypeOK, NothingToRead PROVE TypeOK'
  BY <1>3 DEF TypeOK, NothingToRead, netVars, auxVars
<1> QED BY <1>1, <1>2, <1>3

(* ... when its commands are executed ...                                   *)
LEMMA DispatchType == TypeOK /\ (Dispatch \/ DispatchDone) => TypeOK'
<1>1. ASSUME TypeOK, Dispatch PROVE TypeOK'
  <2>1. cmds' \in Seq(Commands)
    BY <1>1 DEF TypeOK, Dispatch
  <2>2. line' \in Lines /\ line'.kind # "none" /\ client' \in Conns
    BY <1>1 DEF Dispatch, Reply, Lines, TypeOK
  <2>3. subscribed' \in BOOLEAN /\ queue' \in Seq(Event) /\ discarded' \in Nat
    <3>1. CASE Discard
      BY <1>1, <3>1, DiscardType
    <3>2. CASE UNCHANGED <<subscribed, queue, discarded>>
      BY <1>1, <3>2 DEF TypeOK
    <3>3. CASE subscribed' = TRUE /\ UNCHANGED <<queue, discarded>>
      BY <1>1, <3>3 DEF TypeOK
    <3> QED BY <1>1, <3>1, <3>2, <3>3 DEF Dispatch
  <2>4. locked' \in BOOLEAN /\ period' \in Nat
    <3>1. locked' = TRUE \/ UNCHANGED locked
      BY <1>1 DEF Dispatch
    <3>2. period' \in {period, period + 1}
      BY <1>1 DEF Dispatch
    <3>3. locked' \in BOOLEAN
      BY <1>1, <3>1, Zenon DEF TypeOK
    <3>4. period' \in Nat
      BY <1>1, <3>2 DEF TypeOK
    <3> QED BY <3>3, <3>4
  <2>5. offset' \in 0 .. LineLen
    BY <1>1, LineAssumption DEF Dispatch
  <2> QED
    BY <1>1, <2>1, <2>2, <2>3, <2>4, <2>5 DEF TypeOK, Dispatch, netVars
<1>2. ASSUME TypeOK, DispatchDone PROVE TypeOK'
  BY <1>2 DEF TypeOK, DispatchDone, netVars, auxVars
<1> QED BY <1>1, <1>2

(* ... when something is sent to it ...                                     *)
LEMMA SendType ==
  TypeOK /\ (SendChunk \/ ReplyReturns \/ EventSent \/ EventFailed) => TypeOK'
<1>0. NoLine \in Lines /\ 0 \in 0 .. LineLen
  BY LineAssumption DEF NoLine, Lines
<1>1. ASSUME TypeOK, SendChunk PROVE TypeOK'
  <2> DEFINE ch == [kind |-> line.kind, id |-> line.id,
                    period |-> line.period, part |-> offset + 1]
  <2>1. offset' \in 0 .. LineLen /\ offset + 1 \in 1 .. LineLen
    BY <1>1, LineAssumption DEF TypeOK, SendChunk
  <2>2. ch \in Chunk
    BY <1>1, <2>1 DEF TypeOK, SendChunk, Lines, Chunk
  <2>3. client \in Conns /\ wire[client] \in Seq(Chunk)
    BY <1>1 DEF TypeOK, SendChunk
  <2>4. Append(wire[client], ch) \in Seq(Chunk)
    BY <2>2, <2>3
  <2>5. wire' \in [Conns -> Seq(Chunk)]
    BY <1>1, <2>3, <2>4 DEF TypeOK, SendChunk
  <2> QED BY <1>1, <2>1, <2>5 DEF TypeOK, SendChunk, auxVars
<1>2. ASSUME TypeOK, ReplyReturns PROVE TypeOK'
  BY <1>0, <1>2 DEF TypeOK, ReplyReturns, netVars, auxVars
<1>3. ASSUME TypeOK, EventSent PROVE TypeOK'
  BY <1>0, <1>3 DEF TypeOK, EventSent, netVars, auxVars
<1>4. ASSUME TypeOK, EventFailed PROVE TypeOK'
  <2>1. conn' \in [Conns -> {"none", "backlog", "accepted", "dead"}]
    BY <1>4 DEF TypeOK, EventFailed, CloseClient
  <2>2. cmds' \in Seq(Commands)
    BY <1>4, Empty DEF EventFailed, CloseClient
  <2> QED
    BY <1>0, <1>4, <2>1, <2>2, DiscardType DEF TypeOK, EventFailed, CloseClient
<1> QED BY <1>1, <1>2, <1>3, <1>4

(* ... when the queue is emptied into its socket ...                        *)
LEMMA FlushType == TypeOK /\ (FlushTake \/ FlushDone \/ Exit) => TypeOK'
<1>1. ASSUME TypeOK, FlushTake PROVE TypeOK'
  <2>1. Head(queue) \in Event /\ Tail(queue) \in Seq(Event)
    BY <1>1 DEF TypeOK, FlushTake
  <2>2. line' \in Lines /\ line'.kind # "none" /\ lastTaken' \in Nat
    BY <1>1, <2>1 DEF FlushTake, EventLine, Oldest, Lines, Event
  <2>3. offset' \in 0 .. LineLen /\ taken' \in Nat
    BY <1>1, LineAssumption DEF FlushTake, TypeOK
  <2> QED
    BY <1>1, <2>1, <2>2, <2>3 DEF TypeOK, FlushTake, netVars
<1>2. ASSUME TypeOK, FlushDone PROVE TypeOK'
  BY <1>2 DEF TypeOK, FlushDone, netVars, auxVars
<1>3. ASSUME TypeOK, Exit PROVE TypeOK'
  <2>1. conn' \in [Conns -> {"none", "backlog", "accepted", "dead"}]
    BY <1>3 DEF TypeOK, Exit
  <2>2. cmds' \in Seq(Commands)
    BY <1>3, Empty DEF Exit
  <2> QED
    BY <1>3, <2>1, <2>2, DiscardType DEF TypeOK, Exit
<1> QED BY <1>1, <1>2, <1>3

(* ... and whatever the clients do.                                         *)
LEMMA ClientType == TypeOK /\ ClientStep => TypeOK'
<1>1. ASSUME TypeOK, NEW c \in Conns, Connect(c) PROVE TypeOK'
  BY <1>1 DEF TypeOK, Connect, serverVars, auxVars
<1>2. ASSUME TypeOK, NEW c \in Conns, SendCommand(c) PROVE TypeOK'
  <2>1. PICK cmd \in Commands : rx' = [rx EXCEPT ![c] = Append(@, cmd)]
    BY <1>2 DEF SendCommand
  <2>2. Append(rx[c], cmd) \in Seq(Commands)
    BY <1>2 DEF TypeOK
  <2>3. rx' \in [Conns -> Seq(Commands)]
    BY <1>2, <2>1, <2>2 DEF TypeOK
  <2> QED BY <1>2, <2>3 DEF TypeOK, SendCommand, serverVars
<1>3. ASSUME TypeOK, NEW c \in Conns, PeerClose(c) PROVE TypeOK'
  BY <1>3 DEF TypeOK, PeerClose, serverVars, auxVars
<1> QED BY <1>1, <1>2, <1>3 DEF ClientStep

(* Type correctness: the threads never leave their control points, the      *)
(* dispatch and send steps always have a client, and the counters are       *)
(* numbers, for every value of the constants.                               *)
THEOREM TypeCorrect == Spec => []TypeOK
<1>1. TypeOK /\ [Next]_vars => TypeOK'
  <2> SUFFICES ASSUME TypeOK, [Next]_vars PROVE TypeOK'
    OBVIOUS
  <2>1. CASE OwnerStep
    BY <2>1, StartType, PublishType, StopType DEF OwnerStep
  <2>2. CASE WorkerStep
    BY <2>2, AcceptType, ReceiveType, DispatchType, SendType, FlushType DEF WorkerStep
  <2>3. CASE ClientStep
    BY <2>3, ClientType
  <2>4. CASE UNCHANGED vars
    BY <2>4 DEF TypeOK, vars, serverVars, netVars, auxVars
  <2> QED BY <2>1, <2>2, <2>3, <2>4 DEF Next
<1> QED BY InitType, <1>1, PTL DEF Spec

-----------------------------------------------------------------------------
(* The queue.  Whatever the two threads do, a step does one of three things *)
(* to the queue and its books, or leaves them alone.                        *)

QueuePush ==
  /\ queue' = Append(IF QueueFull THEN Tail(queue) ELSE queue,
                     [id |-> pushed + 1, period |-> seen])
  /\ dropped' = IF QueueFull THEN dropped + 1 ELSE dropped
  /\ pushed' = pushed + 1
  /\ UNCHANGED <<taken, lastTaken, discarded>>

QueueTake ==
  /\ queue # <<>> /\ queue' = Tail(queue)
  /\ taken' = taken + 1 /\ lastTaken' = Head(queue).id
  /\ UNCHANGED <<pushed, dropped, discarded>>

QueueClear ==
  /\ queue' = <<>> /\ discarded' = discarded + Len(queue)
  /\ UNCHANGED <<pushed, dropped, taken, lastTaken>>

QueueKept == UNCHANGED <<queue, pushed, dropped, taken, lastTaken, discarded>>

(* What a step may do to the queue and its counters.                        *)
LEMMA QueueEffect ==
  [Next]_vars => QueuePush \/ QueueTake \/ QueueClear \/ QueueKept
<1> SUFFICES ASSUME [Next]_vars
             PROVE  QueuePush \/ QueueTake \/ QueueClear \/ QueueKept
  OBVIOUS
<1>1. CASE Start
  BY <1>1 DEF Start, QueueClear
<1>2. CASE PublishPush
  BY <1>2 DEF PublishPush, CountDrop, QueuePush
<1>3. CASE PublishCheck \/ RequestStop \/ Join
  BY <1>3 DEF PublishCheck, RequestStop, Join, QueueKept, auxVars
<1>4. CASE Poll \/ SkipAccept \/ Receive \/ NothingToRead \/ DispatchDone
  BY <1>4 DEF Poll, SkipAccept, Receive, NothingToRead, DispatchDone, QueueKept, auxVars
<1>5. CASE Accept \/ HangUp \/ EventFailed \/ Exit
  BY <1>5 DEF Accept, HangUp, EventFailed, Exit, CloseClient, Discard, QueueClear
<1>6. CASE Dispatch
  BY <1>6 DEF Dispatch, Discard, QueueClear, QueueKept
<1>7. CASE SendChunk \/ ReplyReturns \/ EventSent \/ FlushDone
  BY <1>7 DEF SendChunk, ReplyReturns, EventSent, FlushDone, QueueKept, auxVars
<1>8. CASE FlushTake
  BY <1>8 DEF FlushTake, Oldest, QueueTake
<1>9. CASE ClientStep
  BY <1>9 DEF ClientStep, Connect, SendCommand, PeerClose, serverVars, auxVars, QueueKept
<1>10. CASE UNCHANGED vars
  BY <1>10 DEF vars, serverVars, auxVars, QueueKept
<1> QED
  BY <1>1, <1>2, <1>3, <1>4, <1>5, <1>6, <1>7, <1>8, <1>9, <1>10
  DEF Next, OwnerStep, WorkerStep

(* The queue holds the newest events without a gap: its entries are         *)
(* numbered up to pushed.  Nothing that was taken is still in it.           *)
Newest ==
  /\ \A i \in 1 .. Len(queue) : queue[i].id = (pushed - Len(queue)) + i
  /\ lastTaken + Len(queue) <= pushed

QueueInv == TypeOK /\ Accounting /\ Newest

(* A push at the bound drops the oldest event.                              *)
LEMMA PushQueue == QueueInv /\ TypeOK' /\ QueuePush => QueueInv'
<1> SUFFICES ASSUME QueueInv, TypeOK', QueuePush PROVE QueueInv'
  OBVIOUS
<1> DEFINE kept == IF QueueFull THEN Tail(queue) ELSE queue
           new  == [id |-> pushed + 1, period |-> seen]
<1> USE QueueAssumption
<1>0. /\ pushed \in Nat /\ taken \in Nat /\ lastTaken \in Nat
      /\ dropped \in Nat /\ discarded \in Nat
  BY DEF QueueInv, TypeOK
<1>1. queue \in Seq(Event) /\ Len(queue) \in Nat /\ Len(queue) <= MaxQueue
  BY DEF QueueInv, Accounting, QueueBound, TypeOK
<1>2. /\ kept \in Seq(Event)
      /\ Len(kept) = IF QueueFull THEN Len(queue) - 1 ELSE Len(queue)
      /\ \A i \in 1 .. Len(kept) : kept[i] = IF QueueFull THEN queue[i + 1] ELSE queue[i]
  BY <1>1 DEF QueueFull
<1>3. Len(kept) < MaxQueue
  BY <1>1, <1>2 DEF QueueFull
<1>4. /\ queue' = Append(kept, new)
      /\ new.id = pushed + 1
      /\ pushed' = pushed + 1
  BY DEF QueuePush
<1>4a. /\ Len(queue') = Len(kept) + 1
       /\ \A i \in 1 .. Len(kept) : queue'[i] = kept[i]
       /\ queue'[Len(kept) + 1] = new
  BY <1>2, <1>4
<1>5. QueueBound'
  BY <1>1, <1>2, <1>3, <1>4a DEF QueueBound
<1>6. Accounting'
  <2>1. pushed = Len(queue) + taken + dropped + discarded
    BY DEF QueueInv, Accounting
  <2>2. CASE QueueFull
    BY <1>0, <1>1, <1>2, <1>4, <1>4a, <1>5, <2>1, <2>2 DEF Accounting, QueuePush
  <2>3. CASE ~QueueFull
    BY <1>0, <1>1, <1>2, <1>4, <1>4a, <1>5, <2>1, <2>3 DEF Accounting, QueuePush
  <2> QED BY <2>2, <2>3
<1>7. \A i \in 1 .. Len(queue') : queue'[i].id = (pushed' - Len(queue')) + i
  <2> TAKE i \in 1 .. Len(queue')
  <2>1. CASE i = Len(kept) + 1
    <3>1. queue'[i].id = pushed + 1
      BY <1>4, <1>4a, <2>1
    <3> QED BY <1>0, <1>1, <1>2, <1>4, <1>4a, <2>1, <3>1
  <2>2. CASE i \in 1 .. Len(kept)
    <3>1. CASE QueueFull
      <4>1. queue'[i] = queue[i + 1] /\ i + 1 \in 1 .. Len(queue)
        BY <1>1, <1>2, <1>4a, <2>2, <3>1
      <4> QED
        BY <1>0, <1>1, <1>2, <1>4, <1>4a, <3>1, <4>1 DEF QueueInv, Newest
    <3>2. CASE ~QueueFull
      <4>1. queue'[i] = queue[i] /\ i \in 1 .. Len(queue)
        BY <1>1, <1>2, <1>4a, <2>2, <3>2
      <4> QED
        BY <1>0, <1>1, <1>2, <1>4, <1>4a, <3>2, <4>1 DEF QueueInv, Newest
    <3> QED BY <3>1, <3>2
  <2> QED BY <1>1, <1>2, <1>4a, <2>1, <2>2
<1>8. lastTaken' + Len(queue') <= pushed'
  BY <1>0, <1>1, <1>2, <1>4, <1>4a DEF QueueInv, Newest, QueuePush
<1> QED
  BY <1>5, <1>6, <1>7, <1>8 DEF QueueInv, Newest

(* The worker takes the oldest event.                                       *)
LEMMA TakeQueue ==
  QueueInv /\ TypeOK' /\ QueueTake
    => QueueInv' /\ lastTaken' \in (lastTaken + 1) .. pushed /\ pushed' = pushed
<1> SUFFICES ASSUME QueueInv, TypeOK', QueueTake
             PROVE  /\ QueueInv'
                    /\ lastTaken' \in (lastTaken + 1) .. pushed /\ pushed' = pushed
  OBVIOUS
<1>0. /\ pushed \in Nat /\ taken \in Nat /\ lastTaken \in Nat
      /\ dropped \in Nat /\ discarded \in Nat
  BY DEF QueueInv, TypeOK
<1>1. /\ queue \in Seq(Event) /\ queue # <<>>
      /\ Len(queue) \in Nat /\ Len(queue) >= 1
  <2>1. queue \in Seq(Event)
    BY DEF QueueInv, TypeOK
  <2>2. queue # <<>>
    BY DEF QueueTake
  <2> QED BY <2>1, <2>2
<1>2. /\ Len(queue') = Len(queue) - 1
      /\ \A i \in 1 .. Len(queue') : queue'[i] = queue[i + 1]
  BY <1>1 DEF QueueTake
<1>3. lastTaken' = (pushed - Len(queue)) + 1
  <2>1. Head(queue) = queue[1] /\ 1 \in 1 .. Len(queue)
    BY <1>1
  <2> QED BY <2>1 DEF QueueInv, Newest, QueueTake
<1>4. Accounting'
  <2>1. QueueBound'
    BY <1>1, <1>2, QueueAssumption DEF QueueInv, Accounting, QueueBound
  <2>2. pushed' = Len(queue') + taken' + dropped' + discarded'
    BY <1>0, <1>1, <1>2 DEF QueueInv, Accounting, QueueTake
  <2> QED BY <2>1, <2>2 DEF Accounting
<1>5. Newest'
  <2>1. ASSUME NEW i \in 1 .. Len(queue')
        PROVE  queue'[i].id = (pushed' - Len(queue')) + i
    <3>1. i + 1 \in 1 .. Len(queue) /\ queue'[i] = queue[i + 1]
      BY <1>1, <1>2
    <3>2. queue[i + 1].id = (pushed - Len(queue)) + (i + 1)
      BY <3>1 DEF QueueInv, Newest
    <3> QED BY <1>0, <1>1, <1>2, <3>1, <3>2 DEF QueueTake
  <2>2. lastTaken' + Len(queue') <= pushed'
    BY <1>0, <1>1, <1>2, <1>3 DEF QueueTake
  <2> QED BY <2>1, <2>2 DEF Newest
<1> QED
  BY <1>0, <1>1, <1>3, <1>4, <1>5 DEF QueueInv, Newest, QueueTake

(* A queue that is cleared or left alone.                                   *)
LEMMA ClearQueue == QueueInv /\ TypeOK' /\ (QueueClear \/ QueueKept) => QueueInv'
<1>1. ASSUME QueueInv, TypeOK', QueueClear PROVE QueueInv'
  <2>1. Len(queue) \in Nat /\ Len(queue') = 0
    BY <1>1 DEF QueueInv, TypeOK, QueueClear
  <2>2. Accounting'
    BY <1>1, <2>1, QueueAssumption
    DEF QueueInv, QueueBound, Accounting, QueueClear, TypeOK
  <2>3. Newest'
    BY <1>1, <2>1 DEF QueueInv, Newest, QueueClear, TypeOK
  <2> QED BY <1>1, <2>2, <2>3 DEF QueueInv
<1>2. ASSUME QueueInv, TypeOK', QueueKept PROVE QueueInv'
  BY <1>2 DEF QueueInv, QueueBound, Accounting, Newest, QueueKept
<1> QED BY <1>1, <1>2

(* The queue is accounted for in every state.                               *)
LEMMA QueueInvariant == Spec => []QueueInv
<1>1. Init => QueueInv
  BY InitType, QueueAssumption DEF Init, QueueInv, QueueBound, Accounting, Newest
<1>2. QueueInv /\ TypeOK' /\ [Next]_vars => QueueInv'
  BY QueueEffect, PushQueue, TakeQueue, ClearQueue
<1> QED BY <1>1, <1>2, TypeCorrect, PTL DEF Spec

(* The queue never exceeds max_event_queue_ and no event disappears         *)
(* uncounted, whatever the queue size and however the threads interleave.   *)
THEOREM QueueSafe == Spec => []Accounting
<1>1. QueueInv => Accounting
  BY DEF QueueInv
<1> QED BY <1>1, QueueInvariant, PTL

(* The service implements the lossy stream: what it hands to the socket is  *)
(* in publication order and never repeated.                                 *)
THEOREM ImplementsStream == Spec => StreamSpec
<1>1. Init => Stream!Init
  BY DEF Init, Stream!Init
<1>2. QueueInv /\ TypeOK' /\ [Next]_vars => [Stream!Next]_(Stream!streamVars)
  <2> SUFFICES ASSUME QueueInv, TypeOK', [Next]_vars
               PROVE  [Stream!Next]_(Stream!streamVars)
    OBVIOUS
  <2> USE DEF Stream!Next, Stream!Produce, Stream!Consume, Stream!streamVars
  <2>1. CASE QueuePush
    BY <2>1 DEF QueuePush
  <2>2. CASE QueueTake
    <3>1. taken' = taken + 1
      BY <2>2 DEF QueueTake
    <3> QED BY <3>1, <2>2, TakeQueue
  <2>3. CASE QueueClear \/ QueueKept
    BY <2>3 DEF QueueClear, QueueKept
  <2> QED BY <2>1, <2>2, <2>3, QueueEffect
<1> QED
  BY <1>1, <1>2, QueueInvariant, TypeCorrect, PTL DEF Spec, StreamSpec, Stream!Spec

-----------------------------------------------------------------------------
(* The stale event.  A publisher that read subscribed_ in a period that is  *)
(* over finds the queue empty, because ending the period cleared it and     *)
(* nobody else pushes.                                                      *)

Overtaken == owner = "push" /\ (~subscribed \/ seen # period)

StaleInv ==
  /\ AtMostOneStale
  /\ Overtaken => queue = <<>>
  /\ worker \in {"off", "done"} => ~subscribed
  /\ owner = "idle" => worker = "off"

(* A push to a queue with a stale event, which can only be the oldest ...   *)
LEMMA PushStale == QueueInv /\ TypeOK' /\ StaleInv /\ PublishPush => StaleInv'
<1> SUFFICES ASSUME QueueInv, TypeOK', StaleInv, PublishPush PROVE StaleInv'
  OBVIOUS
<1> DEFINE kept == IF QueueFull THEN Tail(queue) ELSE queue
           new  == [id |-> pushed + 1, period |-> seen]
<1>1. queue \in Seq(Event) /\ Len(queue) \in Nat
  BY DEF QueueInv, TypeOK
<1>2. /\ owner = "push" /\ owner' = "run"
      /\ queue' = Append(kept, new) /\ new.period = seen
      /\ UNCHANGED <<subscribed, period, worker>>
  BY DEF PublishPush
<1>3. CASE Overtaken
  <2>1. queue = <<>> /\ kept = <<>>
    BY <1>3, QueueAssumption DEF StaleInv, QueueFull
  <2>2. Len(queue') = 1
    BY <1>2, <2>1
  <2> QED BY <1>2, <2>2 DEF StaleInv, AtMostOneStale, Overtaken
<1>4. CASE ~Overtaken
  <2>1. subscribed /\ seen = period
    BY <1>2, <1>4 DEF Overtaken
  <2>2. /\ kept \in Seq(Event) /\ Len(kept) \in Nat
        /\ \A i \in 2 .. Len(kept) : kept[i].period = period
    <3>1. CASE QueueFull
      <4>1. Len(queue) >= 1 /\ kept = Tail(queue)
        BY <1>1, <3>1, QueueAssumption DEF QueueFull
      <4>2. /\ kept \in Seq(Event) /\ Len(kept) = Len(queue) - 1
            /\ \A i \in 1 .. Len(kept) : kept[i] = queue[i + 1]
        BY <1>1, <4>1
      <4> QED BY <1>1, <4>2 DEF StaleInv, AtMostOneStale
    <3>2. CASE ~QueueFull
      BY <1>1, <3>2 DEF StaleInv, AtMostOneStale
    <3> QED BY <3>1, <3>2
  <2>3. /\ Len(queue') = Len(kept) + 1
        /\ \A i \in 1 .. Len(kept) : queue'[i] = kept[i]
        /\ queue'[Len(kept) + 1] = new
    BY <1>2, <2>2
  <2>4. \A i \in 2 .. Len(queue') : queue'[i].period = period'
    BY <1>2, <2>1, <2>2, <2>3
  <2> QED BY <1>2, <2>1, <2>4 DEF StaleInv, AtMostOneStale, Overtaken
<1> QED BY <1>3, <1>4

(* ... that event taken ...                                                 *)
LEMMA TakeStale == QueueInv /\ StaleInv /\ FlushTake => StaleInv'
<1> SUFFICES ASSUME QueueInv, StaleInv, FlushTake PROVE StaleInv'
  OBVIOUS
<1>1. queue \in Seq(Event) /\ queue # <<>> /\ queue' = Tail(queue)
  BY DEF QueueInv, TypeOK, FlushTake
<1>2. /\ Len(queue') = Len(queue) - 1 /\ Len(queue) \in Nat
      /\ \A i \in 1 .. Len(queue') : queue'[i] = queue[i + 1]
  BY <1>1
<1>3. AtMostOneStale'
  BY <1>2 DEF StaleInv, AtMostOneStale, FlushTake
<1>4. ~Overtaken' /\ owner' = owner /\ worker' = "send" /\ owner # "idle"
  BY <1>1 DEF StaleInv, Overtaken, FlushTake
<1> QED BY <1>3, <1>4 DEF StaleInv

(* ... a new subscription, which clears the queue ...                       *)
LEMMA DispatchStale == QueueInv /\ StaleInv /\ Dispatch => StaleInv'
<1> SUFFICES ASSUME QueueInv, StaleInv, Dispatch PROVE StaleInv'
  OBVIOUS
<1>1. worker' = "send" /\ owner' = owner /\ owner # "idle" /\ UNCHANGED seen
  BY DEF Dispatch, StaleInv
<1>2. Len(<<>>) = 0
  OBVIOUS
<1>3. CASE UNCHANGED <<subscribed, queue, period>>
  BY <1>1, <1>3 DEF StaleInv, AtMostOneStale, Overtaken
<1>4. CASE Discard /\ UNCHANGED period
  BY <1>1, <1>2, <1>4 DEF Discard, StaleInv, AtMostOneStale, Overtaken
<1>5. CASE ~subscribed /\ subscribed' = TRUE /\ UNCHANGED queue
  BY <1>1, <1>5 DEF QueueInv, TypeOK, StaleInv, AtMostOneStale, Overtaken
<1>6. CASE subscribed /\ subscribed' = TRUE /\ UNCHANGED <<queue, period>>
  BY <1>1, <1>6 DEF StaleInv, AtMostOneStale, Overtaken
<1> QED BY <1>3, <1>4, <1>5, <1>6 DEF Dispatch

(* ... and every other step.                                                *)
LEMMA OtherStale ==
  QueueInv /\ StaleInv /\ [Next]_vars /\ ~PublishPush /\ ~FlushTake /\ ~Dispatch
    => StaleInv'
<1> SUFFICES ASSUME QueueInv, StaleInv, [Next]_vars, ~PublishPush, ~FlushTake, ~Dispatch
             PROVE  StaleInv'
  OBVIOUS
<1> USE DEF StaleInv, AtMostOneStale, Overtaken
<1>1. Len(<<>>) = 0
  OBVIOUS
<1>2. CASE Start
  BY <1>1, <1>2 DEF Start
<1>3. CASE PublishCheck
  BY <1>3 DEF PublishCheck
<1>4. CASE RequestStop \/ Join
  BY <1>4 DEF RequestStop, Join, auxVars
<1>5. CASE Poll \/ SkipAccept \/ Receive \/ NothingToRead \/ DispatchDone
  BY <1>5 DEF Poll, SkipAccept, Receive, NothingToRead, DispatchDone, auxVars
<1>6. CASE Accept \/ HangUp \/ EventFailed \/ Exit
  BY <1>1, <1>6 DEF Accept, HangUp, EventFailed, Exit, CloseClient, Discard
<1>7. CASE SendChunk \/ ReplyReturns \/ EventSent \/ FlushDone
  BY <1>7 DEF SendChunk, ReplyReturns, EventSent, FlushDone, auxVars
<1>8. CASE ClientStep
  BY <1>8 DEF ClientStep, Connect, SendCommand, PeerClose, serverVars, auxVars
<1>9. CASE UNCHANGED vars
  BY <1>9 DEF vars, serverVars, auxVars
<1> QED
  BY <1>2, <1>3, <1>4, <1>5, <1>6, <1>7, <1>8, <1>9 DEF Next, OwnerStep, WorkerStep

(* At most one event of an ended subscription can reach a later subscriber, *)
(* and it is the first one that subscriber is sent.                         *)
THEOREM StaleBounded == Spec => []AtMostOneStale
<1>1. Init => StaleInv
  <2>1. Len(<<>>) = 0
    OBVIOUS
  <2> QED BY <2>1 DEF Init, StaleInv, AtMostOneStale, Overtaken
<1>2. QueueInv /\ TypeOK' /\ StaleInv /\ [Next]_vars => StaleInv'
  BY PushStale, TakeStale, DispatchStale, OtherStale
<1>3. StaleInv => AtMostOneStale
  BY DEF StaleInv
<1> QED BY <1>1, <1>2, <1>3, QueueInvariant, TypeCorrect, PTL DEF Spec

-----------------------------------------------------------------------------
(* Descriptors.                                                             *)

(* The worker closes both sockets before it ends, and the owner is idle     *)
(* only without a worker.                                                   *)
OwnInv ==
  /\ \A c \in Conns : conn[c] = "accepted" <=> c = client
  /\ worker \in {"done", "off"} => ~listening /\ client = NoConn
  /\ owner = "idle" => worker = "off"

(* Every step keeps the sockets owned.                                      *)
LEMMA OwnKept == TypeOK /\ OwnInv /\ [Next]_vars => OwnInv'
<1> SUFFICES ASSUME TypeOK, OwnInv, [Next]_vars PROVE OwnInv'
  OBVIOUS
<1> USE ConnsAssumption DEF TypeOK, OwnInv
<1>1. CASE OwnerStep
  BY <1>1 DEF OwnerStep, Start, PublishCheck, PublishPush, RequestStop, Join, netVars
<1>2. CASE Accept
  BY <1>2 DEF Accept, Replace, Backlog
<1>3. CASE HangUp \/ EventFailed
  <2>1. /\ client # NoConn /\ client' = NoConn /\ conn' = [conn EXCEPT ![client] = "dead"]
        /\ worker' \in {"flush", "top"} /\ UNCHANGED <<owner, listening>>
        /\ worker \in {"client", "send"}
    BY <1>3 DEF HangUp, EventFailed, CloseClient
  <2> QED
    BY <2>1
<1>4. CASE Exit
  BY <1>4 DEF Exit, Backlog
<1>5. CASE \E c \in Conns : Connect(c)
  <2>1. PICK c \in Conns : Connect(c)
    BY <1>5
  <2> QED
    BY <2>1 DEF Connect, serverVars
<1>6. CASE /\ UNCHANGED <<conn, client, listening, owner>>
           /\ worker' # worker => worker' \notin {"done", "off"} /\ worker \notin {"done", "off"}
  BY <1>6
<1>7. CASE \E c \in Conns : SendCommand(c) \/ PeerClose(c)
  BY <1>7 DEF SendCommand, PeerClose, serverVars
<1>8. CASE UNCHANGED vars
  BY <1>8 DEF vars, serverVars, netVars
<1>9. CASE \/ Poll \/ SkipAccept \/ Receive \/ NothingToRead \/ Dispatch \/ DispatchDone
            \/ SendChunk \/ ReplyReturns \/ EventSent \/ FlushTake \/ FlushDone
  BY <1>6, <1>9 DEF Poll, SkipAccept, Receive, NothingToRead, Dispatch, DispatchDone,
        SendChunk, ReplyReturns, EventSent, FlushTake, FlushDone, netVars
<1> QED
  BY <1>1, <1>2, <1>3, <1>4, <1>5, <1>7, <1>8, <1>9
  DEF Next, WorkerStep, ClientStep

(* The accepted connection is the one client_fd_ names, and after stop() no *)
(* socket of the service is open.                                           *)
THEOREM SocketsClosed == Spec => []DescriptorsOwned
<1>1. Init => OwnInv
  BY ConnsAssumption DEF Init, OwnInv
<1>2. OwnInv => DescriptorsOwned
  BY DEF OwnInv, DescriptorsOwned
<1> QED BY <1>1, <1>2, OwnKept, TypeCorrect, PTL DEF Spec

-----------------------------------------------------------------------------
(* Hanging up.                                                              *)

(* Nothing is written to a connection before it is accepted, and POLLERR or *)
(* POLLHUP alone means that the client has closed or is new.                *)
Hung == client \in peerClosed
CutInv ==
  /\ \A c \in Conns : conn[c] \in {"none", "backlog"} => wire[c] = <<>>
  /\ ready.client = "err" /\ worker = "accept" => Hung
  /\ ready.client = "err" /\ worker = "client" =>
       Hung \/ client = NoConn \/ wire[client] = <<>>

(* Every step keeps what the revents say.                                   *)
LEMMA CutKept == TypeOK /\ OwnInv /\ CutInv /\ [Next]_vars => CutInv'
<1> SUFFICES ASSUME TypeOK, OwnInv, CutInv, [Next]_vars PROVE CutInv'
  OBVIOUS
<1> USE ConnsAssumption
<1>1. CASE Poll
  <2>1. /\ UNCHANGED <<conn, wire, client, peerClosed>>
        /\ worker' \in {"accept", "exit"}
    BY <1>1 DEF Poll, netVars
  <2>2. ASSUME worker' = "accept", ready'.client = "err" PROVE Hung
    <3>1. PICK ev \in ClientEvents : ready' = [listen |-> Backlog # {}, client |-> ev]
      BY <1>1, <2>2 DEF Poll
    <3>2. ev = "err"
      BY <2>2, <3>1
    <3> QED BY <3>1, <3>2 DEF ClientEvents, Hung
  <2> QED BY <2>1, <2>2 DEF CutInv, Hung
<1>2. CASE Accept
  <2>1. PICK c \in Backlog : client' = c /\ conn' = Replace(c)
    BY <1>2 DEF Accept
  <2>2. wire'[client'] = <<>> /\ worker' = "client" /\ wire' = wire
    BY <1>2, <2>1 DEF Accept, CutInv, Backlog
  <2>3. \A d \in Conns : conn'[d] \in {"none", "backlog"} => conn[d] \in {"none", "backlog"}
    BY <2>1 DEF Replace
  <2> QED BY <2>2, <2>3 DEF CutInv
<1>3. CASE SkipAccept
  BY <1>3 DEF SkipAccept, netVars, CutInv, Hung
<1>4. CASE SendChunk
  <2>1. client \in Conns /\ conn[client] = "accepted"
    BY <1>4 DEF SendChunk, TypeOK, OwnInv
  <2>2. /\ \A d \in Conns : d # client => wire'[d] = wire[d]
        /\ conn' = conn /\ worker' = "send"
    BY <1>4, <2>1 DEF SendChunk, TypeOK
  <2> QED BY <2>1, <2>2 DEF CutInv
<1>5. CASE HangUp \/ EventFailed \/ Exit
  <2>1. wire' = wire /\ worker' \in {"flush", "top", "done"}
    BY <1>5 DEF HangUp, EventFailed, Exit
  <2>2. \A d \in Conns : conn'[d] \in {"none", "backlog"} => conn[d] \in {"none", "backlog"}
    BY <1>5 DEF HangUp, EventFailed, Exit, CloseClient, TypeOK
  <2> QED BY <2>1, <2>2 DEF CutInv
<1>6. CASE \/ Receive \/ NothingToRead \/ Dispatch \/ DispatchDone
            \/ ReplyReturns \/ EventSent \/ FlushTake \/ FlushDone
  <2>1. UNCHANGED <<conn, wire>> /\ worker' \notin {"accept", "client"}
    BY <1>6 DEF Receive, NothingToRead, Dispatch, DispatchDone, ReplyReturns, EventSent,
        FlushTake, FlushDone, netVars
  <2> QED BY <2>1 DEF CutInv
<1>7. CASE OwnerStep
  <2>1. /\ UNCHANGED <<conn, wire, client, ready, peerClosed>>
        /\ worker' = worker \/ worker' \in {"top", "off"}
    BY <1>7 DEF OwnerStep, Start, PublishCheck, PublishPush, RequestStop, Join, netVars
  <2> QED BY <2>1 DEF CutInv, Hung
<1>8. CASE ClientStep
  <2>1. /\ UNCHANGED <<wire, client, ready, worker>> /\ peerClosed \subseteq peerClosed'
        /\ \A d \in Conns : conn'[d] \in {"none", "backlog"} => conn[d] \in {"none", "backlog"}
    BY <1>8 DEF ClientStep, Connect, SendCommand, PeerClose, serverVars, TypeOK
  <2> QED BY <2>1 DEF CutInv, Hung
<1>9. CASE UNCHANGED vars
  BY <1>9 DEF vars, serverVars, netVars, CutInv, Hung
<1> QED
  BY <1>1, <1>2, <1>3, <1>4, <1>5, <1>6, <1>7, <1>8, <1>9 DEF Next, WorkerStep

(* Whatever poll reports and whomever accept_client() puts in the client's  *)
(* place, the receive step closes a client that was written to only when    *)
(* that client has closed itself.                                           *)
THEOREM SessionsNotCut == Spec => NoSessionCut
<1> DEFINE Cut == /\ worker = "client" /\ client # NoConn /\ client' = NoConn
                  /\ wire[client] # <<>>
           NotCut == Cut => client \in peerClosed
<1>1. Init => CutInv
  BY DEF Init, CutInv, NotReady
<1>2. CutInv /\ [Next]_vars => [NotCut]_vars
  <2> SUFFICES ASSUME CutInv, Next, Cut PROVE client \in peerClosed
    BY DEF vars
  <2>1. HangUp
    BY DEF Next, OwnerStep, WorkerStep, ClientStep, Start, PublishCheck, PublishPush,
        RequestStop, Join, Poll, Accept, SkipAccept, Receive, NothingToRead, Dispatch,
        DispatchDone, SendChunk, ReplyReturns, EventSent, EventFailed, FlushTake,
        FlushDone, Exit, Connect, SendCommand, PeerClose, serverVars
  <2> QED BY <2>1 DEF HangUp, OnlyErrors, PeerGone, CutInv, Hung
<1>3. Init => OwnInv
  BY ConnsAssumption DEF Init, OwnInv
<1> QED BY <1>1, <1>2, <1>3, OwnKept, CutKept, TypeCorrect, PTL DEF Spec, NoSessionCut

-----------------------------------------------------------------------------
(* The byte stream.                                                         *)

LastChunk(c) == wire[c][Len(wire[c])]
Current == [kind |-> line.kind, id |-> line.id, period |-> line.period, part |-> offset]

(* What is behind the last line end of a connection is the line being sent, *)
(* or what a reply left there, or the connection is over.                   *)
WireInv ==
  /\ WholeEventLines
  /\ \A c \in Conns : wire[c] # <<>> => conn[c] \in {"accepted", "dead"}
  /\ worker = "send" /\ offset > 0 => wire[client] # <<>> /\ LastChunk(client) = Current
  /\ \A c \in Conns :
       wire[c] # <<>> /\ LastChunk(c).kind = "event" /\ LastChunk(c).part # LineLen =>
         conn[c] = "dead" \/ (c = client /\ worker = "send" /\ offset > 0)

(* The only step that writes.                                               *)
LEMMA SendWire == TypeOK /\ OwnInv /\ WireInv /\ SendChunk => WireInv'
<1> SUFFICES ASSUME TypeOK, OwnInv, WireInv, SendChunk PROVE WireInv'
  OBVIOUS
<1> DEFINE new == [kind |-> line.kind, id |-> line.id, period |-> line.period,
                   part |-> offset + 1]
<1>0. /\ client \in Conns /\ worker = "send" /\ worker' = "send" /\ offset' = offset + 1
      /\ offset \in Nat /\ offset < LineLen /\ LineLen \in Nat
      /\ UNCHANGED <<line, client, conn>> /\ line.kind # "none"
  BY LineAssumption DEF TypeOK, SendChunk
<1>1. new \in Chunk /\ new.part = offset + 1 /\ new = Current'
  <2>1. line.kind \in {"reply", "event"} /\ line.id \in Nat /\ line.period \in Nat
    BY <1>0 DEF TypeOK, Lines
  <2>2. offset + 1 \in 1 .. LineLen
    BY <1>0
  <2>3. new = Current'
    BY <1>0 DEF Current
  <2> QED BY <2>1, <2>2, <2>3 DEF Chunk
<1>2. wire' = [wire EXCEPT ![client] = Append(@, new)] /\ wire \in [Conns -> Seq(Chunk)]
  BY DEF SendChunk, TypeOK
<1> HIDE DEF new
<1>3. \A c \in Conns : c # client => wire'[c] = wire[c]
  BY <1>2
<1>4. /\ wire'[client] = Append(wire[client], new) /\ wire[client] \in Seq(Chunk)
      /\ Len(wire'[client]) = Len(wire[client]) + 1 /\ Len(wire[client]) \in Nat
      /\ wire'[client][Len(wire'[client])] = new
      /\ \A i \in 1 .. Len(wire[client]) : wire'[client][i] = wire[client][i]
  BY <1>0, <1>1, <1>2
<1>5. wire'[client] # <<>>
  BY <1>4
(* What the new chunk follows.                                              *)
<1>6. ASSUME wire[client] # <<>>, LastChunk(client).kind = "event"
      PROVE  Follows(LastChunk(client), new)
  <2>1. conn[client] = "accepted"
    BY <1>0 DEF OwnInv
  <2>2. CASE offset = 0
    <3>1. LastChunk(client).part = LineLen
      BY <1>0, <1>6, <2>1, <2>2 DEF WireInv
    <3> QED BY <1>1, <2>2, <3>1 DEF Follows
  <2>3. CASE offset # 0
    <3>1. LastChunk(client) = Current /\ Current.part = offset
      BY <1>0, <2>3 DEF WireInv, Current
    <3>2. new = [Current EXCEPT !.part = Current.part + 1]
      BY DEF Current, new
    <3>3. Follows(Current, new)
      BY <1>0, <3>1, <3>2 DEF Follows
    <3> QED BY <3>1, <3>3
  <2> QED BY <2>2, <2>3
<1>7. WholeEventLines'
  <2> SUFFICES ASSUME NEW c \in Conns, NEW i \in 1 .. Len(wire'[c]) - 1,
                      wire'[c][i].kind = "event"
               PROVE  Follows(wire'[c][i], wire'[c][i + 1])
    BY DEF WholeEventLines, Follows
  <2>1. CASE c # client
    <3>1. i \in 1 .. Len(wire[c]) - 1 /\ wire[c][i].kind = "event"
          /\ wire'[c][i] = wire[c][i] /\ wire'[c][i + 1] = wire[c][i + 1]
      BY <1>3, <2>1
    <3>2. Follows(wire[c][i], wire[c][i + 1])
      BY <3>1 DEF WireInv, WholeEventLines
    <3> QED BY <3>1, <3>2
  <2>2. CASE c = client /\ i < Len(wire[client])
    <3>1. i \in 1 .. Len(wire[client]) - 1 /\ i + 1 \in 1 .. Len(wire[client])
          /\ i \in 1 .. Len(wire[client])
      BY <1>4, <2>2
    <3>2. wire'[c][i] = wire[client][i] /\ wire'[c][i + 1] = wire[client][i + 1]
      BY <1>4, <2>2, <3>1
    <3>3. Follows(wire[client][i], wire[client][i + 1])
      BY <1>0, <3>1, <3>2 DEF WireInv, WholeEventLines
    <3> QED BY <3>2, <3>3
  <2>3. CASE c = client /\ i = Len(wire[client])
    <3>1. wire'[c][i] = LastChunk(client) /\ wire'[c][i + 1] = new /\ wire[client] # <<>>
      BY <1>4, <2>3 DEF LastChunk
    <3> QED BY <1>6, <3>1
  <2> QED BY <1>4, <2>1, <2>2, <2>3
<1>8. \A c \in Conns : wire'[c] # <<>> => conn'[c] \in {"accepted", "dead"}
  BY <1>0, <1>3 DEF WireInv, OwnInv
<1>9. LastChunk(client)' = Current' /\ \A c \in Conns : c # client => LastChunk(c)' = LastChunk(c)
  BY <1>0, <1>1, <1>3, <1>4 DEF LastChunk
<1>10. \A c \in Conns :
         wire'[c] # <<>> /\ LastChunk(c)'.kind = "event" /\ LastChunk(c)'.part # LineLen =>
           conn'[c] = "dead" \/ (c = client' /\ worker' = "send" /\ offset' > 0)
  BY <1>0, <1>3, <1>9 DEF WireInv
<1> QED
  BY <1>0, <1>5, <1>7, <1>8, <1>9, <1>10 DEF WireInv

(* All others leave the bytes alone; a line that ends unfinished was a      *)
(* reply, or its connection ends with it.                                   *)
LEMMA OtherWire == TypeOK /\ OwnInv /\ WireInv /\ [Next]_vars /\ ~SendChunk => WireInv'
<1> SUFFICES ASSUME TypeOK, OwnInv, WireInv, [Next]_vars, ~SendChunk PROVE WireInv'
  OBVIOUS
<1>1. wire' = wire
  BY DEF Next, OwnerStep, WorkerStep, ClientStep, Start, PublishCheck, PublishPush,
      RequestStop, Join, Poll, Accept, SkipAccept, Receive, HangUp, NothingToRead, Dispatch,
      DispatchDone, ReplyReturns, EventSent, EventFailed, FlushTake, FlushDone, Exit,
      Connect, SendCommand, PeerClose, serverVars, netVars, vars
<1>2. WholeEventLines'
  BY <1>1 DEF WireInv, WholeEventLines, Follows
<1>3. \A c \in Conns : conn[c] \in {"accepted", "dead"} => conn'[c] \in {"accepted", "dead"}
  BY DEF TypeOK, Next, OwnerStep, WorkerStep, ClientStep, Start, PublishCheck, PublishPush,
      RequestStop, Join, Poll, Accept, Replace, Backlog, SkipAccept, Receive, HangUp,
      NothingToRead, CloseClient, Dispatch, DispatchDone, ReplyReturns, EventSent,
      EventFailed, FlushTake, FlushDone, Exit, Connect, SendCommand, PeerClose, serverVars,
      netVars, vars
<1>4. \A c \in Conns : LastChunk(c)' = LastChunk(c)
  BY <1>1 DEF LastChunk
(* Who is in the middle of a line.                                          *)
<1>5. \/ UNCHANGED <<worker, client, line, offset>>
      \/ worker # "send" /\ (worker' # "send" \/ offset' = 0)
      \/ worker = "send" /\ worker' # "send"
  BY DEF Next, OwnerStep, WorkerStep, ClientStep, Start, PublishCheck, PublishPush,
      RequestStop, Join, Poll, Accept, SkipAccept, Receive, HangUp, NothingToRead, Dispatch,
      DispatchDone, ReplyReturns, EventSent, EventFailed, FlushTake, FlushDone, Exit,
      Connect, SendCommand, PeerClose, serverVars, netVars, vars, OwnInv, TypeOK
<1>6. worker' = "send" /\ offset' > 0 => wire'[client'] # <<>> /\ LastChunk(client') = Current'
  BY <1>1, <1>4, <1>5 DEF WireInv, Current
<1>7. ASSUME NEW c \in Conns, conn[c] = "dead" PROVE conn'[c] = "dead"
  BY <1>7 DEF TypeOK, OwnInv, Next, OwnerStep, WorkerStep, ClientStep, Start, PublishCheck,
      PublishPush, RequestStop, Join, Poll, Accept, Replace, Backlog, SkipAccept, Receive,
      HangUp, NothingToRead, CloseClient, Dispatch, DispatchDone, ReplyReturns, EventSent,
      EventFailed, FlushTake, FlushDone, Exit, Connect, SendCommand, PeerClose, serverVars,
      netVars, vars
<1>8. ASSUME worker = "send", worker' # "send", offset > 0, offset # LineLen
      PROVE  line.kind = "reply" \/ conn'[client] = "dead"
  <2>1. client \in Conns /\ client # NoConn
    BY <1>8, ConnsAssumption DEF TypeOK
  <2>2. CASE ReplyReturns
    BY <2>2 DEF ReplyReturns
  <2>3. CASE EventSent
    BY <1>8, <2>3 DEF EventSent
  <2>4. CASE EventFailed
    <3>1. conn' = [conn EXCEPT ![client] = "dead"]
      BY <2>1, <2>4 DEF EventFailed, CloseClient
    <3> QED BY <2>1, <3>1 DEF TypeOK
  <2>5. CASE ~(ReplyReturns \/ EventSent \/ EventFailed)
    <3>1. worker' = worker
      BY <1>8, <2>5 DEF TypeOK, OwnInv, Next, OwnerStep, WorkerStep, ClientStep, Start,
          PublishCheck, PublishPush, RequestStop, Join, Poll, Accept, SkipAccept, Receive,
          HangUp, NothingToRead, Dispatch, DispatchDone, FlushTake, FlushDone, Exit,
          Connect, SendCommand, PeerClose, serverVars, vars
    <3> QED BY <1>8, <3>1
  <2> QED BY <2>2, <2>3, <2>4, <2>5
<1>9. ASSUME NEW c \in Conns, wire[c] # <<>>, LastChunk(c).kind = "event",
             LastChunk(c).part # LineLen
      PROVE  conn'[c] = "dead" \/ (c = client' /\ worker' = "send" /\ offset' > 0)
  <2>1. CASE conn[c] = "dead"
    BY <1>7, <2>1
  <2>2. CASE c = client /\ worker = "send" /\ offset > 0
    <3>1. LastChunk(c) = Current
      BY <2>2 DEF WireInv
    <3>2. line.kind = "event" /\ offset # LineLen
      BY <1>9, <3>1 DEF Current
    <3> QED BY <1>5, <1>8, <2>2, <3>2
  <2> QED BY <1>9, <2>1, <2>2 DEF WireInv
<1> QED
  BY <1>1, <1>2, <1>3, <1>4, <1>6, <1>9 DEF WireInv, LastChunk

(* However a connection ends, is replaced or is written to in pieces, an    *)
(* event on it is whole or the last thing it gets (flush_events).           *)
THEOREM EventLinesWhole == Spec => []WholeEventLines
<1>1. Init => OwnInv /\ WireInv
  BY ConnsAssumption DEF Init, OwnInv, WireInv, WholeEventLines
<1>2. TypeOK /\ OwnInv /\ WireInv /\ [Next]_vars => OwnInv' /\ WireInv'
  BY OwnKept, SendWire, OtherWire
<1>3. WireInv => WholeEventLines
  BY DEF WireInv
<1> QED BY <1>1, <1>2, <1>3, TypeCorrect, PTL DEF Spec

==============================================================================
