------------------------------ MODULE TcpServer ------------------------------
(***************************************************************************)
(* The TCP event service (src/tcp_server.cpp).  Two threads of the program *)
(* meet here: the owner, the UI thread that starts the service, publishes  *)
(* region events into a bounded queue and stops it, and the worker, which  *)
(* polls the listening socket and the single client, executes command      *)
(* lines and writes the queued events.  The kernel and the remote clients  *)
(* are the environment.                                                    *)
(*                                                                         *)
(* A line is LineLen chunks, because send() may accept only a prefix of    *)
(* it.  Commands arrive as whole lines here (CommandFramer has the         *)
(* reassembly), and QUERY stands for PING, GET_STATUS and any unknown      *)
(* command: one reply, no change of state.                                 *)
(***************************************************************************)
EXTENDS Naturals, Sequences

CONSTANTS
  Conns,            (* connections clients may make, each used once         *)
  NoConn,           (* client_fd_ = -1                                      *)
  MaxQueue,         (* max_event_queue_                                     *)
  LineLen,          (* chunks of one line on the byte stream                *)
  MaxEvents,        (* bound: events published                              *)
  MaxCmds,          (* bound: commands sent by all clients together         *)
  MaxStarts         (* bound: calls of start()                              *)

ASSUME ConnsAssumption == NoConn \notin Conns
ASSUME QueueAssumption == MaxQueue \in Nat \ {0}  (* the constructor throws on 0 *)
ASSUME LineAssumption  == LineLen \in Nat \ {0}
ASSUME BoundsAssumption ==
  MaxEvents \in Nat /\ MaxCmds \in Nat /\ MaxStarts \in Nat

VARIABLES
  owner,      (* control point of the owner thread                          *)
  worker,     (* control point of the worker thread                         *)
  stop,       (* stop_requested_                                            *)
  subscribed, (* subscribed_                                                *)
  queue,      (* event_queue_                                               *)
  locked,     (* event_mutex_ is held by the worker across a send           *)
  dropped,    (* dropped_events_                                            *)
  client,     (* client_fd_                                                 *)
  listening,  (* listen_fd_ is open                                         *)
  ready,      (* revents of the last poll                                   *)
  cmds,       (* command lines of the last recv not yet executed            *)
  line,       (* the line being sent                                        *)
  offset      (* chunks of it the kernel has accepted                       *)

serverVars == <<owner, worker, stop, subscribed, queue, locked, dropped,
                client, listening, ready, cmds, line, offset>>

VARIABLES
  conn,       (* kernel: state of each connection                           *)
  rx,         (* kernel: command lines received and not read                *)
  peerClosed, (* connections the remote side has closed                     *)
  wire        (* chunks written to each connection                          *)

netVars == <<conn, rx, peerClosed, wire>>

(* Auxiliary: they record history and no guard of the server reads them.    *)
VARIABLES
  starts,     (* calls of start()                                           *)
  sentCmds,   (* commands sent by clients                                   *)
  pushed,     (* events pushed; the number of the newest                    *)
  taken,      (* events moved out of the queue to be sent                   *)
  lastTaken,  (* number of the newest event moved out                       *)
  discarded,  (* events removed by a clear of the queue                     *)
  period,     (* subscription periods begun so far                          *)
  seen        (* the period in which publish_event read subscribed_         *)

auxVars == <<starts, sentCmds, pushed, taken, lastTaken, discarded, period, seen>>

vars == <<serverVars, netVars, auxVars>>

-----------------------------------------------------------------------------

Commands == {"QUERY", "SUBSCRIBE", "UNSUBSCRIBE"}
Event    == [id : Nat, period : Nat]
NoLine   == [kind |-> "none", id |-> 0, period |-> 0]
Reply    == [kind |-> "reply", id |-> 0, period |-> 0]
EventLine(e) == [kind |-> "event", id |-> e.id, period |-> e.period]
Lines    == [kind : {"none", "reply", "event"}, id : Nat, period : Nat]
Chunk    == [kind : {"reply", "event"}, id : Nat, period : Nat, part : 1 .. LineLen]
NotReady == [listen |-> FALSE, client |-> "none"]

Backlog == {c \in Conns : conn[c] = "backlog"}

Init ==
  /\ owner = "idle" /\ worker = "off" /\ stop = FALSE /\ subscribed = FALSE
  /\ queue = <<>> /\ locked = FALSE /\ dropped = 0
  /\ client = NoConn /\ listening = FALSE /\ ready = NotReady
  /\ cmds = <<>> /\ line = NoLine /\ offset = 0
  /\ conn = [c \in Conns |-> "none"]
  /\ rx = [c \in Conns |-> <<>>]
  /\ peerClosed = {}
  /\ wire = [c \in Conns |-> <<>>]
  /\ starts = 0 /\ sentCmds = 0 /\ pushed = 0 /\ taken = 0 /\ lastTaken = 0
  /\ discarded = 0 /\ period = 0 /\ seen = 0

-----------------------------------------------------------------------------
(* The owner thread.                                                        *)

(* start(): a failing socket, bind or listen throws before any of this.     *)
Start ==
  /\ owner = "idle" /\ starts < MaxStarts
  /\ owner' = "run" /\ worker' = "top"
  /\ stop' = FALSE /\ subscribed' = FALSE
  /\ queue' = <<>> /\ discarded' = discarded + Len(queue)
  /\ listening' = TRUE
  /\ starts' = starts + 1
  /\ UNCHANGED <<locked, dropped, client, ready, cmds, line, offset, netVars,
                 sentCmds, pushed, taken, lastTaken, period, seen>>

(* publish_event() up to the lock.  When nobody is subscribed it returns.   *)
PublishCheck ==
  /\ owner = "run" /\ pushed < MaxEvents
  /\ subscribed
  /\ owner' = "push" /\ seen' = period
  /\ UNCHANGED <<worker, stop, subscribed, queue, locked, dropped, client,
                 listening, ready, cmds, line, offset, netVars, starts,
                 sentCmds, pushed, taken, lastTaken, discarded, period>>

QueueFull == Len(queue) >= MaxQueue

MutantCountDrop == dropped  (* mutant: the drop is not counted *)
CountDrop == IF QueueFull THEN dropped + 1 ELSE dropped

(* publish_event() under event_mutex_: a full queue loses its oldest entry. *)
PublishPush ==
  /\ owner = "push" /\ ~locked
  /\ LET kept == IF QueueFull THEN Tail(queue) ELSE queue
     IN  queue' = Append(kept, [id |-> pushed + 1, period |-> seen])
  /\ dropped' = CountDrop
  /\ pushed' = pushed + 1
  /\ owner' = "run"
  /\ UNCHANGED <<worker, stop, subscribed, locked, client, listening, ready,
                 cmds, line, offset, netVars, starts, sentCmds, taken,
                 lastTaken, discarded, period, seen>>

(* stop(): raise the flag, then join.                                       *)
RequestStop ==
  /\ owner = "run"
  /\ owner' = "join" /\ stop' = TRUE
  /\ UNCHANGED <<worker, subscribed, queue, locked, dropped, client, listening,
                 ready, cmds, line, offset, netVars, auxVars>>

Join ==
  /\ owner = "join" /\ worker = "done"
  /\ owner' = "idle" /\ worker' = "off" /\ subscribed' = FALSE
  /\ UNCHANGED <<stop, queue, locked, dropped, client, listening, ready, cmds,
                 line, offset, netVars, auxVars>>

-----------------------------------------------------------------------------
(* The worker thread.                                                       *)

(* close_client().  The publisher holds event_mutex_ only inside one step   *)
(* of this model, so the lock is free whenever the worker asks for it, and  *)
(* storing the flag and clearing the queue is one step: a push that falls   *)
(* between the two is cleared, exactly as one that comes before both.       *)
MutantDiscard == subscribed' = FALSE /\ UNCHANGED <<queue, discarded>>
Discard ==
  /\ subscribed' = FALSE
  /\ queue' = <<>> /\ discarded' = discarded + Len(queue)

CloseClient ==
  /\ Discard
  /\ client' = NoConn
  /\ conn' = IF client = NoConn THEN conn ELSE [conn EXCEPT ![client] = "dead"]
  /\ cmds' = <<>>

(* What poll reports of the client: input, also when the peer has closed;   *)
(* with nothing left to read it may be POLLERR or POLLHUP without POLLIN.   *)
ClientEvents ==
  IF client \in peerClosed /\ rx[client] = <<>> THEN {"in", "err"}
  ELSE IF client \in peerClosed \/ (client # NoConn /\ rx[client] # <<>>) THEN {"in"}
  ELSE {"none"}

MutantKeepRunning == TRUE  (* mutant: the loop forgets stop_requested_ *)
KeepRunning == ~stop

(* The head of run()'s loop: leave it on stop or when poll fails, else keep *)
(* the revents of both descriptors.  A timeout reports nothing ready.       *)
Poll ==
  /\ worker = "top"
  /\ \/ /\ KeepRunning
        /\ \E ev \in ClientEvents :
             ready' = [listen |-> Backlog # {}, client |-> ev]
        /\ worker' = "accept"
     \/ /\ worker' = "exit"  (* stop_requested_, or poll failed *)
        /\ UNCHANGED ready
  /\ UNCHANGED <<owner, stop, subscribed, queue, locked, dropped, client,
                 listening, cmds, line, offset, netVars, auxVars>>

(* accept_client(): a new connection replaces the client.                   *)
MutantReplace(c) == [conn EXCEPT ![c] = "accepted"]  (* mutant: old fd left open *)
Replace(c) ==
  [d \in Conns |-> IF d = c THEN "accepted" ELSE IF d = client THEN "dead" ELSE conn[d]]

Accept ==
  /\ worker = "accept" /\ ready.listen
  /\ \E c \in Backlog :
       /\ Discard
       /\ client' = c
       /\ conn' = Replace(c)
       /\ cmds' = <<>>
  /\ worker' = "client"
  /\ UNCHANGED <<owner, stop, locked, dropped, listening, ready, line, offset,
                 rx, peerClosed, wire, starts, sentCmds, pushed, taken,
                 lastTaken, period, seen>>

(* No connection is waiting, or accept() failed.                            *)
SkipAccept ==
  /\ worker = "accept"
  /\ worker' = "client"
  /\ UNCHANGED <<owner, stop, subscribed, queue, locked, dropped, client,
                 listening, ready, cmds, line, offset, netVars, auxVars>>

MutantPeerGone(c) == rx[c] = <<>>  (* mutant: EAGAIN taken for end of stream *)
PeerGone(c) == rx[c] = <<>> /\ c \in peerClosed

(* receive_client_data(): recv() returns some of the bytes, or would block. *)
(* ready.client may be about a client that accept_client() just replaced.   *)
Receive ==
  /\ worker = "client" /\ client # NoConn /\ ready.client = "in"
  /\ \/ /\ rx[client] # <<>>
        /\ \E n \in 1 .. Len(rx[client]) :
             /\ cmds' = SubSeq(rx[client], 1, n)
             /\ rx' = [rx EXCEPT ![client] = SubSeq(@, n + 1, Len(@))]
        /\ worker' = "dispatch"
     \/ /\ rx[client] = <<>> /\ ~PeerGone(client)
        /\ worker' = "flush"
        /\ UNCHANGED <<cmds, rx>>
  /\ UNCHANGED <<owner, stop, subscribed, queue, locked, dropped, client,
                 listening, ready, line, offset, conn, peerClosed, wire, auxVars>>

MutantOnlyErrors == ready.client # "in"  (* mutant: else without the first test *)
OnlyErrors == ready.client = "err"

(* recv() returned 0 or an error, or poll reported only POLLERR or POLLHUP, *)
(* of this client or of the one accept_client() has just replaced.          *)
HangUp ==
  /\ worker = "client" /\ client # NoConn
  /\ \/ ready.client = "in" /\ PeerGone(client)
     \/ OnlyErrors
  /\ CloseClient
  /\ worker' = "flush"
  /\ UNCHANGED <<owner, stop, locked, dropped, listening, ready, line, offset,
                 rx, peerClosed, wire, starts, sentCmds, pushed, taken,
                 lastTaken, period, seen>>

NothingToRead ==
  /\ worker = "client" /\ (client = NoConn \/ ready.client = "none")
  /\ worker' = "flush"
  /\ UNCHANGED <<owner, stop, subscribed, queue, locked, dropped, client,
                 listening, ready, cmds, line, offset, netVars, auxVars>>

(* handle_command() up to its reply.                                        *)
Dispatch ==
  /\ worker = "dispatch" /\ cmds # <<>>
  /\ cmds' = Tail(cmds)
  /\ line' = Reply /\ offset' = 0
  /\ worker' = "send"
  /\ \/ /\ Head(cmds) = "QUERY"
        /\ UNCHANGED <<subscribed, queue, locked, discarded, period>>
     \/ /\ Head(cmds) = "SUBSCRIBE"
        /\ subscribed' = TRUE
        /\ period' = IF subscribed THEN period ELSE period + 1
        /\ UNCHANGED <<queue, locked, discarded>>
     \/ /\ Head(cmds) = "UNSUBSCRIBE"
        /\ Discard
        /\ locked' = TRUE  (* the lock_guard outlives send_status() *)
        /\ UNCHANGED period
  /\ UNCHANGED <<owner, stop, dropped, client, listening, ready, netVars,
                 starts, sentCmds, pushed, taken, lastTaken, seen>>

DispatchDone ==
  /\ worker = "dispatch" /\ cmds = <<>>
  /\ worker' = "flush"
  /\ UNCHANGED <<owner, stop, subscribed, queue, locked, dropped, client,
                 listening, ready, cmds, line, offset, netVars, auxVars>>

(* One send() of send_line()'s loop.                                        *)
SendChunk ==
  /\ worker = "send" /\ offset < LineLen /\ ~stop
  /\ wire' = [wire EXCEPT ![client] =
                Append(@, [kind |-> line.kind, id |-> line.id,
                           period |-> line.period, part |-> offset + 1])]
  /\ offset' = offset + 1
  /\ UNCHANGED <<owner, worker, stop, subscribed, queue, locked, dropped,
                 client, listening, ready, cmds, line, conn, rx, peerClosed, auxVars>>

(* send_line() has returned to handle_command(), which ignores the result:  *)
(* a full line, a send buffer full for kPollTimeoutMs, a dead peer or stop. *)
ReplyReturns ==
  /\ worker = "send" /\ line.kind = "reply"
  /\ worker' = "dispatch" /\ locked' = FALSE
  /\ line' = NoLine /\ offset' = 0
  /\ UNCHANGED <<owner, stop, subscribed, queue, dropped, client, listening,
                 ready, cmds, netVars, auxVars>>

(* send_line() has returned TRUE to flush_events().                         *)
EventSent ==
  /\ worker = "send" /\ line.kind = "event" /\ offset = LineLen
  /\ worker' = "flush"
  /\ line' = NoLine /\ offset' = 0
  /\ UNCHANGED <<owner, stop, subscribed, queue, locked, dropped, client,
                 listening, ready, cmds, netVars, auxVars>>

(* send_line() has returned FALSE to flush_events(), which closes.          *)
MutantEventFailed ==  (* mutant: the result of send_line is ignored *)
  /\ worker = "send" /\ line.kind = "event" /\ offset < LineLen
  /\ worker' = "flush"
  /\ line' = NoLine /\ offset' = 0
  /\ UNCHANGED <<owner, stop, subscribed, queue, locked, dropped, client,
                 listening, ready, cmds, netVars, auxVars>>
EventFailed ==
  /\ worker = "send" /\ line.kind = "event" /\ offset < LineLen
  /\ CloseClient
  /\ worker' = "top"
  /\ line' = NoLine /\ offset' = 0
  /\ UNCHANGED <<owner, stop, locked, dropped, listening, ready, rx, peerClosed,
                 wire, starts, sentCmds, pushed, taken, lastTaken, period, seen>>

MutantOldest == queue[Len(queue)]  (* mutant: back() instead of front() *)
Oldest == Head(queue)

(* flush_events() takes the oldest event under the lock and sends outside.  *)
FlushTake ==
  /\ worker = "flush" /\ client # NoConn /\ subscribed /\ queue # <<>>
  /\ line' = EventLine(Oldest) /\ offset' = 0
  /\ queue' = Tail(queue)
  /\ taken' = taken + 1 /\ lastTaken' = Oldest.id
  /\ worker' = "send"
  /\ UNCHANGED <<owner, stop, subscribed, locked, dropped, client, listening,
                 ready, cmds, netVars, starts, sentCmds, pushed, discarded,
                 period, seen>>

MutantFlushDone ==  (* mutant: flush only after socket activity *)
  /\ worker = "flush" /\ (client = NoConn \/ ~subscribed \/ queue = <<>> \/ ready = NotReady)
  /\ worker' = "top"
  /\ UNCHANGED <<owner, stop, subscribed, queue, locked, dropped, client,
                 listening, ready, cmds, line, offset, netVars, auxVars>>
FlushDone ==
  /\ worker = "flush" /\ (client = NoConn \/ ~subscribed \/ queue = <<>>)
  /\ worker' = "top"
  /\ UNCHANGED <<owner, stop, subscribed, queue, locked, dropped, client,
                 listening, ready, cmds, line, offset, netVars, auxVars>>

(* After the loop: close both sockets; the kernel resets what is queued.    *)
Exit ==
  /\ worker = "exit"
  /\ Discard
  /\ client' = NoConn /\ cmds' = <<>>
  /\ listening' = FALSE
  /\ conn' = [c \in Conns |-> IF c = client \/ c \in Backlog THEN "dead" ELSE conn[c]]
  /\ worker' = "done"
  /\ UNCHANGED <<owner, stop, locked, dropped, ready, line, offset, rx,
                 peerClosed, wire, starts, sentCmds, pushed, taken, lastTaken,
                 period, seen>>

-----------------------------------------------------------------------------
(* The remote clients.                                                      *)

Alive(c) == conn[c] \in {"backlog", "accepted"} /\ c \notin peerClosed

Connect(c) ==
  /\ conn[c] = "none" /\ listening
  /\ conn' = [conn EXCEPT ![c] = "backlog"]
  /\ UNCHANGED <<serverVars, rx, peerClosed, wire, auxVars>>

SendCommand(c) ==
  /\ Alive(c) /\ sentCmds < MaxCmds
  /\ \E cmd \in Commands : rx' = [rx EXCEPT ![c] = Append(@, cmd)]
  /\ sentCmds' = sentCmds + 1
  /\ UNCHANGED <<serverVars, conn, peerClosed, wire, starts, pushed, taken,
                 lastTaken, discarded, period, seen>>

PeerClose(c) ==
  /\ Alive(c)
  /\ peerClosed' = peerClosed \cup {c}
  /\ UNCHANGED <<serverVars, conn, rx, wire, auxVars>>

-----------------------------------------------------------------------------

OwnerStep  == Start \/ PublishCheck \/ PublishPush \/ RequestStop \/ Join
WorkerStep == \/ Poll \/ Accept \/ SkipAccept
              \/ Receive \/ HangUp \/ NothingToRead
              \/ Dispatch \/ DispatchDone
              \/ SendChunk \/ ReplyReturns \/ EventSent \/ EventFailed
              \/ FlushTake \/ FlushDone \/ Exit
ClientStep == \E c \in Conns : Connect(c) \/ SendCommand(c) \/ PeerClose(c)

Next == OwnerStep \/ WorkerStep \/ ClientStep

Spec == Init /\ [][Next]_vars

(* The scheduler runs the worker and lets the owner take a free mutex or    *)
(* return from a join; nobody has to publish, stop, connect or send.        *)
FairSpec == Spec /\ WF_vars(WorkerStep) /\ WF_vars(PublishPush) /\ WF_vars(Join)

-----------------------------------------------------------------------------
(* Properties.                                                              *)

(* Every variable has its type; the control points of the two threads agree *)
(* with the socket and the line they work on.                               *)
TypeOK ==
  /\ owner \in {"idle", "run", "push", "join"}
  /\ worker \in {"off", "top", "accept", "client", "dispatch", "send",
                 "flush", "exit", "done"}
  /\ stop \in BOOLEAN /\ subscribed \in BOOLEAN /\ locked \in BOOLEAN
  /\ queue \in Seq(Event) /\ dropped \in Nat
  /\ client \in Conns \cup {NoConn} /\ listening \in BOOLEAN
  /\ ready \in [listen : BOOLEAN, client : {"none", "in", "err"}]
  /\ cmds \in Seq(Commands) /\ line \in Lines /\ offset \in 0 .. LineLen
  /\ conn \in [Conns -> {"none", "backlog", "accepted", "dead"}]
  /\ rx \in [Conns -> Seq(Commands)] /\ peerClosed \subseteq Conns
  /\ wire \in [Conns -> Seq(Chunk)]
  /\ starts \in Nat /\ sentCmds \in Nat /\ pushed \in Nat /\ taken \in Nat
  /\ lastTaken \in Nat /\ discarded \in Nat /\ period \in Nat /\ seen \in Nat
  /\ worker \in {"dispatch", "send"} => client # NoConn
  /\ worker = "send" => line.kind # "none"

(* The backlog of a slow subscriber is bounded by max_event_queue_, and no  *)
(* event disappears unaccounted for: each one pushed is still queued,       *)
(* was taken to be sent, was dropped by a full queue and counted in         *)
(* dropped_events_, or was discarded with the session it belonged to.       *)
QueueBound == Len(queue) <= MaxQueue
Accounting == QueueBound /\ pushed = Len(queue) + taken + dropped + discarded

(* The unlocked test of subscribed_ in publish_event can let an event slip  *)
(* into the queue after the session was torn down, but only one: it is the  *)
(* oldest entry, every later one belongs to the current subscription.       *)
AtMostOneStale ==
  /\ \A i \in 2 .. Len(queue) : queue[i].period = period
  /\ ~subscribed => Len(queue) <= 1

(* An event line is whole or the last thing on its connection: flush_events *)
(* closes the client when send_line gives up in the middle of an event.     *)
Follows(a, b) ==
  IF a.part = LineLen THEN b.part = 1 ELSE b = [a EXCEPT !.part = @ + 1]
WholeEventLines ==
  \A c \in Conns : \A i \in 1 .. Len(wire[c]) - 1 :
    wire[c][i].kind = "event" => Follows(wire[c][i], wire[c][i + 1])

(* What the comments say: the queue and the subscription of a session end   *)
(* with its connection, so the events of one subscription never reach two   *)
(* connections, whatever was in flight when the client was replaced.        *)
FreshEvents ==
  \A c, d \in Conns : \A i \in 1 .. Len(wire[c]) : \A j \in 1 .. Len(wire[d]) :
    (wire[c][i].kind = "event" /\ wire[d][j].kind = "event" /\ c # d)
      => wire[c][i].period # wire[d][j].period

(* The accepted sockets are exactly the one client_fd_ names, through       *)
(* replacement, disconnects, failed sends and stop; after stop() has        *)
(* returned no socket is open.                                              *)
DescriptorsOwned ==
  /\ \A c \in Conns : conn[c] = "accepted" <=> c = client
  /\ owner = "idle" => ~listening /\ client = NoConn

(* The revents of the last poll may be about a connection accept_client has *)
(* replaced since.  They can cost the newcomer its connection, but never a  *)
(* session in being: a client the server has written to is closed by the    *)
(* receive step only when its own peer has closed.                          *)
NoSessionCut ==
  [][(worker = "client" /\ client # NoConn /\ client' = NoConn /\ wire[client] # <<>>)
       => client \in peerClosed]_vars

(* The events handed to the socket are in publication order, each at most   *)
(* once, across sessions and restarts.                                      *)
Stream == INSTANCE LossyStream WITH
  produced <- pushed, consumed <- lastTaken, delivered <- taken
StreamSpec == Stream!Spec

(* A subscribed client gets the queued events, or the session ends; no      *)
(* further socket activity is needed for the queue to empty.                *)
QueueDrains == queue # <<>> /\ subscribed ~> queue = <<>>

(* The application never waits for the worker for ever.  stop() returns:    *)
(* the worker notices the flag wherever it is, also in the middle of        *)
(* sending to a peer that does not read; and so does publish_event(),       *)
(* although UNSUBSCRIBE_EVENTS sends its reply with event_mutex_ held.      *)
CallsReturn == (owner = "join" ~> owner = "idle") /\ (owner = "push" ~> owner = "run")

==============================================================================
