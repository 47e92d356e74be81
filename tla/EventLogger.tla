------------------------------ MODULE EventLogger ------------------------------
(***************************************************************************)
(* The event logger that runs on the PC (tools/pc_event_logger.cpp): it    *)
(* subscribes, puts the lines of the server's stream together again from   *)
(* reads of any length, and writes a row for each event.                   *)
(*                                                                         *)
(* The server's side of the stream is what TcpServer's WholeEventLines     *)
(* says of it: lines of events are whole, or the last thing of the         *)
(* connection; a reply may be cut anywhere and the next line follow it     *)
(* without a line end.  A line is cut into the parts the logger tells      *)
(* apart: what comes before the value of "type", that value, the rest of   *)
(* an event, and the line end.                                             *)
(***************************************************************************)
EXTENDS Naturals, Sequences

CONSTANTS
  MaxRead,   (* parts of the largest recv                                    *)
  MaxStream  (* bound: parts the server sends on one connection              *)

VARIABLES
  loggerPc,  (* control point of main()                                      *)
  loggerStop,(* stop_requested: Ctrl+C, or the console was closed            *)
  pending,   (* bytes behind the last line end                               *)
  rows,      (* the events in the CSV file, by their number                  *)
  wire       (* auxiliary: all that was received on this connection          *)

loggerVars == <<loggerPc, loggerStop, pending, rows, wire>>

LoggerAssumption == MaxRead \in Nat
ASSUME LoggerAssumption

(* Part p of the n-th line of the stream, which is of kind k.  An odd line  *)
(* says that it is an event and lacks a field.                              *)
Layout == [event |-> <<"head", "type", "rest", "end">>, odd   |-> <<"head", "type", "end">>,
           reply |-> <<"head", "type", "end">>]
Part(n, k, p) == [n |-> n, kind |-> k, part |-> p]

(* The parts the server may send behind the part p, and behind a stream.    *)
Begun(n) == {Part(n, k, "head") : k \in DOMAIN Layout}
After(p) ==
  LET layout == Layout[p.kind]
  IN  {Part(p.n, p.kind, layout[i]) : i \in {j \in 2 .. Len(layout) : layout[j - 1] = p.part}}
      \cup (IF p.part = "end" \/ p.kind = "reply" THEN Begun(p.n + 1) ELSE {})
NextParts(w) == IF w = <<>> THEN Begun(1) ELSE After(w[Len(w)])

(* The streams a recv may make of w: longer by up to MaxRead parts.         *)
Longer(w) ==
  LET grown[n \in 0 .. MaxRead] ==
        IF n = 0 THEN {w}
        ELSE UNION {{Append(v, p) : p \in NextParts(v)} : v \in grown[n - 1]}
  IN  UNION {grown[n] : n \in 1 .. MaxRead}

LoggerInit ==
  /\ loggerPc = "off" /\ loggerStop = FALSE /\ pending = <<>> /\ rows = <<>> /\ wire = <<>>

-----------------------------------------------------------------------------

(* A new run: the CSV file is emptied before the server is reached.         *)
StartLogger ==
  /\ loggerPc \in {"off", "ended"} /\ loggerPc' = "connect"
  /\ loggerStop' = FALSE /\ pending' = <<>> /\ rows' = <<>> /\ wire' = <<>>

ConnectAndSubscribe ==
  /\ loggerPc = "connect" /\ loggerPc' = "recv"
  /\ UNCHANGED <<loggerStop, pending, rows, wire>>

(* The host is unknown, refuses, or is gone before SUBSCRIBE_EVENTS is out. *)
CannotSubscribe ==
  /\ loggerPc = "connect" /\ loggerPc' = "ended"
  /\ UNCHANGED <<loggerStop, pending, rows, wire>>

Interrupt ==
  /\ loggerPc \notin {"off", "ended"} /\ loggerStop' = TRUE
  /\ UNCHANGED <<loggerPc, pending, rows, wire>>

(* recv() brings bytes; when it times out nothing changes.                  *)
MutantReceiveEvents ==  (* mutant: each read is taken for whole lines *)
  /\ loggerPc = "recv" /\ ~loggerStop /\ loggerPc' = "lines" /\ Len(wire) < MaxStream
  /\ wire' \in Longer(wire)
  /\ pending' = SubSeq(wire', Len(wire) + 1, Len(wire'))
  /\ UNCHANGED <<loggerStop, rows>>
ReceiveEvents ==
  /\ loggerPc = "recv" /\ ~loggerStop /\ loggerPc' = "lines" /\ Len(wire) < MaxStream
  /\ wire' \in Longer(wire)
  /\ pending' = pending \o SubSeq(wire', Len(wire) + 1, Len(wire'))
  /\ UNCHANGED <<loggerStop, rows>>

(* record_event: the first "type" of the line decides what the line is, and *)
(* an event without its other fields is refused.                            *)
Places(l, what) == {i \in DOMAIN l : l[i].part = what}
First(positions) == CHOOSE i \in positions : \A j \in positions : i <= j
TypeOf(l) == l[First(Places(l, "type"))]
Recorded(l) ==
  Places(l, "type") # {} /\ TypeOf(l).kind \in {"event", "odd"} /\ Places(l, "rest") # {}

(* One line of pending; with none left, back to recv.                       *)
RecordLine ==
  /\ loggerPc = "lines"
  /\ LET ends == Places(pending, "end")
         l    == SubSeq(pending, 1, First(ends))
     IN  IF ends = {} THEN loggerPc' = "recv" /\ UNCHANGED <<pending, rows>>
         ELSE /\ pending' = SubSeq(pending, First(ends) + 1, Len(pending))
              /\ rows' = IF Recorded(l) THEN Append(rows, TypeOf(l).n) ELSE rows
              /\ UNCHANGED loggerPc
  /\ UNCHANGED <<loggerStop, wire>>

(* Interrupted, closed by the server, or broken: the unfinished line is     *)
(* dropped.                                                                 *)
EndLogger ==
  /\ loggerPc = "recv" /\ loggerPc' = "ended"
  /\ UNCHANGED <<loggerStop, pending, rows, wire>>

LoggerNext ==
  \/ StartLogger \/ ConnectAndSubscribe \/ CannotSubscribe \/ Interrupt
  \/ ReceiveEvents \/ RecordLine \/ EndLogger

LoggerSpec == LoggerInit /\ [][LoggerNext]_loggerVars

-----------------------------------------------------------------------------
LoggerTypeOK ==
  /\ loggerPc \in {"off", "connect", "recv", "lines", "ended"} /\ loggerStop \in BOOLEAN
  /\ Len(pending) <= Len(wire)
  /\ pending = SubSeq(wire, Len(wire) - Len(pending) + 1, Len(wire))

CutBefore(n) == n > 1 /\ \A i \in DOMAIN wire : wire[i].n = n - 1 => wire[i].part # "end"

(* However the stream is cut into reads, a row is an event whose line came  *)
(* to its end, each once and in the order of the stream, and the logger is  *)
(* back at recv() with a row for every such event, but one whose line       *)
(* begins behind a cut reply; an odd line in between costs no other.        *)
LoggedEvents ==
  /\ \A i \in 2 .. Len(rows) : rows[i - 1] < rows[i]
  /\ \A i \in DOMAIN rows : \E j \in DOMAIN wire : wire[j] = Part(rows[i], "event", "end")
  /\ loggerPc = "recv" =>
       \A i \in DOMAIN wire :
         wire[i] = Part(wire[i].n, "event", "end") /\ ~CutBefore(wire[i].n)
         => \E j \in DOMAIN rows : rows[j] = wire[i].n

==============================================================================
