---------------------------- MODULE CommandFramer ----------------------------
(***************************************************************************)
(* The reassembly of command lines in TcpServer (src/tcp_server.cpp,       *)
(* receive_client_data and the dispatch it calls).  The stream of one      *)
(* connection arrives in pieces of any length; each complete line is       *)
(* executed or refused, and the unfinished rest waits in command_buffer_.  *)
(* The letters stand for every byte but LF and CR.                         *)
(***************************************************************************)
EXTENDS Naturals, Sequences, FiniteSets, Lists

CONSTANTS
  Letters,    (* bytes of commands                                          *)
  LF, CR,     (* the two bytes of a line end                                *)
  MaxCommand, (* kMaxCommandLength                                          *)
  Chunk,      (* bytes of the largest recv                                  *)
  MaxLine     (* bound: bytes a client sends on one line                    *)

VARIABLES
  buffer,     (* command_buffer_                                            *)
  handled,    (* what the last recv did for each line it completed          *)
  line,       (* auxiliary: the bytes of the line being sent, none lost     *)
  refused,    (* auxiliary: an error was sent for that line already         *)
  sent        (* auxiliary: the lines of `handled' as the client sent them  *)

framerVars == <<buffer, handled, line, refused, sent>>

FramerAssumption ==
  /\ LF \notin Letters /\ CR \notin Letters /\ LF # CR
  /\ MaxCommand \in Nat \ {0} /\ Chunk \in Nat \ {0}
ASSUME FramerAssumption

Bytes == Letters \cup {LF, CR}

FramerInit == buffer = <<>> /\ handled = <<>> /\ line = <<>> /\ refused = FALSE /\ sent = <<>>

-----------------------------------------------------------------------------

(* The bytes between the line ends of a piece of the stream, and the rest.  *)
LineEnds(data) == Ascending({n \in DOMAIN data : data[n] = LF})
Line(data, k) ==
  SubSeq(data, (IF k = 1 THEN 0 ELSE LineEnds(data)[k - 1]) + 1, LineEnds(data)[k] - 1)
Rest(data) ==
  LET ends == LineEnds(data)
  IN  IF ends = <<>> THEN data ELSE SubSeq(data, ends[Len(ends)] + 1, Len(data))

EndsInCR(l) == l # <<>> /\ l[Len(l)] = CR
MutantStripped(l) == SubSeq(l, 1, Len(l) - 1)  (* mutant: CR taken for granted *)
Stripped(l) == IF EndsInCR(l) THEN SubSeq(l, 1, Len(l) - 1) ELSE l

TooLong(l) == Len(l) > MaxCommand

(* handle_command answers every command but the empty one.                  *)
Outcome(l) ==
  IF TooLong(l) THEN [does |-> "error", text |-> <<>>]
  ELSE IF l = <<>> THEN [does |-> "nothing", text |-> <<>>]
  ELSE [does |-> "command", text |-> l]

Kept(rest) == IF TooLong(rest) THEN <<>> ELSE rest

(* The n lines a recv completes are handled; the client sent them as the    *)
(* lines of the whole stream.                                               *)
Handle(data, n) ==
  LET stream == line \o data
  IN  /\ handled' = [k \in 1 .. n |-> Outcome(Stripped(Line(buffer \o data, k)))]
      /\ sent' = [k \in 1 .. n |-> [text |-> Line(stream, k), refused |-> k = 1 /\ refused]]
      /\ \A k \in 1 .. n : Len(Line(stream, k)) <= MaxLine

(* A recv that returns data.  Every line it completes gets its turn: that   *)
(* an answer could not be sent is known to nobody but send_line.            *)
Receive(data) ==
  LET rest == Rest(buffer \o data)
      n    == Len(LineEnds(data))
  IN  /\ Len(Rest(line \o data)) <= MaxLine
      /\ Handle(data, n)
      /\ buffer' = Kept(rest)
      /\ line' = Rest(line \o data)
      /\ refused' = (TooLong(rest) \/ (refused /\ n = 0))

(* close_client: recv returns 0 or fails, an event cannot be sent, or       *)
(* accept_client replaces the connection.                                   *)
Disconnect ==
  buffer' = <<>> /\ line' = <<>> /\ refused' = FALSE /\ handled' = <<>> /\ sent' = <<>>

Chunks == UNION {[1 .. n -> Bytes] : n \in 1 .. Chunk}

FramerNext == (\E data \in Chunks : Receive(data)) \/ Disconnect

FramerSpec == FramerInit /\ [][FramerNext]_framerVars

-----------------------------------------------------------------------------
(* Properties.                                                              *)

(* However the stream is cut into pieces, a line that fits is executed      *)
(* exactly as it was sent, each once and in the order of the stream; and no *)
(* line goes without an answer, but for the empty ones: one that is too     *)
(* long is refused at its end or while it is being received.                *)
WholeCommands ==
  /\ Len(handled) = Len(sent)
  /\ \A k \in DOMAIN sent :
       IF Len(sent[k].text) <= MaxCommand
       THEN /\ sent[k].text = handled[k].text
                              \o (IF EndsInCR(sent[k].text) THEN <<CR>> ELSE <<>>)
            /\ handled[k].does = IF handled[k].text = <<>> THEN "nothing" ELSE "command"
       ELSE handled[k].does # "nothing" \/ sent[k].refused

(* The partial line is the end of the line being sent, and never more than  *)
(* one command's worth of it.                                               *)
FramerTypeOK ==
  /\ buffer \in Seq(Bytes) /\ Len(buffer) <= MaxCommand /\ Len(buffer) <= Len(line)
  /\ SubSeq(line, Len(line) - Len(buffer) + 1, Len(line)) = buffer
  /\ Len(line) <= MaxLine /\ refused \in BOOLEAN

==============================================================================
