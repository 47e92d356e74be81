------------------------- MODULE NetworkCameraSource -------------------------
(***************************************************************************)
(* The JPEG-over-TCP input of src/network_camera_source.cpp: a listening   *)
(* socket, at most one sender, and a buffer in which the bytes of its      *)
(* stream wait until an image is complete.                                 *)
(*                                                                         *)
(* open(), read() and release() take lifecycle_mutex_ for each look at the *)
(* three, but poll, accept and recv run without it, on descriptors copied  *)
(* before: release() may close them from another thread.                   *)
(*                                                                         *)
(* A connection is a number and its stream a sequence of parts: the start  *)
(* marker of an image, its end marker, or bytes in between.  A piece is a  *)
(* part with the connection and the position it was sent at.  What the     *)
(* senders send is decided when it is received, and poll and recv may find *)
(* data, nothing, an end or an error at any time.                          *)
(***************************************************************************)
EXTENDS Naturals, Sequences, FiniteSets

LOCAL INSTANCE FiniteSetsExt

CONSTANTS
  Conns,      (* the connections senders make, 1 .. n, in this order         *)
  MaxBuffered,(* kMaximumBufferedJpegBytes, in pieces                        *)
  MaxChunk,   (* kReceiveChunkSize, in pieces                                *)
  MaxSent     (* bound: parts received on one connection                     *)

NoConn == 0

ASSUME SendersAssumption == Conns \subseteq Nat \ {NoConn}

VARIABLES
  netStop,    (* stop_requested_                                             *)
  listening,  (* server_fd_ >= 0                                             *)
  client,     (* connection of client_fd_                                    *)
  buffer,     (* stream_buffer_                                              *)
  readPc,     (* control point of read(); idle, when nobody is in it         *)
  seen,       (* its copy of client_fd_                                      *)
  accepted,   (* the connection accepted and not yet in client_fd_           *)
  chunk,      (* received, and not yet in stream_buffer_                     *)
  image,      (* the pieces of the last image given to the caller            *)
  sock,       (* per connection: the descriptor on this side                 *)
  stream      (* per connection: the parts that recv has taken               *)

sourceVars == <<netStop, listening, client, buffer>>
readVars   == <<readPc, seen, accepted, chunk, image>>
netVars    == <<sourceVars, readVars, sock, stream>>

Parts == {"soi", "mid", "eoi"}

(* Whatever a descriptor number delivers once it names another socket.      *)
ForeignPiece(part) == [conn |-> NoConn, n |-> 0, part |-> part]
Pieces(c, from, parts) ==
  [k \in DOMAIN parts |-> [conn |-> c, n |-> from + k, part |-> parts[k]]]

NetInit ==
  /\ netStop = FALSE /\ listening = FALSE /\ client = NoConn /\ buffer = <<>>
  /\ readPc = "idle" /\ seen = NoConn /\ accepted = NoConn /\ chunk = <<>> /\ image = <<>>
  /\ sock = [c \in Conns |-> "none"] /\ stream = [c \in Conns |-> <<>>]

-----------------------------------------------------------------------------
(* Image boundaries.                                                        *)

MutantStarts(b, j) ==  (* mutant: an image ends at the last end marker *)
  {i \in 1 .. j - 1 : b[i].part = "soi"}
(* The start markers that the end marker at j closes: none ends in between. *)
Starts(b, j) ==
  {i \in 1 .. j - 1 : b[i].part = "soi" /\ \A m \in i + 1 .. j - 1 : b[m].part # "eoi"}
Ends(b) == {j \in DOMAIN b : b[j].part = "eoi" /\ Starts(b, j) # {}}

LatestImage(b) == SubSeq(b, Min(Starts(b, Max(Ends(b)))), Max(Ends(b)))
AfterImage(b)  == SubSeq(b, Max(Ends(b)) + 1, Len(b))

(* Without a complete image: too much of it is cut back to a start marker   *)
(* near its end, or dropped.                                                *)
Resync(b) ==
  LET near == {i \in DOMAIN b : i > Len(b) - MaxBuffered /\ b[i].part = "soi"}
  IN  IF Len(b) <= MaxBuffered THEN b
      ELSE IF near = {} THEN <<>> ELSE SubSeq(b, Min(near), Len(b))

-----------------------------------------------------------------------------
(* open() and release().                                                    *)

Closed(c) == [d \in Conns |-> IF d = c THEN "closed" ELSE sock[d]]

NetOpen ==
  /\ listening' = TRUE
  /\ IF listening
     THEN UNCHANGED <<netStop, client, buffer>>
     ELSE netStop' = FALSE /\ client' = NoConn /\ buffer' = <<>>

CloseClient == client' = NoConn /\ buffer' = <<>>

(* The flag is raised before the lock is taken.                             *)
RaiseNetStop == netStop' = TRUE /\ UNCHANGED <<listening, client, buffer>>

CloseAll ==
  /\ CloseClient /\ listening' = FALSE
  /\ sock' = Closed(client)

MutantNetRelease ==  (* mutant: the listener stays open *)
  netStop' = TRUE /\ CloseClient /\ sock' = Closed(client) /\ UNCHANGED listening
NetRelease == netStop' = TRUE /\ CloseAll

-----------------------------------------------------------------------------
(* read(): the steps between two uses of the lock.                          *)

Goto(pc) == readPc' = pc
Return(result) == Goto(result) /\ seen' = NoConn /\ accepted' = NoConn /\ chunk' = <<>>

BeginRead == readPc = "idle" /\ Goto("top") /\ UNCHANGED <<seen, accepted, chunk, image>>

ReadTop ==
  /\ readPc = "top"
  /\ IF netStop THEN Return("false") ELSE Goto("extract") /\ UNCHANGED <<seen, accepted, chunk>>
  /\ UNCHANGED <<sourceVars, image, sock, stream>>

(* The newest complete image is decoded: to a frame, to nothing, or to one  *)
(* of another size, which is an error.                                      *)
Extract ==
  /\ readPc = "extract"
  /\ IF Ends(buffer) = {}
     THEN /\ buffer' = Resync(buffer) /\ Goto("copy")
          /\ UNCHANGED <<seen, accepted, chunk, image>>
     ELSE /\ buffer' = AfterImage(buffer)
          /\ \/ Return("true") /\ image' = LatestImage(buffer)
             \/ Return("false") /\ UNCHANGED image
             \/ Return("throw") /\ UNCHANGED image
  /\ UNCHANGED <<netStop, listening, client, sock, stream>>

CopyDescriptors ==
  /\ readPc = "copy"
  /\ IF ~listening THEN Return("false")
     ELSE /\ seen' = client
          /\ Goto(IF client = NoConn THEN "accept" ELSE "poll")
          /\ UNCHANGED <<accepted, chunk>>
  /\ UNCHANGED <<sourceVars, image, sock, stream>>

(* poll and accept on the listener: the next connection ...                 *)
Accept ==
  /\ readPc = "accept"
  /\ \E c \in Conns :
       /\ sock[c] = "none" /\ \A d \in Conns : d < c => sock[d] # "none"
       /\ accepted' = c /\ sock' = [sock EXCEPT ![c] = "open"]
  /\ Goto("adopt")
  /\ UNCHANGED <<sourceVars, seen, chunk, image, stream>>

(* ... or nothing within 100 ms, an error, or the listener is gone.         *)
AcceptFails ==
  /\ readPc = "accept" /\ Return("false")
  /\ UNCHANGED <<sourceVars, image, sock, stream>>

(* Only the thread that reads reopens, so the listener it polled is either  *)
(* still there or closed.                                                   *)
MutantStillMine == TRUE  (* mutant: a release in between is not noticed *)
StillMine == ~netStop /\ listening

Adopt ==
  /\ readPc = "adopt"
  /\ IF StillMine
     THEN /\ client' = accepted /\ buffer' = <<>>
          /\ sock' = Closed(client)
          /\ Goto("top") /\ accepted' = NoConn /\ UNCHANGED <<seen, chunk>>
     ELSE /\ sock' = Closed(accepted) /\ Return("false")
          /\ UNCHANGED <<client, buffer>>
  /\ UNCHANGED <<netStop, listening, image, stream>>

(* poll on the client: nothing for 100 ms; interrupted; an error or a hang- *)
(* up; or readable, which the end of the stream is too.                     *)
PollClient ==
  /\ readPc = "poll"
  /\ \/ Return("false")
     \/ \E pc \in {"top", "hangup", "recv"} : Goto(pc) /\ UNCHANGED <<seen, accepted, chunk>>
  /\ UNCHANGED <<sourceVars, image, sock, stream>>

(* A sender sends images one after the other.                               *)
SentAsImages(parts) ==
  \A k \in DOMAIN parts : parts[k] = "soi" <=> (k = 1 \/ parts[k - 1] = "eoi")

(* recv, without the lock: the client may have been closed since the poll,  *)
(* and its number may name another socket of the process by now.            *)
Receive ==
  /\ readPc = "recv"
  /\ \/ /\ sock[seen] = "open"
        /\ \E parts \in UNION {[1 .. n -> Parts] : n \in 1 .. MaxChunk} :
             /\ SentAsImages(stream[seen] \o parts) /\ Len(stream[seen] \o parts) <= MaxSent
             /\ chunk' = Pieces(seen, Len(stream[seen]), parts)
             /\ stream' = [stream EXCEPT ![seen] = @ \o parts]
     \/ /\ sock[seen] = "closed"
        /\ \E part \in Parts : chunk' = <<ForeignPiece(part)>>
        /\ UNCHANGED stream
  /\ Goto("append")
  /\ UNCHANGED <<sourceVars, seen, accepted, image, sock>>

(* The end of the stream, or an error.                                      *)
ReceiveFails ==
  /\ readPc = "recv" /\ Goto("hangup")
  /\ UNCHANGED <<sourceVars, seen, accepted, chunk, image, sock, stream>>

(* Whatever client_fd_ is by now.                                           *)
AppendChunk ==
  /\ readPc = "append"
  /\ buffer' = buffer \o chunk /\ chunk' = <<>> /\ Goto("top")
  /\ UNCHANGED <<netStop, listening, client, seen, accepted, image, sock, stream>>

HangUp ==
  /\ readPc = "hangup"
  /\ IF client = seen
     THEN CloseClient /\ sock' = Closed(seen)
     ELSE UNCHANGED <<client, buffer, sock>>
  /\ Return("false")
  /\ UNCHANGED <<netStop, listening, image, stream>>

ReadStep == \/ ReadTop \/ Extract \/ CopyDescriptors \/ Accept \/ AcceptFails \/ Adopt
            \/ PollClient \/ Receive \/ ReceiveFails \/ AppendChunk \/ HangUp

NetTypeOK ==
  /\ netStop \in BOOLEAN /\ listening \in BOOLEAN
  /\ client \in Conns \cup {NoConn} /\ seen \in Conns \cup {NoConn}
  /\ accepted \in Conns \cup {NoConn}
  /\ readPc \in {"idle", "top", "extract", "copy", "accept", "adopt", "poll", "recv",
                 "append", "hangup", "true", "false", "throw"}
  /\ \A s \in {buffer, chunk, image} : s \in Seq([conn : Conns \cup {NoConn}, n : Nat, part : Parts])
  /\ sock \in [Conns -> {"none", "open", "closed"}]
  /\ stream \in [Conns -> Seq(Parts)]

==============================================================================
