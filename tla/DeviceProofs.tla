----------------------------- MODULE DeviceProofs -----------------------------
(***************************************************************************)
(* Proofs about the inputs and the output that have a device or a network  *)
(* behind them, and the bridge that starts their peers on the PC, each for *)
(* any number of failures, reopens, restarts and attempts.                 *)
(***************************************************************************)
EXTENDS NetworkCapture, CameraSource, RtspStreamer, PcBridge, ListTheorems

LOCAL INSTANCE FiniteSetsExt

(***************************************************************************)
(* JPEG over TCP: the sockets are owned, the images are whole, and seen    *)
(* from outside the input is what CaptureThread takes it for.              *)
(***************************************************************************)

(* Types, as far as the sockets and the thread need them.                   *)
SourceTypes ==
  /\ client \in Conns \cup {NoConn} /\ accepted \in Conns \cup {NoConn}
  /\ sock \in [Conns -> {"none", "open", "closed"}]
  /\ failures \in 0 .. ReopenAfter

(* Nobody reads but the thread, and only inside its call; an accept is      *)
(* under way only while there is no client.                                 *)
Reading ==
  /\ readPc # "idle" => capPc = "read"
  /\ readPc \in {"accept", "adopt"} => client = NoConn
  /\ readPc = "adopt" => accepted # NoConn /\ sock[accepted] = "open"

(* The input is closed under a read only by the owner, who has raised the   *)
(* flag of the thread before.                                               *)
Unlocked == {"extract", "copy", "accept", "adopt", "poll", "recv", "append", "true"}
Stopping ==
  /\ ownerPc # "run" => capStop
  /\ ~listening => netStop \/ capStop \/ capPc = "open"
  /\ readPc \in Unlocked => listening \/ capStop

NetworkInv == SourceTypes /\ Reading /\ Stopping /\ SocketsOwned

(* The steps of the capture thread, and the ways a read may end.            *)
LEMMA ThreadKeeps ==
  ASSUME NetworkInv,
         \/ CaptureOpen \/ CaptureRead \/ ReadDelivers \/ ReadGivesNothing \/ ReadThrows
         \/ CaptureReopen \/ CaptureClose
         \/ UNCHANGED <<netVars, ownerPc>> /\ (Cap!CheckStop \/ Cap!Pause \/ Cap!Publish)
  PROVE  NetworkInv'
<1> USE SendersAssumption, ReopenAssumption
    DEF NetworkInv, SourceTypes, Reading, Stopping, SocketsOwned, Unlocked, NoConn,
        sourceVars, readVars, netVars, threadVars
<1>1. CASE CaptureOpen
  BY <1>1 DEF CaptureOpen, NetOpen, NetRelease, CloseAll, CloseClient, Closed
<1>2. CASE CaptureRead
  BY <1>2 DEF CaptureRead, BeginRead, Goto
<1>3. CASE ReadDelivers
  BY <1>3 DEF ReadDelivers, ReturnTo
<1>4. CASE ReadGivesNothing
  BY <1>4 DEF ReadGivesNothing, ReturnTo, NetRelease, CloseAll, CloseClient, Closed
<1>5. CASE ReadThrows
  BY <1>5 DEF ReadThrows, ReturnTo, NetRelease, CloseAll, CloseClient, Closed
<1>6. CASE CaptureReopen
  BY <1>6 DEF CaptureReopen, NetOpen
<1>7. CASE CaptureClose
  BY <1>7 DEF CaptureClose, NetRelease, CloseAll, CloseClient, Closed
<1>8. CASE UNCHANGED <<netVars, ownerPc>> /\ (Cap!CheckStop \/ Cap!Pause \/ Cap!Publish)
  BY <1>8 DEF Cap!CheckStop, Cap!Pause, Cap!Publish
<1> QED BY <1>1, <1>2, <1>3, <1>4, <1>5, <1>6, <1>7, <1>8

(* The steps of a read between two uses of the lock.                        *)
LEMMA NetReadKeeps ==
  ASSUME NetworkInv, ReadStep, UNCHANGED <<threadVars, ownerPc>>
  PROVE  NetworkInv'
<1> USE SendersAssumption
    DEF NetworkInv, SourceTypes, Reading, Stopping, SocketsOwned, Unlocked, NoConn,
        sourceVars, threadVars, Goto, Return
<1>1. CASE ReadTop \/ CopyDescriptors
  BY <1>1 DEF ReadTop, CopyDescriptors
<1>2. CASE Extract
  BY <1>2 DEF Extract
<1>3. CASE Accept
  BY <1>3 DEF Accept
<1>4. CASE Adopt
  BY <1>4 DEF Adopt, Closed, StillMine
<1>5. CASE AcceptFails \/ PollClient \/ Receive \/ ReceiveFails \/ AppendChunk
  BY <1>5 DEF AcceptFails, PollClient, Receive, ReceiveFails, AppendChunk
<1>6. CASE HangUp
  BY <1>6 DEF HangUp, CloseClient, Closed
<1> QED BY <1>1, <1>2, <1>3, <1>4, <1>5, <1>6 DEF ReadStep

(* The steps of the owner, who closes the input under a read.               *)
LEMMA OwnerKeeps == ASSUME NetworkInv, OwnerStep PROVE NetworkInv'
<1> USE SendersAssumption
    DEF NetworkInv, SourceTypes, Reading, Stopping, SocketsOwned, Unlocked, NoConn,
        sourceVars, readVars, netVars, threadVars
<1>1. CASE OwnerStops \/ OwnerFlags \/ OwnerJoins
  BY <1>1 DEF OwnerStops, OwnerFlags, RaiseNetStop, OwnerJoins
<1>2. CASE OwnerCloses
  BY <1>2 DEF OwnerCloses, CloseAll, CloseClient, Closed
<1> QED BY <1>1, <1>2 DEF OwnerStep

(* The invariant of the input over the network is inductive.                *)
LEMMA NetworkInductive ==
  /\ NetworkInit => NetworkInv
  /\ NetworkInv /\ [NetworkNext]_networkVars => NetworkInv'
<1>1. ASSUME NetworkInit PROVE NetworkInv
  BY <1>1, SendersAssumption, ReopenAssumption
  DEF NetworkInit, NetInit, Cap!Init, NetworkInv, SourceTypes, Reading, Stopping,
      SocketsOwned, Unlocked, NoConn
<1>2. ASSUME NetworkInv, UNCHANGED networkVars PROVE NetworkInv'
  BY <1>2 DEF NetworkInv, SourceTypes, Reading, Stopping, SocketsOwned, networkVars,
      sourceVars, readVars, netVars, threadVars
<1> QED
  BY <1>1, <1>2, ThreadKeeps, NetReadKeeps, OwnerKeeps DEF NetworkNext, CaptureStep

(* No connection is lost or left open, wherever the owner's release falls   *)
(* in a read and however often the input is reopened.                       *)
THEOREM NoSocketLost == NetworkSpec => []SocketsOwned
<1>1. NetworkInv => SocketsOwned
  BY DEF NetworkInv
<1> QED BY <1>1, NetworkInductive, PTL DEF NetworkSpec

(* Every step is one of CaptureThread with an input of any kind, or none.   *)
LEMMA ContractStep ==
  ASSUME NetworkInv, NetworkNext
  PROVE  [Cap!Step \/ Cap!RaiseStop \/ Cap!ReleaseSource]_captureVars
<1> USE DEF captureVars, threadVars, sourceVars, netVars, readVars
<1>1. CASE CaptureOpen
  BY <1>1 DEF CaptureOpen, NetOpen, NetRelease, CloseAll, Cap!Step, Cap!Open
<1>2. CASE CaptureRead
  BY <1>2 DEF CaptureRead
<1>3. CASE ReadDelivers
  <2>1. Cap!ReadFrame
    BY <1>3 DEF ReadDelivers, ReturnTo, NetworkInv, Reading, Stopping, Unlocked, Cap!ReadFrame
  <2> QED BY <2>1 DEF Cap!Step
<1>4. CASE ReadGivesNothing
  <2>1. Cap!ReadFails
    BY <1>4, ReopenAssumption DEF ReadGivesNothing, ReturnTo, NetRelease, CloseAll,
       NetworkInv, SourceTypes, Reading, Cap!ReadFails
  <2> QED BY <2>1 DEF Cap!Step
<1>5. CASE ReadThrows
  <2>1. Cap!ReadThrows
    BY <1>5 DEF ReadThrows, ReturnTo, NetRelease, CloseAll, NetworkInv, Reading, Cap!ReadThrows
  <2> QED BY <2>1 DEF Cap!Step
<1>6. CASE CaptureReopen
  BY <1>6 DEF CaptureReopen, NetOpen, Cap!Step, Cap!Reopen
<1>7. CASE CaptureClose
  BY <1>7 DEF CaptureClose, NetRelease, CloseAll, Cap!Step, Cap!Close
<1>8. CASE ReadStep /\ UNCHANGED <<threadVars, ownerPc>>
  BY <1>8 DEF ReadStep, ReadTop, Extract, CopyDescriptors, Accept, AcceptFails, Adopt,
     PollClient, Receive, ReceiveFails, AppendChunk, HangUp
<1>9. CASE Cap!CheckStop \/ Cap!Pause \/ Cap!Publish
  BY <1>9 DEF Cap!Step
<1>10. CASE OwnerStep
  BY <1>10 DEF OwnerStep, OwnerStops, OwnerFlags, RaiseNetStop, OwnerCloses, CloseAll,
     OwnerJoins, Cap!RaiseStop, Cap!ReleaseSource
<1> QED
  BY <1>1, <1>2, <1>3, <1>4, <1>5, <1>6, <1>7, <1>8, <1>9, <1>10 DEF NetworkNext, CaptureStep

(* Seen from outside the network input is what CaptureThread takes it for.  *)
THEOREM ImplementsCapture == NetworkSpec => CaptureContract
<1>1. NetworkInit => Cap!Init
  BY DEF NetworkInit
<1>2. NetworkInv /\ [NetworkNext]_networkVars =>
        [Cap!Step \/ Cap!RaiseStop \/ Cap!ReleaseSource]_captureVars
  BY ContractStep DEF networkVars, netVars, sourceVars, threadVars, captureVars
<1> QED BY <1>1, <1>2, NetworkInductive, PTL DEF NetworkSpec, CaptureContract

-----------------------------------------------------------------------------
(***************************************************************************)
(* Images: the bytes of one sender only are in the buffer together, and    *)
(* they follow one another.                                                *)
(***************************************************************************)

Piece == [conn : Conns \cup {NoConn}, n : Nat, part : Parts]

(* Pieces of one connection as they followed one another, the first of them *)
(* the one after the m-th.                                                  *)
Run(b, c, m) == \A k \in DOMAIN b : b[k] = [conn |-> c, n |-> m + k, part |-> b[k].part]

OneSender(b) == Len(b) <= 1 \/ \E c \in Conns, m \in Int : Run(b, c, m)

Whole(b) ==
  b # <<>> =>
    /\ b[1].conn \in Conns /\ b[1].part = "soi" /\ b[Len(b)].part = "eoi"
    /\ \A k \in 2 .. Len(b) :
         /\ b[k] = [conn |-> b[1].conn, n |-> b[1].n + k - 1, part |-> b[k].part]
         /\ b[k].part = "eoi" => k = Len(b)

(* What FiniteSetsExt calls the least of a set of numbers ...               *)
LEMMA MinOf ==
  ASSUME NEW S \in SUBSET Nat, S # {}
  PROVE  Min(S) \in S /\ \A y \in S : Min(S) <= y
BY LeastNumber DEF Min

(* ... and the greatest.                                                    *)
LEMMA MaxOf ==
  ASSUME NEW n \in Nat, NEW S \in SUBSET (0 .. n), S # {}
  PROVE  Max(S) \in S /\ \A y \in S : Max(S) >= y
<1>1. \E x \in S : \A y \in S : x >= y
  BY GreatestNumber
<1> QED BY <1>1 DEF Max

(* What is left after cutting the front off is still a run.                 *)
LEMMA SuffixRun ==
  ASSUME NEW b \in Seq(Piece), NEW i \in 1 .. Len(b) + 1
  PROVE  /\ SubSeq(b, i, Len(b)) \in Seq(Piece)
         /\ Len(SubSeq(b, i, Len(b))) = Len(b) - i + 1
         /\ \A c, m : m \in Int /\ Run(b, c, m) => Run(SubSeq(b, i, Len(b)), c, m + i - 1)
<1> DEFINE s == SubSeq(b, i, Len(b))
<1>1. /\ s \in Seq(Piece) /\ Len(s) = Len(b) - i + 1
      /\ \A k \in 1 .. Len(b) - i + 1 : s[k] = b[i + k - 1]
  OBVIOUS
<1> HIDE DEF s
<1>2. DOMAIN s = 1 .. Len(b) - i + 1
  BY <1>1
<1>3. ASSUME NEW c, NEW m \in Int, Run(b, c, m), NEW k \in 1 .. Len(b) - i + 1
      PROVE  s[k] = [conn |-> c, n |-> m + i - 1 + k, part |-> s[k].part]
  <2>1. i + k - 1 \in DOMAIN b /\ m + (i + k - 1) = m + i - 1 + k
    OBVIOUS
  <2>2. b[i + k - 1] = [conn |-> c, n |-> m + (i + k - 1), part |-> b[i + k - 1].part]
    BY <1>3, <2>1 DEF Run
  <2> QED BY <1>1, <2>1, <2>2
<1>4. \A c, m : m \in Int /\ Run(b, c, m) => Run(s, c, m + i - 1)
  BY <1>2, <1>3 DEF Run
<1> QED BY <1>1, <1>4 DEF s

(* A buffer that is cut keeps its end.                                      *)
LEMMA BufferCut ==
  ASSUME NEW b \in Seq(Piece)
  PROVE  \E i \in 1 .. Len(b) + 1 : Resync(b) = SubSeq(b, i, Len(b))
<1> DEFINE near == {i \in DOMAIN b : i > Len(b) - MaxBuffered /\ b[i].part = "soi"}
<1>1. CASE Len(b) <= MaxBuffered
  BY <1>1 DEF Resync
<1>2. CASE ~(Len(b) <= MaxBuffered) /\ near = {}
  <2>1. SubSeq(b, Len(b) + 1, Len(b)) = <<>>
    OBVIOUS
  <2> QED BY <1>2, <2>1 DEF Resync
<1>3. CASE ~(Len(b) <= MaxBuffered) /\ near # {}
  <2>1. near \in SUBSET Nat
    OBVIOUS
  <2>2. Min(near) \in near
    BY <1>3, <2>1, MinOf
  <2>3. Min(near) \in 1 .. Len(b) + 1
    BY <2>2
  <2> HIDE DEF near
  <2>4. Resync(b) = SubSeq(b, Min(near), Len(b))
    BY <1>3 DEF Resync, near
  <2> QED BY <2>3, <2>4
<1> QED BY <1>1, <1>2, <1>3

(* Where there is an image, its end and its beginning are among the marks.  *)
LEMMA LatestEnd ==
  ASSUME NEW b \in Seq(Piece), Ends(b) # {}
  PROVE  /\ Max(Ends(b)) \in Ends(b)
         /\ Min(Starts(b, Max(Ends(b)))) \in Starts(b, Max(Ends(b)))
<1>1. Ends(b) \in SUBSET (0 .. Len(b))
  BY DEF Ends
<1>2. Max(Ends(b)) \in Ends(b)
  <2>1. Len(b) \in Nat
    OBVIOUS
  <2> QED BY <1>1, <2>1, MaxOf
<1> DEFINE j == Max(Ends(b))
<1>3. Starts(b, j) \in SUBSET Nat /\ Starts(b, j) # {}
  <2>1. Starts(b, j) # {}
    BY <1>2 DEF Ends
  <2>2. Starts(b, j) \in SUBSET Nat
    BY DEF Starts
  <2> QED BY <2>1, <2>2
<1>4. Min(Starts(b, j)) \in Starts(b, j)
  BY <1>3, MinOf
<1> QED BY <1>2, <1>4

(* The newest image of a buffer is whole, and what is left is its end.      *)
LEMMA NewestIsWhole ==
  ASSUME NEW b \in Seq(Piece), Ends(b) # {}, OneSender(b)
  PROVE  /\ LatestImage(b) \in Seq(Piece)
         /\ Whole(LatestImage(b))
         /\ \E i \in 1 .. Len(b) + 1 : AfterImage(b) = SubSeq(b, i, Len(b))
<1> DEFINE j == Max(Ends(b))
           i == Min(Starts(b, j))
<1>1. j \in Ends(b) /\ i \in Starts(b, j)
  BY LatestEnd
<1> HIDE DEF i, j
<1>2. /\ j \in 1 .. Len(b) /\ i \in 1 .. j - 1
      /\ b[j].part = "eoi" /\ b[i].part = "soi"
      /\ \A k \in i + 1 .. j - 1 : b[k].part # "eoi"
  BY <1>1 DEF Ends, Starts
<1>3. PICK c \in Conns, m \in Int : Run(b, c, m)
  BY <1>2 DEF OneSender
<1> DEFINE s == SubSeq(b, i, j)
<1>4. /\ s \in Seq(Piece) /\ Len(s) = j - i + 1
      /\ \A k \in 1 .. j - i + 1 : s[k] = b[i + k - 1]
  BY <1>2
<1>5. LatestImage(b) = s
  BY DEF LatestImage, i, j
<1> HIDE DEF s
<1>6. \A k \in 1 .. j - i + 1 : s[k] = [conn |-> c, n |-> m + (i + k - 1), part |-> s[k].part]
  <2>1. SUFFICES ASSUME NEW k \in 1 .. j - i + 1
                 PROVE  b[i + k - 1] = [conn |-> c, n |-> m + (i + k - 1), part |-> b[i + k - 1].part]
    BY <1>4
  <2>2. i + k - 1 \in DOMAIN b
    BY <1>2
  <2> QED BY <1>3, <2>2 DEF Run
<1>7. s[1].conn = c /\ s[1].n = m + i /\ s[1].part = "soi" /\ s[Len(s)].part = "eoi"
  <2>1. 1 \in 1 .. j - i + 1 /\ j - i + 1 \in 1 .. j - i + 1 /\ i + 1 - 1 = i /\ i + (j - i + 1) - 1 = j
    BY <1>2
  <2>2. s[1] = b[i] /\ s[Len(s)] = b[j]
    BY <1>4, <2>1
  <2>3. s[1] = [conn |-> c, n |-> m + i, part |-> s[1].part]
    BY <1>6, <2>1
  <2> QED BY <1>2, <2>2, <2>3
<1>8. ASSUME NEW k \in 2 .. Len(s)
      PROVE  /\ s[k] = [conn |-> s[1].conn, n |-> s[1].n + k - 1, part |-> s[k].part]
             /\ s[k].part = "eoi" => k = Len(s)
  <2>1. k \in 1 .. j - i + 1 /\ m + i + k - 1 = m + (i + k - 1)
    BY <1>2, <1>4
  <2>2. s[k] = [conn |-> s[1].conn, n |-> s[1].n + k - 1, part |-> s[k].part]
    BY <1>6, <1>7, <2>1
  <2>3. ASSUME k # Len(s) PROVE s[k].part # "eoi"
    <3>1. i + k - 1 \in i + 1 .. j - 1
      BY <1>2, <1>4, <2>3
    <3> QED BY <1>2, <1>4, <2>1, <3>1
  <2> QED BY <2>2, <2>3
<1>9. Whole(s)
  BY <1>7, <1>8 DEF Whole
<1>10. j + 1 \in 1 .. Len(b) + 1 /\ AfterImage(b) = SubSeq(b, j + 1, Len(b))
  BY <1>2 DEF AfterImage, j
<1> QED BY <1>4, <1>5, <1>9, <1>10

-----------------------------------------------------------------------------

BufferTypes ==
  /\ buffer \in Seq(Piece) /\ chunk \in Seq(Piece) /\ image \in Seq(Piece)
  /\ stream \in [Conns -> Seq(Parts)] /\ seen \in Conns \cup {NoConn}

Pending == IF readPc = "append" THEN Len(chunk) ELSE 0

(* What waits in the buffer is the end of what the client has sent so far,  *)
(* without the chunk that is not yet in it.                                 *)
FromClient ==
  client # NoConn => Run(buffer, client, Len(stream[client]) - Len(buffer) - Pending)

(* Without a client nothing is left of one, unless the owner has closed the *)
(* input under a read: then a last chunk may follow.                        *)
LeftOver ==
  /\ client = NoConn /\ listening => buffer = <<>>
  /\ client = NoConn => OneSender(buffer)

(* The copy of client_fd_ is right, or the owner has closed the input; the  *)
(* bytes of another socket come only then, and alone.                       *)
Copied ==
  /\ readPc \in {"poll", "recv", "append"} =>
       seen \in Conns /\ (client = seen \/ (client = NoConn /\ ~listening /\ buffer = <<>>))
  /\ readPc = "append" =>
       \/ Run(chunk, seen, Len(stream[seen]) - Len(chunk))
       \/ Len(chunk) = 1 /\ client # seen

ImagesInv == BufferTypes /\ FromClient /\ LeftOver /\ Copied /\ Whole(image)

(* An empty buffer or copy is a piece of any stream.                        *)
LEMMA Nothing ==
  /\ <<>> \in Seq(Piece) /\ Len(<<>>) = 0 /\ OneSender(<<>>) /\ Whole(<<>>)
  /\ \A c, m : Run(<<>>, c, m)
BY DEF OneSender, Whole, Run

(* What the source keeps stays right, wherever the read goes with it.       *)
LEMMA ImagesStay ==
  ASSUME ImagesInv, UNCHANGED <<client, listening, buffer, image, stream>>,
         \/ UNCHANGED <<readPc, seen, chunk>>
         \/ /\ readPc # "append" /\ readPc' # "append"
            /\ seen' \in Conns \cup {NoConn} /\ chunk' \in {chunk, <<>>}
            /\ readPc' \in {"poll", "recv"} => seen' = client' \/ (readPc \in {"poll", "recv"} /\ seen' = seen)
            /\ seen' = client' /\ readPc' \in {"poll", "recv"} => client # NoConn
  PROVE  ImagesInv'
<1> USE Nothing DEF ImagesInv
<1>1. BufferTypes' /\ Whole(image)'
  BY DEF BufferTypes
<1>2. FromClient'
  <2>1. Pending' = Pending
    BY DEF Pending
  <2> QED BY <2>1 DEF FromClient
<1>3. LeftOver'
  BY DEF LeftOver
<1>4. Copied'
  BY DEF Copied, BufferTypes
<1> QED BY <1>1, <1>2, <1>3, <1>4

(* What touches neither buffer nor image keeps both as they are.            *)
LEMMA OutsideKeepsImages ==
  ASSUME NetworkInv, ImagesInv,
         \/ CaptureOpen \/ CaptureRead \/ ReadDelivers \/ ReadGivesNothing \/ ReadThrows
         \/ CaptureReopen \/ CaptureClose \/ OwnerStep
         \/ UNCHANGED <<netVars, ownerPc>> /\ (Cap!CheckStop \/ Cap!Pause \/ Cap!Publish)
  PROVE  ImagesInv'
<1> USE Nothing, SendersAssumption
    DEF ImagesInv, BufferTypes, FromClient, LeftOver, Copied, Pending, NetworkInv, Reading,
        sourceVars, readVars, netVars, threadVars, NoConn
<1>1. CASE CaptureOpen
  BY <1>1 DEF CaptureOpen, NetOpen, NetRelease, CloseAll, CloseClient
<1>2. CASE CaptureRead
  BY <1>2 DEF CaptureRead, BeginRead, Goto
<1>3. CASE ReadDelivers
  BY <1>3 DEF ReadDelivers, ReturnTo
<1>4. CASE ReadGivesNothing
  BY <1>4 DEF ReadGivesNothing, ReturnTo, NetRelease, CloseAll, CloseClient
<1>5. CASE ReadThrows
  BY <1>5 DEF ReadThrows, ReturnTo, NetRelease, CloseAll, CloseClient
<1>6. CASE CaptureReopen
  <2>1. CASE NetOpen /\ ~listening
    BY <1>6, <2>1 DEF CaptureReopen, NetOpen
  <2>2. UNCHANGED <<client, listening, buffer>> \/ (NetOpen /\ ~listening)
    BY <1>6 DEF CaptureReopen, NetOpen
  <2> QED BY <1>6, <2>1, <2>2, ImagesStay DEF CaptureReopen
<1>7. CASE CaptureClose
  BY <1>7 DEF CaptureClose, NetRelease, CloseAll, CloseClient
<1>8. CASE OwnerStops \/ OwnerFlags \/ OwnerJoins
  BY <1>8, ImagesStay DEF OwnerStops, OwnerFlags, RaiseNetStop, OwnerJoins
<1>9. CASE OwnerCloses
  BY <1>9 DEF OwnerCloses, CloseAll, CloseClient
<1>10. CASE UNCHANGED <<netVars, ownerPc>>
  BY <1>10
<1> QED BY <1>1, <1>2, <1>3, <1>4, <1>5, <1>6, <1>7, <1>8, <1>9, <1>10 DEF OwnerStep

(* A cut changes neither the sender nor where its bytes end.                *)
LEMMA CutKeeps ==
  ASSUME NetworkInv, ImagesInv, NEW i \in 1 .. Len(buffer) + 1, NEW b, b = SubSeq(buffer, i, Len(buffer)),
         readPc = "extract"
  PROVE  /\ b \in Seq(Piece)
         /\ client # NoConn => Run(b, client, Len(stream[client]) - Len(b))
         /\ client = NoConn => OneSender(b) /\ (listening => b = <<>>)
<1>1. /\ b \in Seq(Piece) /\ Len(b) = Len(buffer) - i + 1 /\ Len(buffer) \in Nat
      /\ \A c, m : m \in Int /\ Run(buffer, c, m) => Run(b, c, m + i - 1)
  BY SuffixRun DEF ImagesInv, BufferTypes
<1>2. ASSUME client # NoConn PROVE Run(b, client, Len(stream[client]) - Len(b))
  <2> DEFINE m == Len(stream[client]) - Len(buffer)
  <2>1. Len(stream[client]) \in Nat /\ client \in Conns
    BY <1>2 DEF ImagesInv, BufferTypes, NetworkInv, SourceTypes
  <2>2. m \in Int /\ Run(buffer, client, m)
    <3>1. Len(stream[client]) - Len(buffer) - 0 = m
      BY <1>1, <2>1
    <3>2. Pending = 0
      BY DEF Pending
    <3>3. Run(buffer, client, Len(stream[client]) - Len(buffer) - 0)
      BY <1>2, <3>2 DEF ImagesInv, FromClient
    <3>4. m \in Int
      <4>1. stream[client] \in Seq(Parts)
        BY <2>1 DEF ImagesInv, BufferTypes
      <4> QED BY <1>1, <2>1, <4>1
    <3> HIDE DEF m
    <3> QED BY <3>1, <3>3, <3>4
  <2>3. m + i - 1 = Len(stream[client]) - Len(b)
    BY <1>1, <2>1
  <2> QED BY <1>1, <2>2, <2>3
<1>3. ASSUME client = NoConn PROVE OneSender(b) /\ (listening => b = <<>>)
  <2>1. ASSUME Len(buffer) <= 1 PROVE OneSender(b)
    <3>1. Len(b) <= 1
      BY <1>1, <2>1
    <3> QED BY <3>1 DEF OneSender
  <2>2. ASSUME NEW c \in Conns, NEW m \in Int, Run(buffer, c, m)
        PROVE  OneSender(b)
    <3>1. m + i - 1 \in Int /\ Run(b, c, m + i - 1)
      BY <1>1, <2>2
    <3> QED BY <3>1 DEF OneSender
  <2>3. listening => b = <<>>
    <3>1. listening => Len(buffer) = 0
      BY <1>3 DEF ImagesInv, LeftOver
    <3>2. Len(buffer) = 0 => Len(b) = 0
      BY <1>1
    <3> QED BY <1>1, <3>1, <3>2, EmptySeq
  <2> QED BY <1>3, <2>1, <2>2, <2>3 DEF ImagesInv, LeftOver, OneSender
<1> QED BY <1>1, <1>2, <1>3

(* An image is taken out of the buffer, or the buffer is cut.               *)
LEMMA ExtractKeepsImages ==
  ASSUME NetworkInv, ImagesInv, Extract PROVE ImagesInv'
<1>1. OneSender(buffer)
  BY DEF ImagesInv, LeftOver, FromClient, Pending, OneSender, BufferTypes, NetworkInv, SourceTypes, Extract
<1>2. \E i \in 1 .. Len(buffer) + 1 : buffer' = SubSeq(buffer, i, Len(buffer))
  BY <1>1, BufferCut, NewestIsWhole DEF Extract, ImagesInv, BufferTypes
<1>3. /\ buffer' \in Seq(Piece)
      /\ client # NoConn => Run(buffer', client, Len(stream[client]) - Len(buffer'))
      /\ client = NoConn => OneSender(buffer') /\ (listening => buffer' = <<>>)
  BY <1>2, CutKeeps DEF Extract
<1>4. image' \in Seq(Piece) /\ Whole(image')
  BY <1>1, NewestIsWhole DEF Extract, ImagesInv, BufferTypes
<1>5. /\ readPc' \in {"copy", "true", "false", "throw"}
      /\ UNCHANGED <<netStop, listening, client, sock, stream>>
      /\ seen' \in {seen, NoConn} /\ chunk' \in {chunk, <<>>}
  BY DEF Extract, Return, Goto
<1>6. BufferTypes'
  BY <1>3, <1>4, <1>5, Nothing DEF ImagesInv, BufferTypes
<1>7. FromClient'
  <2>1. SUFFICES ASSUME client # NoConn
                 PROVE  Run(buffer', client, Len(stream[client]) - Len(buffer') - 0)
    BY <1>5 DEF FromClient, Pending
  <2>2. stream[client] \in Seq(Parts)
    BY <2>1 DEF ImagesInv, BufferTypes, NetworkInv, SourceTypes
  <2>3. Len(stream[client]) - Len(buffer') - 0 = Len(stream[client]) - Len(buffer')
    BY <1>3, <2>2
  <2> QED BY <1>3, <2>1, <2>3
<1> QED BY <1>3, <1>4, <1>5, <1>6, <1>7 DEF ImagesInv, LeftOver, Copied

(* A recv returns the bytes that come next on the connection.               *)
LEMMA ReceiveKeepsImages ==
  ASSUME NetworkInv, ImagesInv, Receive PROVE ImagesInv'
<1>1. /\ seen \in Conns /\ readPc = "recv" /\ readPc' = "append"
      /\ UNCHANGED <<sourceVars, seen, image>>
      /\ client = seen \/ (client = NoConn /\ ~listening /\ buffer = <<>>)
      /\ client = seen <=> sock[seen] = "open"
      /\ buffer \in Seq(Piece) /\ stream[seen] \in Seq(Parts)
  BY SendersAssumption DEF Receive, Goto, ImagesInv, Copied, BufferTypes, NetworkInv,
     SocketsOwned, Reading
<1>2. CASE sock[seen] = "open"
  <2>1. PICK n \in Nat : \E parts \in [1 .. n -> Parts] :
          /\ chunk' = Pieces(seen, Len(stream[seen]), parts)
          /\ stream' = [stream EXCEPT ![seen] = @ \o parts]
    BY <1>2 DEF Receive
  <2>11. PICK parts \in [1 .. n -> Parts] :
          /\ chunk' = Pieces(seen, Len(stream[seen]), parts)
          /\ stream' = [stream EXCEPT ![seen] = @ \o parts]
    BY <2>1
  <2>2. parts \in Seq(Parts) /\ Len(parts) = n
    BY <2>11
  <2>3. /\ stream' \in [Conns -> Seq(Parts)]
        /\ Len(stream'[seen]) = Len(stream[seen]) + n /\ Len(stream[seen]) \in Nat
    BY <1>1, <2>11, <2>2 DEF ImagesInv, BufferTypes
  <2>4. /\ chunk' \in Seq(Piece) /\ Len(chunk') = n
        /\ Run(chunk', seen, Len(stream[seen]))
    <3>1. DOMAIN parts = 1 .. n /\ \A k \in 1 .. n : parts[k] \in Parts
      BY <2>11
    <3>2. chunk' = [k \in 1 .. n |-> [conn |-> seen, n |-> Len(stream[seen]) + k, part |-> parts[k]]]
      BY <2>11, <3>1 DEF Pieces
    <3>3. \A k \in 1 .. n : [conn |-> seen, n |-> Len(stream[seen]) + k, part |-> parts[k]] \in Piece
      BY <1>1, <2>3, <3>1 DEF Piece
    <3> HIDE DEF Piece
    <3>4. chunk' \in [1 .. n -> Piece] /\ DOMAIN chunk' = 1 .. n
      BY <3>2, <3>3
    <3>5. chunk' \in Seq(Piece) /\ Len(chunk') = n
      BY <3>4
    <3> QED BY <3>2, <3>4, <3>5 DEF Run
  <2>5. Len(stream'[seen]) - Len(chunk') = Len(stream[seen])
    BY <2>3, <2>4
  <2>6. Len(stream'[seen]) - Len(buffer) - Len(chunk') = Len(stream[seen]) - Len(buffer) - 0
    BY <1>1, <2>3, <2>4
  <2>7. Run(buffer, seen, Len(stream[seen]) - Len(buffer) - 0)
    BY <1>1, <1>2, SendersAssumption DEF ImagesInv, FromClient, Pending, NoConn
  <2>8. FromClient'
    BY <1>1, <1>2, <2>6, <2>7 DEF FromClient, Pending, sourceVars
  <2>9. BufferTypes'
    BY <1>1, <2>3, <2>4 DEF ImagesInv, BufferTypes, sourceVars
  <2>10. Copied' /\ LeftOver'
    BY <1>1, <1>2, <2>4, <2>5, SendersAssumption
    DEF Copied, LeftOver, sourceVars, ImagesInv
  <2> QED BY <1>1, <2>8, <2>9, <2>10 DEF ImagesInv
<1>3. CASE sock[seen] = "closed"
  <2>1. client = NoConn /\ stream' = stream
    BY <1>1, <1>3 DEF Receive
  <2>2. PICK part \in Parts : chunk' = <<ForeignPiece(part)>>
    BY <1>3 DEF Receive
  <2>3. ForeignPiece(part) \in Piece
    BY <2>2 DEF ForeignPiece, Piece
  <2> HIDE DEF Piece
  <2>4. chunk' \in Seq(Piece) /\ Len(chunk') = 1
    BY <2>2, <2>3
  <2>5. client # seen
    BY <1>1, <2>1, SendersAssumption
  <2>6. BufferTypes' /\ FromClient' /\ LeftOver' /\ Copied'
    BY <1>1, <2>1, <2>4, <2>5
    DEF ImagesInv, BufferTypes, FromClient, LeftOver, Copied, sourceVars
  <2> QED BY <1>1, <2>6 DEF ImagesInv
<1> QED BY <1>2, <1>3 DEF Receive

(* Two pieces of a stream, the one behind the other, are a piece of it.     *)
LEMMA ConcatRun ==
  ASSUME NEW b \in Seq(Piece), NEW d \in Seq(Piece), NEW c, NEW m \in Int,
         Run(b, c, m), Run(d, c, m + Len(b))
  PROVE  Run(b \o d, c, m)
<1>1. /\ Len(b \o d) = Len(b) + Len(d) /\ DOMAIN (b \o d) = 1 .. Len(b) + Len(d)
      /\ \A k \in 1 .. Len(b) : (b \o d)[k] = b[k]
      /\ \A k \in 1 .. Len(d) : (b \o d)[Len(b) + k] = d[k]
  OBVIOUS
<1> SUFFICES ASSUME NEW k \in 1 .. Len(b) + Len(d)
             PROVE  (b \o d)[k] = [conn |-> c, n |-> m + k, part |-> (b \o d)[k].part]
  BY <1>1 DEF Run
<1>2. CASE k \in 1 .. Len(b)
  BY <1>1, <1>2 DEF Run
<1>3. CASE k \notin 1 .. Len(b)
  <2>1. PICK l \in 1 .. Len(d) : k = Len(b) + l
    <3>1. k - Len(b) \in 1 .. Len(d) /\ k = Len(b) + (k - Len(b))
      BY <1>3
    <3> QED BY <3>1
  <2>2. m + Len(b) + l = m + k
    BY <2>1
  <2> QED BY <1>1, <2>1, <2>2 DEF Run
<1> QED BY <1>2, <1>3

(* They go behind those in the buffer, which is cut where it is too long.   *)
LEMMA AppendKeepsImages ==
  ASSUME NetworkInv, ImagesInv, AppendChunk PROVE ImagesInv'
<1>1. /\ readPc = "append" /\ readPc' = "top" /\ buffer' = buffer \o chunk /\ chunk' = <<>>
      /\ UNCHANGED <<listening, client, seen, image, stream>>
      /\ buffer \in Seq(Piece) /\ chunk \in Seq(Piece) /\ buffer' \in Seq(Piece)
      /\ Len(buffer') = Len(buffer) + Len(chunk)
      /\ seen \in Conns /\ stream[seen] \in Seq(Parts) /\ seen # NoConn
      /\ client = seen \/ (client = NoConn /\ ~listening /\ buffer = <<>>)
  BY SendersAssumption DEF AppendChunk, Goto, ImagesInv, BufferTypes, Copied
<1>2. BufferTypes' /\ Copied' /\ Whole(image')
  BY <1>1, Nothing DEF ImagesInv, BufferTypes, Copied
<1>3. CASE client = seen
  <2> DEFINE L == Len(stream[seen])
             m == L - Len(buffer) - Len(chunk)
  <2>1. L \in Nat /\ Len(buffer) \in Nat /\ Len(chunk) \in Nat
    BY <1>1
  <2>2. Run(buffer, seen, m)
    BY <1>1, <1>3 DEF ImagesInv, FromClient, Pending
  <2>3. Run(chunk, seen, L - Len(chunk))
    BY <1>1, <1>3 DEF ImagesInv, Copied
  <2> HIDE DEF L
  <2>4. m \in Int /\ m + Len(buffer) = L - Len(chunk) /\ m = L - Len(buffer') - 0
    BY <1>1, <2>1
  <2> HIDE DEF m
  <2>5. Run(buffer', seen, m)
    BY <1>1, <2>2, <2>3, <2>4, ConcatRun
  <2>6. FromClient' /\ LeftOver'
    BY <1>1, <1>3, <2>4, <2>5 DEF FromClient, LeftOver, Pending, L
  <2> QED BY <1>2, <2>6 DEF ImagesInv
<1>4. CASE client = NoConn
  <2>1. buffer' = chunk
    BY <1>1, <1>4
  <2>2. Len(stream[seen]) - Len(chunk) \in Int
    BY <1>1
  <2>3. OneSender(chunk)
    BY <1>1, <2>2 DEF ImagesInv, Copied, OneSender
  <2>4. FromClient' /\ LeftOver'
    BY <1>1, <1>4, <2>1, <2>3 DEF FromClient, LeftOver
  <2> QED BY <1>2, <2>4 DEF ImagesInv
<1> QED BY <1>1, <1>3, <1>4

(* All steps of a read.                                                     *)
LEMMA ReadKeepsImages ==
  ASSUME NetworkInv, ImagesInv, ReadStep, UNCHANGED <<threadVars, ownerPc>>
  PROVE  ImagesInv'
<1> USE Nothing, SendersAssumption
    DEF ImagesInv, BufferTypes, FromClient, LeftOver, Copied, Pending, NetworkInv, Reading,
        SourceTypes, SocketsOwned, sourceVars, threadVars, Goto, Return, NoConn
<1>1. CASE ReadTop \/ CopyDescriptors
  BY <1>1, ImagesStay DEF ReadTop, CopyDescriptors
<1>3. CASE Accept
  BY <1>3 DEF Accept
<1>4. CASE AcceptFails \/ PollClient \/ ReceiveFails
  BY <1>4, ImagesStay DEF AcceptFails, PollClient, ReceiveFails
<1>5. CASE HangUp
  BY <1>5 DEF HangUp, CloseClient
<1>6. CASE Extract
  BY <1>6, ExtractKeepsImages
<1>7. CASE Adopt
  <2>1. CASE StillMine
    BY <1>7, <2>1 DEF Adopt
  <2>2. CASE ~StillMine
    BY <1>7, <2>2, ImagesStay DEF Adopt
  <2> QED BY <2>1, <2>2
<1>8. CASE Receive
  BY <1>8, ReceiveKeepsImages
<1>9. CASE AppendChunk
  BY <1>9, AppendKeepsImages
<1> QED BY <1>1, <1>3, <1>4, <1>5, <1>6, <1>7, <1>8, <1>9 DEF ReadStep

(* Every image read() hands out is one connection's, as it was sent.        *)
THEOREM WholeImages == NetworkSpec => []ImagesAreWhole
<1>1. NetworkInit => ImagesInv
  BY Nothing DEF NetworkInit, NetInit, ImagesInv, BufferTypes, FromClient, LeftOver, Copied, NoConn
<1>2. NetworkInv /\ ImagesInv /\ [NetworkNext]_networkVars => ImagesInv'
  <2>1. NetworkInv /\ ImagesInv /\ UNCHANGED networkVars => ImagesInv'
    BY ImagesStay DEF networkVars, netVars, sourceVars, readVars
  <2> QED BY <2>1, OutsideKeepsImages, ReadKeepsImages DEF NetworkNext, CaptureStep
<1>3. ImagesInv => ImagesAreWhole
  BY DEF ImagesInv, Whole, ImagesAreWhole
<1> QED BY <1>1, <1>2, <1>3, NetworkInductive, PTL DEF NetworkSpec

-----------------------------------------------------------------------------
(***************************************************************************)
(* A V4L2 session that one thread opens, reads and releases leaves nothing *)
(* behind and loses no buffer, wherever a call of the driver fails and     *)
(* however many buffers the driver grants.                                 *)
(***************************************************************************)

CamSpec == CamInit /\ [][CamNext]_camVars

Opening == {"negotiate", "request", "map", "queue", "start"}
Running == {"open", "copy", "requeue"}

AllAbsent == \A b \in Bufs : kBuf[b] = "absent"

(* The members tell the truth about the driver at every control point.      *)
CamTypes ==
  /\ {camFd, camStreaming, kSession, kStream} \subseteq BOOLEAN
  /\ camAddr \subseteq camTable /\ camTable \subseteq Bufs
  /\ camPc \in {"closed"} \cup Opening \cup Running
  /\ relPc \in [Releasers -> {"no", "streamoff", "unmap", "close"}]
  /\ kBuf \in [Bufs -> {"absent", "queued", "out"}]

Mirrors == kMapped = camAddr /\ kSession = camFd /\ kStream = camStreaming

Releasing ==
  /\ relPc["thread"] # "no" => camPc = "closed" /\ camFd
  /\ relPc["thread"] \in {"unmap", "close"} => ~camStreaming
  /\ relPc["thread"] = "close" => camAddr = {}

Stages ==
  /\ camPc = "closed" /\ relPc["thread"] = "no" =>
       ~camFd /\ ~camStreaming /\ camTable = {} /\ AllAbsent
  /\ camPc \in Opening => camFd /\ ~camStreaming
  /\ camPc \in {"negotiate", "request"} => camTable = {}
  /\ camPc \in {"queue", "start"} \cup Running => camAddr = camTable
  /\ camPc \in {"start", "open"} => \A b \in camTable : kBuf[b] = "queued"
  /\ camPc \in Running => camFd /\ camStreaming
  /\ camPc \in {"copy", "requeue"} =>
       camIndex \in camTable /\ \A b \in camTable : kBuf[b] = "queued" \/ b = camIndex

CamInv == CamTypes /\ Mirrors /\ Releasing /\ Stages

USE DEF Opening, Running, Releasers, AllAbsent

(* A failure with the device open goes into release(), whatever there is.   *)
LEMMA UndoKeeps ==
  ASSUME CamTypes, camFd, Undo("closed"),
         UNCHANGED <<camFd, camStreaming, camAddr, kSession, kStream, kMapped>>, Mirrors,
         camTable' \in {camTable, {}}, camAddr = {} \/ camTable' = camTable,
         kBuf' \in [Bufs -> {"absent", "queued", "out"}]
  PROVE  CamInv'
  BY DEF CamInv, CamTypes, Mirrors, Releasing, Stages, Undo

(* The steps of open(), each of which may fail ...                          *)
LEMMA OpenKeeps ==
  ASSUME CamInv, OpenDevice \/ Negotiate \/ RequestBuffers
  PROVE  CamInv'
  <1>1. CASE OpenDevice
    <2>1. ~camStreaming /\ camTable = {} /\ AllAbsent /\ camPc = "closed" /\ relPc["thread"] = "no"
      BY <1>1 DEF OpenDevice, CamInv, Stages
    <2>2. CASE camFd' = TRUE /\ kSession' = TRUE /\ camPc' = "negotiate"
      BY <1>1, <2>1, <2>2 DEF OpenDevice, CamInv, CamTypes, Mirrors, Releasing, Stages
    <2>3. CASE UNCHANGED <<camFd, kSession, camPc>>
      BY <1>1, <2>1, <2>3 DEF OpenDevice, CamInv, CamTypes, Mirrors, Releasing, Stages
    <2> QED
      BY <1>1, <2>2, <2>3 DEF OpenDevice
  <1>2. CASE Negotiate
    <2>1. CASE Undo("closed")
      <3>1. camFd /\ UNCHANGED <<camFd, camStreaming, camTable, camAddr, kSession, kStream, kMapped, kBuf>>
        BY <1>2 DEF Negotiate, CamInv, Stages, camSource, camKernel
      <3> QED
        BY <2>1, <3>1, UndoKeeps DEF CamInv, CamTypes
    <2>2. CASE camFd /\ Goes("request")
      BY <1>2, <2>2 DEF Negotiate, Goes, CamInv, CamTypes, Mirrors, Releasing, Stages,
                        camSource, camKernel
    <2> QED
      BY <1>2, <2>1, <2>2 DEF Negotiate
  <1>3. CASE RequestBuffers
    <2>1. kBuf' \in [Bufs -> {"absent", "queued", "out"}]
      BY <1>3 DEF RequestBuffers, CamInv, CamTypes
    <2>2. CASE Undo("closed")
      <3>1. camTable' \in {camTable, {}}
        BY <1>3, <2>2 DEF RequestBuffers, Undo, Goes, CamInv, Releasing, Stages
      <3> QED
        BY <1>3, <2>1, <2>2, <3>1, UndoKeeps DEF RequestBuffers, CamInv, CamTypes, Stages
    <2>3. CASE ~Undo("closed")
      <3>1. PICK n \in Bufs : Goes("map") /\ camTable' = 1 .. n
        BY <1>3, <2>3 DEF RequestBuffers
      <3>2. 1 .. n \subseteq Bufs
        <4>1. PICK m \in Nat : Bufs = 1 .. m
          BY BufsAssumption, FS_CardinalityType
        <4> QED
          BY <4>1
      <3> QED
        BY <1>3, <2>1, <2>3, <3>1, <3>2
        DEF RequestBuffers, Goes, CamInv, CamTypes, Mirrors, Releasing, Stages
    <2> QED
      BY <2>2, <2>3
  <1> QED
    BY <1>1, <1>2, <1>3

(* ... up to the start of the stream.                                       *)
LEMMA StartKeeps ==
  ASSUME CamInv, MapBuffers \/ QueueAll \/ StreamOn
  PROVE  CamInv'
  <1>1. CASE Undo("closed")
    <2>1. kBuf' \in [Bufs -> {"absent", "queued", "out"}]
      BY DEF MapBuffers, QueueAll, StreamOn, camSource, CamInv, CamTypes
    <2>2. camPc' = "closed" /\ UNCHANGED relPc["owner"]
      BY <1>1 DEF Undo, CamInv, CamTypes
    <2>3. camPc \in Opening /\ UNCHANGED <<camSource, kSession, kStream, kMapped>>
      BY <2>2 DEF MapBuffers, QueueAll, StreamOn, Goes, camSource
    <2> QED
      BY <1>1, <2>1, <2>3, UndoKeeps DEF camSource, CamInv, CamTypes, Stages
  <1>2. CASE MapBuffers /\ ~Undo("closed")
    BY <1>2 DEF MapBuffers, Goes, CamInv, CamTypes, Mirrors, Releasing, Stages
  <1>3. CASE QueueAll /\ ~Undo("closed")
    BY <1>3 DEF QueueAll, Goes, camSource, CamInv, CamTypes, Mirrors, Releasing, Stages
  <1>4. CASE StreamOn /\ ~Undo("closed")
    BY <1>4 DEF StreamOn, Goes, CamInv, CamTypes, Mirrors, Releasing, Stages
  <1> QED
    BY <1>1, <1>2, <1>3, <1>4

(* A read takes one buffer from the driver and gives it back.               *)
LEMMA ReadKeeps ==
  ASSUME CamInv, Dequeue \/ DequeueFails \/ CopyFrame \/ Incomplete \/ Requeue \/ CallRelease
  PROVE  CamInv'
  <1>1. CASE Undo("closed")
    <2>1. kBuf' \in [Bufs -> {"absent", "queued", "out"}]
      BY DEF Dequeue, DequeueFails, CopyFrame, Incomplete, Requeue, CallRelease,
             camKernel, CamInv, CamTypes, Stages
    <2>2. camPc \in Running /\ UNCHANGED <<camSource, kSession, kStream, kMapped>>
      BY DEF Dequeue, DequeueFails, CopyFrame, Incomplete, Requeue, CallRelease, camKernel
    <2> QED
      BY <1>1, <2>1, <2>2, UndoKeeps DEF camSource, CamInv, CamTypes, Mirrors, Stages
  <1>2. CASE Dequeue /\ ~Undo("closed")
    BY <1>2 DEF Dequeue, camSource, CamInv, CamTypes, Mirrors, Releasing, Stages
  <1>3. CASE CopyFrame /\ ~Undo("closed")
    BY <1>3 DEF CopyFrame, Goes, camSource, camKernel, CamInv, CamTypes, Mirrors, Releasing, Stages
  <1>4. CASE Requeue /\ ~Undo("closed")
    BY <1>4 DEF Requeue, Goes, camSource, CamInv, CamTypes, Mirrors, Releasing, Stages
  <1> QED
    BY <1>1, <1>2, <1>3, <1>4 DEF DequeueFails, Incomplete, CallRelease

(* A release stops the stream and unmaps every buffer.                      *)
LEMMA ReleaseKeeps ==
  ASSUME CamInv, ReleaseStep("thread")
  PROVE  CamInv'
  <1>1. CASE StreamOff("thread")
    BY <1>1 DEF StreamOff, ReleaseGoes, camThread, CamInv, CamTypes, Mirrors, Releasing, Stages
  <1>2. CASE Unmap("thread")
    BY <1>2 DEF Unmap, ReleaseGoes, camThread, CamInv, CamTypes, Mirrors, Releasing, Stages
  <1>3. CASE CloseDevice("thread")
    BY <1>3 DEF CloseDevice, ReleaseGoes, camThread, CamInv, CamTypes, Mirrors, Releasing, Stages
  <1> QED
    BY <1>1, <1>2, <1>3 DEF ReleaseStep

(* Nothing of a session outlives its end, and a running camera has all its  *)
(* buffers with the driver but the one that is being read.                  *)
THEOREM NoBufferLost == CamSpec => []BuffersAccounted
  <1>1. CamInit => CamInv
    BY DEF CamInit, CamInv, CamTypes, Mirrors, Releasing, Stages
  <1>2. CamInv /\ [CamNext]_camVars => CamInv'
    <2>1. CASE UNCHANGED camVars
      BY <2>1 DEF camVars, camSource, camThread, camKernel,
                  CamInv, CamTypes, Mirrors, Releasing, Stages
    <2> QED
      BY <2>1, OpenKeeps, StartKeeps, ReadKeeps, ReleaseKeeps DEF CamNext, CamThreadStep
  <1>3. CamInv => BuffersAccounted
    BY DEF CamInv, CamTypes, Mirrors, Releasing, Stages, BuffersAccounted
  <1> QED
    BY <1>1, <1>2, <1>3, PTL DEF CamSpec

-----------------------------------------------------------------------------
(***************************************************************************)
(* RTSP: what is pushed into a pipeline goes forward, however the threads  *)
(* that push, the one that publishes, restarts of the server and pipelines *)
(* of an earlier server mix: PushesInOrder for any number of frames and    *)
(* restarts.                                                               *)
(***************************************************************************)

Copies == [frame : Nat, pts : Nat]

RtspTypes ==
  /\ latestFrame \in Nat /\ nextPts \in Nat /\ published \in Nat
  /\ media \in [Servers -> {"none", "seeding", "playing"}]
  /\ held \in [Servers -> [PushThreads -> Copies]] /\ pushed \in [Servers -> Copies]

(* A thread holds a copy only where it pushes, so never both of a pipeline; *)
(* and a pipeline being configured has the client that asked for it.        *)
Holders ==
  \A s \in Servers :
    /\ held[s]["client"] # NoCopy => media[s] = "seeding"
    /\ held[s]["pipeline"] # NoCopy => media[s] = "playing"
    /\ media[s] = "seeding" => s \in clients

(* A copy is newer than what was pushed and no newer than what there is.    *)
InStep ==
  /\ latestFrame \in {0, published}
  /\ \A s \in Servers :
       /\ pushed[s].pts <= nextPts /\ pushed[s].frame <= published
       /\ \A t \in PushThreads : held[s][t] # NoCopy =>
            /\ pushed[s].pts < held[s][t].pts /\ held[s][t].pts <= nextPts
            /\ pushed[s].frame <= held[s][t].frame /\ held[s][t].frame <= published

PushInv == RtspTypes /\ Holders /\ InStep

USE DEF PushThreads, NoCopy, Copies

(* Steps of the application, the server and the clients that touch no copy. *)
LEMMA OthersKeep ==
  ASSUME PushInv,
         \/ RtspOwnerStep \/ RtspServerStep \/ Connect
         \/ \E s \in Servers : Disconnect(s) \/ PlayMedia(s)
  PROVE  PushInv'
  <1> USE DEF rtspFlags, rtspFrames, rtspOwner, rtspServer, rtspMedia
  <1> DEFINE MediaEnds(s) == held[s]["pipeline"] = NoCopy /\ media' = [media EXCEPT ![s] = "none"]
  <1>1. /\ UNCHANGED <<held, pushed, nextPts>>
        /\ latestFrame' \in Nat /\ published' \in Nat /\ published <= published'
        /\ latestFrame' \in {0, published'}
        /\ \/ UNCHANGED media /\ clients \subseteq clients'
           \/ starts \notin clients /\ UNCHANGED clients /\ MediaEnds(starts)
           \/ \E s \in Servers : /\ media[s] # "seeding" /\ clients' = clients \ {s}
                                 /\ UNCHANGED media \/ MediaEnds(s)
           \/ \E s \in Servers : /\ held[s]["client"] = NoCopy /\ UNCHANGED clients
                                 /\ media[s] = "seeding"
                                 /\ media' = [media EXCEPT ![s] = "playing"]
    <2>1. CASE RtspOwnerStep
      BY <2>1 DEF RtspOwnerStep, StartServer, StartReturns, PublishFrame, StopServer, QuitLoop,
                  JoinServer, PushInv, RtspTypes, InStep
    <2>2. CASE RtspServerStep
      BY <2>2 DEF RtspServerStep, ServerReady, ServerFails, EnterLoop, LeaveLoop, ReleaseServer,
                  EndMedia, FinishServer, PushInv, RtspTypes, InStep
    <2>3. CASE Connect
      BY <2>3 DEF Connect, PushInv, RtspTypes, InStep
    <2>4. ASSUME NEW s \in Servers, Disconnect(s)
          PROVE  /\ UNCHANGED <<held, pushed, nextPts, latestFrame, published>>
                 /\ media[s] # "seeding" /\ clients' = clients \ {s}
                 /\ UNCHANGED media \/ MediaEnds(s)
      BY <2>4 DEF Disconnect, EndMedia
    <2>5. ASSUME NEW s \in Servers, PlayMedia(s)
          PROVE  /\ UNCHANGED <<held, pushed, nextPts, latestFrame, published, clients>>
                 /\ held[s]["client"] = NoCopy /\ media[s] = "seeding"
                 /\ media' = [media EXCEPT ![s] = "playing"]
      BY <2>5 DEF PlayMedia
    <2>6. /\ latestFrame \in Nat /\ published \in Nat /\ published <= published
          /\ latestFrame \in {0, published}
      BY DEF PushInv, RtspTypes, InStep
    <2>7. CASE \E s \in Servers : Disconnect(s) \/ PlayMedia(s)
      BY <2>4, <2>5, <2>6, <2>7
    <2> QED
      BY <2>1, <2>2, <2>3, <2>7
  <1>2. RtspTypes'
    BY <1>1 DEF PushInv, RtspTypes
  <1>3. Holders'
    <2> SUFFICES ASSUME NEW s \in Servers
                 PROVE  /\ held[s]["client"] # NoCopy => media'[s] = "seeding"
                        /\ held[s]["pipeline"] # NoCopy => media'[s] = "playing"
                        /\ media'[s] = "seeding" => s \in clients'
      BY <1>1 DEF Holders
    <2> USE DEF PushInv, RtspTypes, Holders
    <2>1. CASE UNCHANGED media /\ clients \subseteq clients'
      BY <2>1
    <2>2. CASE starts \notin clients /\ UNCHANGED clients /\ MediaEnds(starts)
      BY <2>2
    <2>3. CASE \E r \in Servers : /\ media[r] # "seeding" /\ clients' = clients \ {r}
                                  /\ UNCHANGED media \/ MediaEnds(r)
      BY <2>3
    <2>4. CASE \E r \in Servers : /\ held[r]["client"] = NoCopy /\ UNCHANGED clients
                                  /\ media[r] = "seeding"
                                  /\ media' = [media EXCEPT ![r] = "playing"]
      BY <2>4
    <2> QED
      BY <1>1, <2>1, <2>2, <2>3, <2>4
  <1>4. InStep'
    <2> SUFFICES ASSUME NEW s \in Servers, NEW t \in PushThreads
                 PROVE  /\ pushed[s].pts <= nextPts /\ pushed[s].frame <= published'
                        /\ held[s][t] # NoCopy =>
                             /\ pushed[s].pts < held[s][t].pts /\ held[s][t].pts <= nextPts
                             /\ pushed[s].frame <= held[s][t].frame
                             /\ held[s][t].frame <= published'
      BY <1>1 DEF InStep
    <2>1. pushed[s] \in Copies /\ held[s][t] \in Copies /\ published \in Nat
      BY DEF PushInv, RtspTypes
    <2> QED
      BY <1>1, <2>1 DEF PushInv, InStep
  <1> QED
    BY <1>2, <1>3, <1>4 DEF PushInv

(* A copy is made when nobody holds one of that pipeline, and gets the next *)
(* time stamp.                                                              *)
LEMMA CopyKeeps ==
  ASSUME PushInv, NEW s \in Servers, NEW t \in PushThreads, CopyLatest(s, t),
         held[s]["client"] = NoCopy, held[s]["pipeline"] = NoCopy,
         media' \in [Servers -> {"none", "seeding", "playing"}],
         \A r \in Servers : r # s => media'[r] = media[r],
         t = "client" => media'[s] = "seeding",
         t = "pipeline" => media'[s] = "playing",
         media'[s] = "seeding" => s \in clients,
         UNCHANGED <<clients, latestFrame, published, pushed>>
  PROVE  PushInv'
  <1>1. CASE UNCHANGED <<held, nextPts>>
    <2>1. RtspTypes' /\ InStep'
      BY <1>1 DEF PushInv, RtspTypes, InStep
    <2>2. Holders'
      BY <1>1 DEF PushInv, RtspTypes, Holders
    <2> QED
      BY <2>1, <2>2 DEF PushInv
  <1>2. CASE ~UNCHANGED <<held, nextPts>>
    <2> DEFINE new == [frame |-> latestFrame, pts |-> nextPts + 1]
    <2>1. /\ held' = [held EXCEPT ![s][t] = new]
          /\ nextPts' = nextPts + 1 /\ latestFrame # 0
      BY <1>2 DEF CopyLatest
    <2>2. new \in Copies /\ nextPts \in Nat /\ latestFrame \in Nat /\ published \in Nat
          /\ latestFrame = published
      BY <2>1 DEF PushInv, RtspTypes, InStep
    <2>3. /\ held' \in [Servers -> [PushThreads -> Copies]]
          /\ held'[s][t] = new /\ \A u \in PushThreads : u # t => held'[s][u] = NoCopy
          /\ \A r \in Servers : r # s => held'[r] = held[r]
      BY <2>1, <2>2 DEF PushInv, RtspTypes
    <2>4. RtspTypes'
      BY <2>1, <2>2, <2>3 DEF PushInv, RtspTypes
    <2>5. Holders'
      BY <2>3 DEF PushInv, Holders
    <2>6. InStep'
      <3> SUFFICES ASSUME NEW r \in Servers, NEW u \in PushThreads
                   PROVE  /\ pushed[r].pts <= nextPts + 1 /\ pushed[r].frame <= published
                          /\ held'[r][u] # NoCopy =>
                               /\ pushed[r].pts < held'[r][u].pts
                               /\ held'[r][u].pts <= nextPts + 1
                               /\ pushed[r].frame <= held'[r][u].frame
                               /\ held'[r][u].frame <= published
        BY <2>1, <2>2 DEF PushInv, InStep
      <3>1. pushed[r].pts \in Nat /\ pushed[r].frame \in Nat
            /\ pushed[r].pts <= nextPts /\ pushed[r].frame <= published
        BY DEF PushInv, RtspTypes, InStep
      <3>2. CASE r = s /\ u = t
        BY <2>2, <2>3, <3>1, <3>2
      <3>3. CASE r = s /\ u # t
        BY <2>2, <2>3, <3>1, <3>3
      <3>4. CASE r # s
        <4>1. held'[r][u] = held[r][u] /\ held[r][u] \in Copies
          BY <2>3, <3>4 DEF PushInv, RtspTypes
        <4> QED
          BY <2>2, <3>1, <4>1 DEF PushInv, InStep
      <3> QED
        BY <3>2, <3>3, <3>4
    <2> QED
      BY <2>4, <2>5, <2>6 DEF PushInv
  <1> QED
    BY <1>1, <1>2

(* A thread pushes the copy it has.                                         *)
LEMMA PushKeeps ==
  ASSUME PushInv, NEW s \in Servers, NEW t \in PushThreads, Push(s, t)
  PROVE  PushInv'
  <1>1. /\ held[s][t] # NoCopy /\ pushed' = [pushed EXCEPT ![s] = held[s][t]]
        /\ held' = [held EXCEPT ![s][t] = NoCopy]
        /\ UNCHANGED <<clients, media, latestFrame, nextPts, published>>
    BY DEF Push, rtspFrames, rtspOwner
  <1>2. \A u \in PushThreads : held'[s][u] = NoCopy
    BY <1>1 DEF PushInv, RtspTypes, Holders
  <1>3. /\ \A r \in Servers : r # s => held'[r] = held[r] /\ pushed'[r] = pushed[r]
        /\ pushed'[s] = held[s][t] /\ held[s][t] \in Copies
    BY <1>1 DEF PushInv, RtspTypes
  <1>4. RtspTypes'
    BY <1>1 DEF PushInv, RtspTypes
  <1>5. Holders'
    BY <1>1, <1>2, <1>3 DEF PushInv, Holders
  <1>6. InStep'
    BY <1>1, <1>2, <1>3 DEF PushInv, RtspTypes, InStep
  <1> QED
    BY <1>4, <1>5, <1>6 DEF PushInv

(* Every step keeps the order of the pushes.                                *)
LEMMA RtspKeeps ==
  ASSUME PushInv, [RtspNext]_rtspVars
  PROVE  PushInv'
  <1>1. CASE \E s \in Servers, t \in PushThreads : Push(s, t)
    BY <1>1, PushKeeps
  <1>2. ASSUME NEW s \in Servers, ConfigureMedia(s)
        PROVE  PushInv'
    <2>1. /\ media[s] = "none" /\ media' = [media EXCEPT ![s] = "seeding"]
          /\ s \in clients /\ CopyLatest(s, "client")
          /\ UNCHANGED <<clients, latestFrame, published, pushed>>
      BY <1>2 DEF ConfigureMedia, rtspOwner
    <2>2. /\ held[s]["client"] = NoCopy /\ held[s]["pipeline"] = NoCopy
          /\ media' \in [Servers -> {"none", "seeding", "playing"}]
          /\ media'[s] = "seeding" /\ \A r \in Servers : r # s => media'[r] = media[r]
      BY <2>1 DEF PushInv, RtspTypes, Holders
    <2> QED
      BY <2>1, <2>2, CopyKeeps
  <1>3. ASSUME NEW s \in Servers, NeedData(s)
        PROVE  PushInv'
    <2>1. /\ media[s] = "playing" /\ held[s]["pipeline"] = NoCopy /\ CopyLatest(s, "pipeline")
          /\ UNCHANGED <<clients, latestFrame, published, pushed, media>>
      BY <1>3 DEF NeedData, rtspOwner
    <2>2. /\ held[s]["client"] = NoCopy
          /\ media \in [Servers -> {"none", "seeding", "playing"}]
      BY <2>1 DEF PushInv, RtspTypes, Holders
    <2> QED
      BY <2>1, <2>2, CopyKeeps
  <1>4. CASE UNCHANGED rtspVars
    BY <1>4 DEF rtspVars, rtspFlags, rtspFrames, rtspOwner, rtspServer, rtspMedia,
                PushInv, RtspTypes, Holders, InStep
  <1>5. CASE \/ RtspOwnerStep \/ RtspServerStep \/ Connect
             \/ \E s \in Servers : Disconnect(s) \/ PlayMedia(s)
    BY <1>5, OthersKeep
  <1> QED
    BY <1>1, <1>2, <1>3, <1>4, <1>5 DEF RtspNext, ClientStep, PipelineStep

(* Whichever thread pushes: time stamps grow, and no client sees a frame    *)
(* after a newer one.                                                       *)
THEOREM ForwardOnly == RtspSpec => PushesInOrder
  <1>1. RtspInit => PushInv
    BY DEF RtspInit, PushInv, RtspTypes, Holders, InStep
  <1>2. PushInv /\ [RtspNext]_rtspVars => PushInv'
    BY RtspKeeps
  <1> DEFINE PushesForward ==
        \A s \in Servers, t \in PushThreads : held[s][t] # NoCopy /\ held'[s][t] = NoCopy =>
          held[s][t].pts > pushed[s].pts /\ held[s][t].frame >= pushed[s].frame
  <1>3. PushInv => PushesForward
    BY DEF PushInv, RtspTypes, InStep
  <1>4. PushInv /\ [RtspNext]_rtspVars => [PushesForward]_rtspVars
    BY <1>3
  <1> QED
    BY <1>1, <1>2, <1>4, PTL DEF RtspSpec, PushesInOrder

-----------------------------------------------------------------------------
(***************************************************************************)
(* The bridge on the PC: until Windows ends it, it holds or has tried to   *)
(* terminate every process it started, whatever these do by themselves.    *)
(***************************************************************************)

(* Which children may still have handles follows from toStop, and a watch   *)
(* begins with all three of them started.                                   *)
CareInv ==
  /\ handle \in [Children -> BOOLEAN] /\ process \in [Children -> {"none", "runs", "over"}]
  /\ bridgePc # "killed" =>
       \A c \in Children : process[c] = "runs" => handle[c] \/ c \in unkillable
  /\ \A c \in Children : bridgePc \in {"stop", "end"} /\ c \notin toStop => ~handle[c]
  /\ bridgePc = "end" => toStop = {}
  /\ bridgePc \notin {"stop", "end", "killed"} => toStop = Children
  /\ toStop \subseteq Children
  /\ bridgePc = "stop" /\ watched /\ handle["sender"] /\ handle["raw"] =>
       bridgeStop \/ process["sender"] # "runs"

(* A start takes the place of a child that is over.                         *)
LEMMA ChildStarts ==
  ASSUME CareInv, NEW c \in Children, StartChild(c), bridgePc \notin {"stop", "end", "killed"},
         bridgePc' \notin {"stop", "end", "killed"}, UNCHANGED <<toStop, unkillable>>
  PROVE  CareInv'
  <1>1. handle' \in [Children -> BOOLEAN] /\ process' \in [Children -> {"none", "runs", "over"}]
    BY DEF CareInv, StartChild
  <1>2. ASSUME NEW d \in Children, process'[d] = "runs"  PROVE handle'[d] \/ d \in unkillable'
    BY <1>2 DEF CareInv, StartChild
  <1> QED
    BY <1>1, <1>2 DEF CareInv

(* stop_child closes the handles of c, and knows whom it could not end.     *)
LEMMA ChildStopped ==
  ASSUME CareInv, NEW c \in Children, Stopped(c), bridgePc # "killed"
  PROVE  /\ handle' = [handle EXCEPT ![c] = FALSE]
         /\ handle' \in [Children -> BOOLEAN]
         /\ process' \in [Children -> {"none", "runs", "over"}]
         /\ \A d \in Children : process'[d] = "runs" => process[d] = "runs"
         /\ \A d \in Children : process'[d] = "runs" => handle'[d] \/ d \in unkillable'
  <1>1. /\ handle' = [handle EXCEPT ![c] = FALSE]
        /\ \/ UNCHANGED <<process, unkillable>> /\ (~handle[c] \/ process[c] # "runs")
           \/ process' = [process EXCEPT ![c] = "over"] /\ UNCHANGED unkillable
           \/ unkillable' = unkillable \cup {c} /\ UNCHANGED process
    BY DEF Stopped, HasExited
  <1> QED
    BY <1>1 DEF CareInv

(* A stop at the end leaves no handle.                                      *)
LEMMA ChildStops ==
  ASSUME CareInv, Stop
  PROVE  CareInv'
  <1> DEFINE c == IF "detection" \in toStop THEN "detection"
                  ELSE IF "raw" \in toStop THEN "raw" ELSE "sender"
  <1>1. /\ Stopped(c) /\ toStop' = toStop \ {c} /\ c \in Children
        /\ bridgePc = "stop" /\ bridgePc' = IF toStop' = {} THEN "end" ELSE "stop"
        /\ UNCHANGED <<watched, bridgeStop>>
    BY DEF Stop, Children, console
  <1> HIDE DEF c
  <1>2. /\ handle' = [handle EXCEPT ![c] = FALSE]
        /\ handle' \in [Children -> BOOLEAN]
        /\ process' \in [Children -> {"none", "runs", "over"}]
        /\ \A d \in Children : process'[d] = "runs" => process[d] = "runs"
        /\ \A d \in Children : process'[d] = "runs" => handle'[d] \/ d \in unkillable'
    BY <1>1, ChildStopped
  <1> QED
    BY <1>1, <1>2 DEF CareInv, Children

(* Every step of the bridge keeps CareInv.                                  *)
LEMMA BridgeKeeps ==
  ASSUME CareInv, [BridgeNext]_bridgeVars
  PROVE  CareInv'
  <1> USE DEF console
  <1>1. CASE StartSender
    BY <1>1, ChildStarts DEF StartSender, Children
  <1>2. CASE StartRaw
    BY <1>2, ChildStarts DEF StartRaw, Children
  <1>3. CASE Attempt
    <2>1. bridgePc' \in {"probe", "attempt"} /\ bridgePc = "attempt"
      BY <1>3 DEF Attempt
    <2> QED
      BY <1>3, <2>1, ChildStarts DEF Attempt, Children
  <1>4. CASE Probe
    <2>1. CASE HasExited("detection")
      <3>1. /\ bridgePc = "probe" /\ bridgePc' = "attempt" /\ Stopped("detection")
            /\ UNCHANGED <<watched, toStop, bridgeStop>> /\ "detection" \in Children
        BY <1>4, <2>1 DEF Probe, Children
      <3>2. /\ handle' \in [Children -> BOOLEAN]
            /\ process' \in [Children -> {"none", "runs", "over"}]
            /\ \A d \in Children : process'[d] = "runs" => handle'[d] \/ d \in unkillable'
        BY <3>1, ChildStopped
      <3> QED
        BY <3>1, <3>2 DEF CareInv
    <2>2. CASE ~HasExited("detection")
      BY <1>4, <2>2 DEF Probe, CareInv
    <2> QED
      BY <2>1, <2>2
  <1>5. CASE GiveUp
    BY <1>5 DEF GiveUp, CareInv, Children
  <1>6. CASE Check
    BY <1>6 DEF Check, CareInv, Children
  <1>7. CASE Watch
    BY <1>7 DEF Watch, Gone, HasExited, CareInv, Children
  <1>8. CASE Stop
    BY <1>8, ChildStops
  <1>9. CASE \E c \in Children : Exits(c)
    BY <1>9 DEF Exits, CareInv, Children
  <1>10. CASE Console
    BY <1>10 DEF Console, CareInv
  <1>11. CASE Killed
    BY <1>11 DEF Killed, CareInv
  <1>12. CASE UNCHANGED bridgeVars
    BY <1>12 DEF bridgeVars, CareInv
  <1> QED
    BY <1>1, <1>2, <1>3, <1>4, <1>5, <1>6, <1>7, <1>8, <1>9, <1>10, <1>11, <1>12
    DEF BridgeNext, BridgeStep

(* Unless Windows ends the bridge, a process it no longer holds is one that *)
(* it tried in vain to terminate, no handle is left at the end, and a       *)
(* preview that closes does not end the others.                             *)
THEOREM ChildrenAccountedFor == BridgeSpec => []ChildrenCared
  <1>1. BridgeInit => CareInv
    BY DEF BridgeInit, CareInv, Children
  <1>2. CareInv /\ [BridgeNext]_bridgeVars => CareInv'
    BY BridgeKeeps
  <1>3. CareInv => ChildrenCared
    BY DEF CareInv, ChildrenCared, Children
  <1> QED
    BY <1>1, <1>2, <1>3, PTL DEF BridgeSpec

==============================================================================
