---------------------------- MODULE NetworkCapture ----------------------------
(***************************************************************************)
(* CameraCaptureThread (src/application.cpp) over NetworkCameraSource: the *)
(* thread that opens, reads, closes and reopens the input, and the owner   *)
(* that stops it by a flag and by releasing the input while the thread may *)
(* be in the middle of a read.  Implements CaptureThread, which knows of   *)
(* the input no more than whether it is open.                              *)
(***************************************************************************)
EXTENDS NetworkCameraSource

CONSTANTS
  ReopenAfter,  (* consecutive read failures before a reopen: 5 in the code  *)
  MaxFrames     (* bound: frames captured                                    *)

ASSUME ReopenAssumption == ReopenAfter \in Nat \ {0}

VARIABLES
  capPc, capReady, capFailed, capStop, failures, latest, overwritten,
  ownerPc       (* control point of request_stop() and join()                *)

(* Nobody takes the frames here, and a signal is the owner's to answer: it  *)
(* may stop at any time.                                                    *)
Cap == INSTANCE CaptureThread WITH
  sourceOpen <- listening, lastConsumed <- 0, gStop <- capStop

captureVars == <<capPc, capReady, capFailed, capStop, listening, failures, latest, overwritten>>
threadVars  == <<capPc, capReady, capFailed, capStop, failures, latest, overwritten>>
networkVars == <<netVars, threadVars, ownerPc>>

NetworkInit == NetInit /\ Cap!Init /\ ownerPc = "run"

-----------------------------------------------------------------------------
(* The capture thread.                                                      *)

CaptureOpen ==
  /\ capPc = "open"
  /\ \/ NetOpen /\ UNCHANGED sock /\ capReady' = TRUE /\ capPc' = "check"
        /\ UNCHANGED capFailed
     \/ NetRelease /\ capFailed' = TRUE /\ capPc' = "done" /\ UNCHANGED capReady
  /\ UNCHANGED <<readVars, stream, capStop, failures, latest, overwritten, ownerPc>>

CaptureRead ==
  /\ capPc = "read" /\ BeginRead
  /\ UNCHANGED <<sourceVars, sock, stream, threadVars, ownerPc>>

ReturnTo(pc) == capPc' = pc /\ readPc' = "idle" /\ UNCHANGED <<seen, accepted, chunk, image>>

ReadDelivers ==
  /\ readPc = "true" /\ latest < MaxFrames /\ ReturnTo("publish") /\ failures' = 0
  /\ UNCHANGED <<sourceVars, sock, stream, capReady, capFailed, capStop, latest,
                 overwritten, ownerPc>>

(* Too many in a row: the input is released before the pause.               *)
ReadGivesNothing ==
  /\ readPc = "false"
  /\ IF failures + 1 < ReopenAfter
     THEN failures' = failures + 1 /\ ReturnTo("check") /\ UNCHANGED <<sourceVars, sock>>
     ELSE failures' = ReopenAfter /\ ReturnTo("pause") /\ NetRelease
  /\ UNCHANGED <<stream, capReady, capFailed, capStop, latest, overwritten, ownerPc>>

ReadThrows ==
  /\ readPc = "throw" /\ ReturnTo("done") /\ NetRelease /\ capFailed' = TRUE
  /\ UNCHANGED <<stream, capReady, capStop, failures, latest, overwritten, ownerPc>>

CaptureReopen ==
  /\ capPc = "reopen" /\ capPc' = "check"
  /\ \/ NetOpen /\ UNCHANGED sock /\ failures' = 0
     \/ UNCHANGED <<sourceVars, sock, failures>>
  /\ UNCHANGED <<readVars, stream, capReady, capFailed, capStop, latest,
                 overwritten, ownerPc>>

CaptureClose ==
  /\ capPc = "close" /\ capPc' = "done" /\ NetRelease
  /\ UNCHANGED <<readVars, stream, capReady, capFailed, capStop, failures, latest,
                 overwritten, ownerPc>>

CaptureStep ==
  \/ CaptureOpen \/ CaptureRead \/ ReadDelivers \/ ReadGivesNothing \/ ReadThrows
  \/ CaptureReopen \/ CaptureClose
  \/ ReadStep /\ UNCHANGED <<threadVars, ownerPc>>
  \/ UNCHANGED <<netVars, ownerPc>> /\ (Cap!CheckStop \/ Cap!Pause \/ Cap!Publish)

-----------------------------------------------------------------------------
(* The owner: request_stop() raises the flag of the thread under its lock,  *)
(* then releases the input, which raises another flag before it locks.      *)

MutantOwnerStops ==  (* mutant: the input is released, the flag forgotten *)
  /\ ownerPc = "run" /\ ownerPc' = "flag"
  /\ UNCHANGED <<netVars, threadVars>>
OwnerStops ==
  /\ ownerPc = "run" /\ ownerPc' = "flag" /\ capStop' = TRUE
  /\ UNCHANGED <<netVars, capPc, capReady, capFailed, failures, latest, overwritten>>

OwnerFlags ==
  /\ ownerPc = "flag" /\ ownerPc' = "close" /\ RaiseNetStop
  /\ UNCHANGED <<readVars, sock, stream, threadVars>>

OwnerCloses ==
  /\ ownerPc = "close" /\ ownerPc' = "join" /\ CloseAll /\ UNCHANGED netStop
  /\ UNCHANGED <<readVars, stream, threadVars>>

OwnerJoins ==
  /\ ownerPc = "join" /\ capPc = "done" /\ ownerPc' = "end"
  /\ UNCHANGED <<netVars, threadVars>>

OwnerStep == OwnerStops \/ OwnerFlags \/ OwnerCloses \/ OwnerJoins

NetworkNext == CaptureStep \/ OwnerStep

NetworkSpec == NetworkInit /\ [][NetworkNext]_networkVars

-----------------------------------------------------------------------------
(* Properties.                                                              *)

(* A frame is one image of one connection, whole and as it was sent: never  *)
(* the start that one sender left unfinished with the end of another's,     *)
(* nor bytes that were read from a descriptor closed meanwhile.             *)
ImagesAreWhole ==
  image # <<>> =>
    /\ image[1].conn \in Conns /\ image[1].part = "soi" /\ image[Len(image)].part = "eoi"
    /\ \A k \in 2 .. Len(image) :
         /\ image[k] = [conn |-> image[1].conn, n |-> image[1].n + k - 1, part |-> image[k].part]
         /\ image[k].part = "eoi" => k = Len(image)

(* No connection is lost: one that is open is the client or was accepted    *)
(* just now, there is a client only while there is a listener, and when the *)
(* thread has ended everything is closed.                                   *)
SocketsOwned ==
  /\ \A c \in Conns : sock[c] = "open" => c = client \/ (c = accepted /\ readPc = "adopt")
  /\ client # NoConn => listening /\ sock[client] = "open"
  /\ capPc = "done" => ~listening

(* Seen from outside the input is what CaptureThread takes it for: frames   *)
(* come from an open input only, and nothing but the thread's own opens,    *)
(* closes and failures and the owner's release changes whether it is open.  *)
CaptureContract ==
  Cap!Init /\ [][Cap!Step \/ Cap!RaiseStop \/ Cap!ReleaseSource]_captureVars

(* A stop reaches the thread wherever read() is, and no open() that comes   *)
(* in between undoes it.                                                    *)
StopEndsCapture == ownerPc = "flag" ~> ownerPc = "end"

==============================================================================
