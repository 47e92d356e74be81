----------------------------- MODULE CameraSource -----------------------------
(***************************************************************************)
(* CameraSource (src/camera_source.cpp): the V4L2 camera.  open() makes a  *)
(* session with the driver in many steps, each of which may fail, and      *)
(* release() undoes as much of it as there is; read() borrows a buffer of  *)
(* the driver, copies it and gives it back.  A buffer of the driver is     *)
(* absent, queued with it, or out with the program.                        *)
(*                                                                         *)
(* One thread opens, reads, releases and opens again, as run_camera and    *)
(* CameraCaptureThread::run do.  CameraCaptureThread::request_stop calls   *)
(* release() from another: OwnerReleases, which CamStopNext adds.          *)
(***************************************************************************)
EXTENDS Naturals, FiniteSets

CONSTANTS
  Bufs,      (* the buffers of the driver, 1 .. 4                            *)
  MaxOpens   (* bound: calls of open()                                       *)

VARIABLES
  camFd,        (* fd_ >= 0                                                  *)
  camStreaming, (* streaming_                                                *)
  camTable,     (* buffers_: the slots that exist                            *)
  camAddr,      (* buffers_: the slots with an address                       *)
  camIndex,     (* the buffer that read() works on                           *)
  camPc,        (* control point of the thread                               *)
  relPc,        (* per thread: control point of release(), "no" outside it   *)
  camOpens,
  kSession,     (* driver: somebody has the device open                      *)
  kStream,      (* driver: it captures                                       *)
  kBuf,         (* driver: where each buffer is                              *)
  kMapped       (* kernel: the buffers mapped into the program               *)

camSource == <<camFd, camStreaming, camTable, camAddr>>
camThread == <<camIndex, camPc, camOpens>>
camKernel == <<kSession, kStream, kBuf, kMapped>>
camVars   == <<camSource, camThread, relPc, camKernel>>

ASSUME BufsAssumption == IsFiniteSet(Bufs) /\ Bufs = 1 .. Cardinality(Bufs)

NoBuf == 0
Releasers == {"thread", "owner"}

CamInit ==
  /\ camFd = FALSE /\ camStreaming = FALSE /\ camTable = {} /\ camAddr = {}
  /\ camIndex = NoBuf /\ camPc = "closed" /\ camOpens = 0
  /\ relPc = [r \in Releasers |-> "no"]
  /\ kSession = FALSE /\ kStream = FALSE /\ kBuf = [b \in Bufs |-> "absent"] /\ kMapped = {}

Goes(pc) == camPc' = pc /\ UNCHANGED <<camIndex, camOpens, relPc>>

(* release() is entered by the thread, which goes on at pc when it is done. *)
MutantUndo(pc) ==  (* mutant: a failure on the way is not rolled back *)
  camPc' = pc /\ UNCHANGED <<camIndex, camOpens, relPc>>
Undo(pc) ==
  /\ camPc' = pc /\ relPc' = [relPc EXCEPT !["thread"] = "streamoff"]
  /\ UNCHANGED <<camIndex, camOpens>>

-----------------------------------------------------------------------------
(* open(): nothing to undo when the device cannot be opened.                *)

OpenDevice ==
  /\ camPc = "closed" /\ relPc["thread"] = "no" /\ camOpens < MaxOpens
  /\ camOpens' = camOpens + 1
  /\ \/ camFd' = TRUE /\ kSession' = TRUE /\ camPc' = "negotiate"
     \/ UNCHANGED <<camFd, kSession, camPc>>
  /\ UNCHANGED <<camStreaming, camTable, camAddr, camIndex, relPc, kStream, kBuf, kMapped>>

(* QUERYCAP and S_FMT, whose answers have to be 1280x720 NV12 in one plane. *)
Negotiate ==
  /\ camPc = "negotiate"
  /\ (camFd /\ Goes("request")) \/ Undo("closed")
  /\ UNCHANGED <<camSource, camKernel>>

(* REQBUFS: the driver decides how many there will be.                      *)
RequestBuffers ==
  /\ camPc = "request"
  /\ \/ Undo("closed") /\ UNCHANGED <<camTable, kBuf>>
     \/ /\ camFd
        /\ \E n \in Bufs :
             /\ kBuf' = [b \in Bufs |-> IF b <= n THEN "out" ELSE "absent"]
             /\ IF n < 2 THEN Undo("closed") /\ UNCHANGED camTable
                ELSE Goes("map") /\ camTable' = 1 .. n
  /\ UNCHANGED <<camFd, camStreaming, camAddr, kSession, kStream, kMapped>>

(* QUERYBUF and mmap, slot by slot.                                         *)
MapBuffers ==
  /\ camPc = "map"
  /\ LET left == camTable \ camAddr
     IN  \/ left # {} /\ Undo("closed") /\ UNCHANGED <<camAddr, kMapped>>
         \/ left = {} /\ Goes("queue") /\ UNCHANGED <<camAddr, kMapped>>
         \/ \E b \in left :
              /\ camFd /\ \A c \in left : b <= c
              /\ camAddr' = camAddr \cup {b} /\ kMapped' = kMapped \cup {b}
              /\ Goes("map")
  /\ UNCHANGED <<camFd, camStreaming, camTable, kSession, kStream, kBuf>>

QueueAll ==
  /\ camPc = "queue"
  /\ LET left == {b \in camTable : kBuf[b] # "queued"}
     IN  \/ left # {} /\ Undo("closed") /\ UNCHANGED kBuf
         \/ left = {} /\ Goes("start") /\ UNCHANGED kBuf
         \/ \E b \in left :
              /\ camFd /\ \A c \in left : b <= c
              /\ kBuf' = [kBuf EXCEPT ![b] = "queued"] /\ Goes("queue")
  /\ UNCHANGED <<camSource, kSession, kStream, kMapped>>

StreamOn ==
  /\ camPc = "start"
  /\ \/ Undo("closed") /\ UNCHANGED <<camStreaming, kStream>>
     \/ camFd /\ camStreaming' = TRUE /\ kStream' = TRUE /\ Goes("open")
  /\ UNCHANGED <<camFd, camTable, camAddr, kSession, kBuf, kMapped>>

-----------------------------------------------------------------------------
(* read().                                                                  *)

(* The driver has a frame; one that it calls by an impossible name stays    *)
(* with the program.                                                        *)
Dequeue ==
  /\ camPc = "open" /\ camFd /\ camStreaming /\ kStream
  /\ \E b \in Bufs :
       /\ kBuf[b] = "queued"
       /\ kBuf' = [kBuf EXCEPT ![b] = "out"]
       /\ \/ b \in camTable /\ camIndex' = b /\ camPc' = "copy" /\ UNCHANGED <<camOpens, relPc>>
          \/ Undo("closed")
  /\ UNCHANGED <<camSource, kSession, kStream, kMapped>>

(* An error of the driver; no frame for now changes nothing.                *)
DequeueFails ==
  /\ camPc = "open" /\ Undo("closed")
  /\ UNCHANGED <<camSource, camKernel>>

(* The rows are copied and converted.                                       *)
CopyFrame ==
  /\ camPc = "copy" /\ Goes("requeue")
  /\ UNCHANGED <<camSource, camKernel>>

(* A buffer that is too short is given back, if that is possible, before    *)
(* the exception goes on.                                                   *)
Incomplete ==
  /\ camPc = "copy" /\ Undo("closed")
  /\ kBuf' = [kBuf EXCEPT ![camIndex] = "queued"] \/ UNCHANGED kBuf
  /\ UNCHANGED <<camSource, kSession, kStream, kMapped>>

Requeue ==
  /\ camPc = "requeue"
  /\ \/ /\ camFd /\ camIndex \in camTable /\ kSession
        /\ kBuf' = [kBuf EXCEPT ![camIndex] = "queued"] /\ Goes("open")
     \/ Undo("closed") /\ UNCHANGED kBuf
  /\ UNCHANGED <<camSource, kSession, kStream, kMapped>>

(* The thread ends, or reopens after failures.                              *)
CallRelease ==
  /\ camPc = "open" /\ Undo("closed")
  /\ UNCHANGED <<camSource, camKernel>>

-----------------------------------------------------------------------------
(* release(), by one thread or the other.                                   *)

ReleaseGoes(r, pc) == relPc' = [relPc EXCEPT ![r] = pc]

StreamOff(r) ==
  /\ relPc[r] = "streamoff" /\ ReleaseGoes(r, "unmap")
  /\ camStreaming' = FALSE
  /\ IF camStreaming /\ camFd
     THEN kStream' = FALSE
          /\ kBuf' = [b \in Bufs |-> IF kBuf[b] = "absent" THEN "absent" ELSE "out"]
     ELSE UNCHANGED <<kStream, kBuf>>
  /\ UNCHANGED <<camFd, camTable, camAddr, camThread, kSession, kMapped>>

Unmap(r) ==
  /\ relPc[r] = "unmap" /\ ReleaseGoes(r, "close")
  /\ kMapped' = kMapped \ camAddr /\ camAddr' = {}
  /\ UNCHANGED <<camFd, camStreaming, camTable, camThread, kSession, kStream, kBuf>>

(* REQBUFS with none, close, and the table is cleared.                      *)
CloseDevice(r) ==
  /\ relPc[r] = "close" /\ ReleaseGoes(r, "no")
  /\ camFd' = FALSE /\ camTable' = {} /\ camAddr' = {}
  /\ IF camFd THEN kSession' = FALSE /\ kBuf' = [b \in Bufs |-> "absent"]
     ELSE UNCHANGED <<kSession, kBuf>>
  /\ UNCHANGED <<camStreaming, camThread, kStream, kMapped>>

ReleaseStep(r) == StreamOff(r) \/ Unmap(r) \/ CloseDevice(r)

CamThreadStep ==
  \/ OpenDevice \/ Negotiate \/ RequestBuffers \/ MapBuffers \/ QueueAll \/ StreamOn
  \/ Dequeue \/ DequeueFails \/ CopyFrame \/ Incomplete \/ Requeue \/ CallRelease

CamNext == CamThreadStep \/ ReleaseStep("thread")

(* request_stop(), at any time after the first open, for which start()      *)
(* waits.                                                                   *)
OwnerReleases ==
  /\ camOpens > 1 \/ camPc \in {"open", "copy", "requeue"}
  /\ relPc["owner"] = "no" /\ ReleaseGoes("owner", "streamoff")
  /\ UNCHANGED <<camSource, camThread, camKernel>>

CamStopNext == CamNext \/ OwnerReleases \/ ReleaseStep("owner")
CamStopSpec == CamInit /\ [][CamStopNext]_camVars

-----------------------------------------------------------------------------
CamTypeOK ==
  /\ {camFd, camStreaming, kSession, kStream} \subseteq BOOLEAN
  /\ camAddr \subseteq camTable /\ camTable \subseteq Bufs /\ kMapped \subseteq Bufs
  /\ camIndex \in Bufs \cup {NoBuf} /\ camOpens \in 0 .. MaxOpens
  /\ camPc \in {"closed", "negotiate", "request", "map", "queue", "start", "open", "copy",
                "requeue"}
  /\ relPc \in [Releasers -> {"no", "streamoff", "unmap", "close"}]
  /\ kBuf \in [Bufs -> {"absent", "queued", "out"}]

(* Wherever an open() or a read() failed, nothing is left of the session    *)
(* once the failure has been handled: no buffer is mapped or allocated, the *)
(* driver does not capture, the device can be opened again.  And while the  *)
(* camera runs no buffer is lost: all are with the driver, but the one that *)
(* is being read.                                                           *)
BuffersAccounted ==
  /\ camPc = "closed" /\ relPc["thread"] = "no" =>
       /\ ~camFd /\ ~camStreaming /\ camTable = {}
       /\ ~kSession /\ ~kStream /\ kMapped = {} /\ \A b \in Bufs : kBuf[b] = "absent"
  /\ camPc \in {"open", "copy", "requeue"} =>
       /\ kMapped = camTable /\ camAddr = camTable
       /\ \A b \in camTable : kBuf[b] = "queued" \/ (camPc # "open" /\ b = camIndex)

(* What CameraCaptureThread::run says: from open to release the source is   *)
(* its own, so the buffer it copies from stays mapped.                      *)
CopiesFromMapped == camPc = "copy" => camIndex \in kMapped

==============================================================================
