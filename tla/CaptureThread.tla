---------------------------- MODULE CaptureThread ----------------------------
(***************************************************************************)
(* CameraCaptureThread of src/application.cpp: one thread opens and reads  *)
(* a capture input and leaves each frame, numbered, in a slot that holds   *)
(* the newest only; five failed reads in a row make it close the input,    *)
(* wait and reopen it.  The owner waits for a newer frame, and stops the   *)
(* thread by raising a flag and releasing the input under its feet.        *)
(* A frame is its sequence number; 0 is no frame.                          *)
(***************************************************************************)
EXTENDS Naturals

CONSTANTS
  ReopenAfter,  (* consecutive read failures before a reopen: 5 in the code  *)
  MaxFrames     (* bound: frames captured                                    *)

VARIABLES
  capPc,        (* control point of the capture thread                       *)
  capReady,     (* ready_                                                    *)
  capFailed,    (* failed_                                                   *)
  capStop,      (* stop_requested_                                           *)
  sourceOpen,   (* the capture input is open                                 *)
  failures,     (* consecutive_read_failures, held at ReopenAfter            *)
  latest,       (* sequence of latest_                                       *)
  lastConsumed, (* last_consumed_sequence_                                   *)
  overwritten,  (* overwritten_frames_                                       *)
  gStop         (* g_stop_requested, set by SIGINT or a key                  *)

Init ==
  /\ capPc = "open" /\ capReady = FALSE /\ capFailed = FALSE /\ capStop = FALSE
  /\ sourceOpen = FALSE /\ failures = 0
  /\ latest = 0 /\ lastConsumed = 0 /\ overwritten = 0

-----------------------------------------------------------------------------
(* run(), the capture thread.                                               *)

(* The first open(); an exception releases the input and ends the thread.   *)
Open ==
  /\ capPc = "open"
  /\ \/ capReady' = TRUE /\ sourceOpen' = TRUE /\ capPc' = "check"
        /\ UNCHANGED capFailed
     \/ capFailed' = TRUE /\ sourceOpen' = FALSE /\ capPc' = "done"
        /\ UNCHANGED capReady
  /\ UNCHANGED <<capStop, failures, latest, lastConsumed, overwritten, gStop>>

CheckStop ==
  /\ capPc = "check"
  /\ capPc' = IF capStop THEN "close" ELSE "read"
  /\ UNCHANGED <<capReady, capFailed, capStop, sourceOpen, failures, latest,
                 lastConsumed, overwritten, gStop>>

(* The input is open, or was when this read() began.                        *)
ReadFrame ==
  /\ capPc = "read" /\ (sourceOpen \/ capStop) /\ latest < MaxFrames
  /\ failures' = 0 /\ capPc' = "publish"
  /\ UNCHANGED <<capReady, capFailed, capStop, sourceOpen, latest,
                 lastConsumed, overwritten, gStop>>

(* No complete frame in time, or the input is not open.                     *)
ReadFails ==
  /\ capPc = "read"
  /\ LET n == IF failures < ReopenAfter THEN failures + 1 ELSE failures
     IN  /\ failures' = n
         /\ IF n >= ReopenAfter
            THEN capPc' = "pause" /\ sourceOpen' = FALSE
            ELSE capPc' = "check" /\ UNCHANGED sourceOpen
  /\ UNCHANGED <<capReady, capFailed, capStop, latest, lastConsumed,
                 overwritten, gStop>>

(* read() threw, or the frame has not the agreed size and type.             *)
ReadThrows ==
  /\ capPc = "read"
  /\ sourceOpen' = FALSE /\ capFailed' = TRUE /\ capPc' = "done"
  /\ UNCHANGED <<capReady, capStop, failures, latest, lastConsumed, overwritten, gStop>>

(* kReopenDelay, cut short by a stop.                                       *)
Pause ==
  /\ capPc = "pause"
  /\ capPc' = IF capStop \/ gStop THEN "close" ELSE "reopen"
  /\ UNCHANGED <<capReady, capFailed, capStop, sourceOpen, failures, latest,
                 lastConsumed, overwritten, gStop>>

(* A failed reopen keeps the count of failures, so the next read retries.   *)
Reopen ==
  /\ capPc = "reopen"
  /\ \/ sourceOpen' = TRUE /\ failures' = 0
     \/ UNCHANGED <<sourceOpen, failures>>
  /\ capPc' = "check"
  /\ UNCHANGED <<capReady, capFailed, capStop, latest, lastConsumed, overwritten, gStop>>

MutantOverwrites == latest > 0  (* mutant: counts consumed frames too *)
Overwrites == latest > lastConsumed

(* The new frame replaces the one in the slot, unless a stop came first.    *)
Publish ==
  /\ capPc = "publish"
  /\ IF capStop
     THEN capPc' = "close" /\ UNCHANGED <<latest, overwritten>>
     ELSE /\ overwritten' = IF Overwrites THEN overwritten + 1 ELSE overwritten
          /\ latest' = latest + 1
          /\ capPc' = "check"
  /\ UNCHANGED <<capReady, capFailed, capStop, sourceOpen, failures, lastConsumed, gStop>>

MutantClose ==  (* mutant: the release at the end of run() is missing *)
  /\ capPc = "close"
  /\ capPc' = "done"
  /\ UNCHANGED <<capReady, capFailed, capStop, sourceOpen, failures, latest,
                 lastConsumed, overwritten, gStop>>
Close ==
  /\ capPc = "close"
  /\ sourceOpen' = FALSE /\ capPc' = "done"
  /\ UNCHANGED <<capReady, capFailed, capStop, failures, latest, lastConsumed,
                 overwritten, gStop>>

Step == \/ Open \/ CheckStop \/ ReadFrame \/ ReadFails \/ ReadThrows
        \/ Pause \/ Reopen \/ Publish \/ Close

-----------------------------------------------------------------------------
(* The operations the owner calls, as parts of its own steps.               *)

(* start() returns when the input is open, and throws when it cannot be.    *)
Started == capReady \/ capFailed

(* wait_for_new(last): TRUE with a newer frame in the slot ...              *)
HasNew(last) == latest > last /\ ~capStop /\ ~capFailed
TakeNew == lastConsumed' = latest
           /\ UNCHANGED <<capPc, capReady, capFailed, capStop, sourceOpen,
                          failures, latest, overwritten>>

(* ... or FALSE: the thread stopped or failed, or a signal was seen after   *)
(* one of the 100 ms waits, even if that very wait brought a frame.         *)
MutantGivesUp(last) == capStop \/ capFailed  (* mutant: the wait ignores signals *)
GivesUp(last) == capStop \/ capFailed \/ gStop

(* request_stop(): the flag under the lock, then, without it, the release.  *)
RaiseStop == capStop' = TRUE
             /\ UNCHANGED <<capPc, capReady, capFailed, sourceOpen, failures,
                            latest, lastConsumed, overwritten>>
ReleaseSource == sourceOpen' = FALSE
                 /\ UNCHANGED <<capPc, capReady, capFailed, capStop, failures,
                                latest, lastConsumed, overwritten>>

Joined == capPc = "done"

TypeOK ==
  /\ capPc \in {"open", "check", "read", "pause", "reopen", "publish", "close", "done"}
  /\ capReady \in BOOLEAN /\ capFailed \in BOOLEAN /\ capStop \in BOOLEAN
  /\ sourceOpen \in BOOLEAN /\ failures \in 0 .. ReopenAfter
  /\ latest \in Nat /\ lastConsumed \in Nat /\ overwritten \in Nat
  /\ gStop \in BOOLEAN

==============================================================================
