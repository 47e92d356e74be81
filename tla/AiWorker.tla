------------------------------- MODULE AiWorker -------------------------------
(***************************************************************************)
(* SmoothAiWorker of src/application.cpp: one thread takes the frame the   *)
(* UI thread submitted, runs detector, tracker, stabilizer and region      *)
(* monitor on it outside the lock, and replaces the latest result, whose   *)
(* generation counts the results.  A frame is its sequence number, 0 none. *)
(***************************************************************************)
EXTENDS Naturals

VARIABLES
  aiPc,        (* control point of the worker; "off" before it is built     *)
  pending,     (* pending_frame_, 0 when pending_ is false                  *)
  work,        (* the frame being processed                                 *)
  busy,        (* busy_                                                     *)
  aiStop,      (* stop_requested_                                           *)
  aiFailed,    (* failed_                                                   *)
  generation,  (* latest_.generation                                        *)
  resultFrame  (* latest_.source_frame_id                                   *)

Init ==
  /\ aiPc = "off" /\ pending = 0 /\ work = 0 /\ busy = FALSE
  /\ aiStop = FALSE /\ aiFailed = FALSE /\ generation = 0 /\ resultFrame = 0

-----------------------------------------------------------------------------
(* run(), the worker thread.                                                *)

Take ==
  /\ aiPc = "wait" /\ pending # 0
  /\ work' = pending /\ pending' = 0 /\ busy' = TRUE
  /\ aiPc' = "infer"
  /\ UNCHANGED <<aiStop, aiFailed, generation, resultFrame>>

ExitWait ==
  /\ aiPc = "wait" /\ aiStop /\ pending = 0
  /\ aiPc' = "done"
  /\ UNCHANGED <<pending, work, busy, aiStop, aiFailed, generation, resultFrame>>

Finish ==
  /\ aiPc = "infer"
  /\ generation' = generation + 1 /\ resultFrame' = work
  /\ busy' = FALSE /\ aiPc' = "wait"
  /\ UNCHANGED <<pending, work, aiStop, aiFailed>>

(* Any exception of the chain ends the worker.                              *)
Throw ==
  /\ aiPc = "infer"
  /\ aiFailed' = TRUE /\ aiStop' = TRUE
  /\ busy' = FALSE /\ aiPc' = "done"
  /\ UNCHANGED <<pending, work, generation, resultFrame>>

Step == Take \/ ExitWait \/ Finish \/ Throw

-----------------------------------------------------------------------------
(* The operations of the UI thread, as parts of its own steps.              *)

Construct == aiPc' = "wait"
             /\ UNCHANGED <<pending, work, busy, aiStop, aiFailed, generation, resultFrame>>

MutantAccepts == ~aiStop /\ pending = 0  (* mutant: busy_ is not tested *)
Accepts == ~aiStop /\ ~busy /\ pending = 0

Submit(frame) ==
  /\ pending' = IF Accepts THEN frame ELSE pending
  /\ UNCHANGED <<aiPc, work, busy, aiStop, aiFailed, generation, resultFrame>>

RequestStop ==
  aiStop' = TRUE /\ pending' = 0
  /\ UNCHANGED <<aiPc, work, busy, aiFailed, generation, resultFrame>>

Joined == aiPc \in {"off", "done"}

TypeOK ==
  /\ aiPc \in {"off", "wait", "infer", "done"}
  /\ pending \in Nat /\ work \in Nat /\ busy \in BOOLEAN
  /\ busy => aiPc = "infer"
  /\ aiStop \in BOOLEAN /\ aiFailed \in BOOLEAN
  /\ generation \in Nat /\ resultFrame \in Nat

==============================================================================
