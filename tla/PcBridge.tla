------------------------------- MODULE PcBridge -------------------------------
(***************************************************************************)
(* tools/pc_two_window_bridge.cpp: the PC program that starts three FFmpeg *)
(* processes, the camera sender and two previews, watches the sender, and  *)
(* ends them all.  Each process may end by itself at any time, and may     *)
(* outlive the attempt to terminate it.  A console event sets the stop     *)
(* flag; after a close, a logoff or a shutdown Windows ends the bridge as  *)
(* soon as the handler has returned.                                       *)
(***************************************************************************)
EXTENDS Naturals

CONSTANT MaxAttempts  (* starts of the detection preview: 4 *)

Children == {"sender", "raw", "detection"}

VARIABLES
  bridgePc,
  handle,      (* started: the child's handles are open                      *)
  process,     (* of each child: "none", "runs", or "over"                   *)
  attempt,     (* attempts made                                              *)
  watched,     (* detection_started                                          *)
  bridgeStop,  (* stop_requested                                             *)
  closing,     (* the event was one after which Windows ends the bridge      *)
  unkillable,  (* auxiliary: children that ran on when they were stopped     *)
  toStop       (* children still to be stopped, in the order of the code     *)

bridgeVars == <<bridgePc, handle, process, attempt, watched, bridgeStop, closing,
                unkillable, toStop>>

console == <<bridgeStop, closing>>

BridgeInit ==
  /\ bridgePc = "sender" /\ attempt = 0 /\ watched = FALSE
  /\ bridgeStop = FALSE /\ closing = FALSE /\ unkillable = {}
  /\ handle = [c \in Children |-> FALSE] /\ process = [c \in Children |-> "none"]
  /\ toStop = Children

-----------------------------------------------------------------------------
(* start_child: CreateProcess succeeds, or there is nothing to stop.        *)
StartChild(c) ==
  \/ handle' = [handle EXCEPT ![c] = TRUE] /\ process' = [process EXCEPT ![c] = "runs"]
  \/ UNCHANGED <<handle, process>>

HasExited(c) == ~handle[c] \/ process[c] # "runs"

(* stop_child: terminate what still runs and wait three seconds; whether    *)
(* that succeeded is not asked, and the handles are closed either way.      *)
Stopped(c) ==
  /\ handle' = [handle EXCEPT ![c] = FALSE]
  /\ \/ HasExited(c) /\ UNCHANGED <<process, unkillable>>
     \/ /\ ~HasExited(c)
        /\ \/ process' = [process EXCEPT ![c] = "over"] /\ UNCHANGED unkillable
           \/ unkillable' = unkillable \cup {c} /\ UNCHANGED process

StartSender ==
  /\ bridgePc = "sender" /\ bridgePc' = "raw" /\ StartChild("sender")
  /\ UNCHANGED <<attempt, watched, console, unkillable, toStop>>

StartRaw ==
  /\ bridgePc = "raw" /\ bridgePc' = "attempt" /\ StartChild("raw")
  /\ UNCHANGED <<attempt, watched, console, unkillable, toStop>>

(* The detection preview, until one lives for a second and a half.          *)
Attempt ==
  /\ bridgePc = "attempt" /\ attempt < MaxAttempts /\ ~bridgeStop
  /\ attempt' = attempt + 1
  /\ StartChild("detection")
  /\ bridgePc' = IF handle'["detection"] THEN "probe" ELSE "attempt"
  /\ UNCHANGED <<watched, console, unkillable, toStop>>

Probe ==
  /\ bridgePc = "probe"
  /\ IF HasExited("detection")
     THEN bridgePc' = "attempt" /\ Stopped("detection") /\ UNCHANGED watched
     ELSE bridgePc' = "check" /\ watched' = TRUE /\ UNCHANGED <<handle, process, unkillable>>
  /\ UNCHANGED <<attempt, console, toStop>>

GiveUp ==
  /\ bridgePc = "attempt" /\ (attempt = MaxAttempts \/ bridgeStop)
  /\ bridgePc' = "check"
  /\ UNCHANGED <<handle, process, attempt, watched, console, unkillable, toStop>>

Check ==
  /\ bridgePc = "check"
  /\ bridgePc' = IF handle["sender"] /\ handle["raw"] /\ watched THEN "watch" ELSE "stop"
  /\ UNCHANGED <<handle, process, attempt, watched, console, unkillable, toStop>>

MutantGone == \E c \in Children : HasExited(c)  (* mutant: a closed preview ends all *)
Gone == HasExited("sender")

Watch ==
  /\ bridgePc = "watch" /\ (bridgeStop \/ Gone)
  /\ bridgePc' = "stop"
  /\ UNCHANGED <<handle, process, attempt, watched, console, unkillable, toStop>>

Stop ==
  /\ bridgePc = "stop"
  /\ LET c == IF "detection" \in toStop THEN "detection"
              ELSE IF "raw" \in toStop THEN "raw" ELSE "sender"
     IN  Stopped(c) /\ toStop' = toStop \ {c}
  /\ bridgePc' = IF toStop' = {} THEN "end" ELSE "stop"
  /\ UNCHANGED <<attempt, watched, console>>

BridgeStep == StartSender \/ StartRaw \/ Attempt \/ Probe \/ GiveUp \/ Check \/ Watch \/ Stop

-----------------------------------------------------------------------------
(* The processes and the console.                                           *)

Exits(c) ==
  /\ process[c] = "runs" /\ process' = [process EXCEPT ![c] = "over"]
  /\ UNCHANGED <<bridgePc, handle, attempt, watched, console, unkillable, toStop>>

(* console_handler, on a thread of its own: Ctrl+C and Ctrl+Break, or one   *)
(* of the events after which the bridge will be ended.                      *)
Console ==
  /\ bridgePc \notin {"end", "killed"} /\ ~closing
  /\ bridgeStop' = TRUE /\ closing' \in BOOLEAN
  /\ UNCHANGED <<bridgePc, handle, process, attempt, watched, unkillable, toStop>>

(* Windows ends the bridge, wherever its main thread is; its handles are    *)
(* closed, the processes go on.                                             *)
Killed ==
  /\ bridgePc \notin {"end", "killed"} /\ closing
  /\ bridgePc' = "killed" /\ handle' = [c \in Children |-> FALSE]
  /\ UNCHANGED <<process, attempt, watched, console, unkillable, toStop>>

BridgeNext == BridgeStep \/ (\E c \in Children : Exits(c)) \/ Console \/ Killed

BridgeSpec == BridgeInit /\ [][BridgeNext]_bridgeVars

-----------------------------------------------------------------------------
(* Properties.                                                              *)

(* As long as the bridge is not ended from outside, a process it no longer  *)
(* holds is one it tried in vain to terminate, be it one of a preview that  *)
(* was started more than once, and no handle is left at the end; and the    *)
(* watch ends for a console event or the end of the sender: a preview that  *)
(* closes is no reason.                                                     *)
ChildrenCared ==
  /\ \A c \in Children :
       process[c] = "runs" => handle[c] \/ c \in unkillable \/ bridgePc = "killed"
  /\ bridgePc = "end" => \A c \in Children : ~handle[c]
  /\ bridgePc = "stop" /\ watched /\ handle["sender"] /\ handle["raw"] =>
       bridgeStop \/ process["sender"] # "runs"

BridgeTypeOK ==
  /\ handle \in [Children -> BOOLEAN] /\ process \in [Children -> {"none", "runs", "over"}]
  /\ attempt \in 0 .. MaxAttempts /\ toStop \subseteq Children
  /\ unkillable \subseteq Children /\ {bridgeStop, closing, watched} \subseteq BOOLEAN

==============================================================================
