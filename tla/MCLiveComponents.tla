--------------------------- MODULE MCLiveComponents ---------------------------
(* TLC instance of the inputs, outputs and tools around the pipeline, each  *)
(* on its own against a device, a network or a user that does anything: a   *)
(* behaviour picks one of them at its start and the others stand still.     *)
(* A part whose threads are to make progress does so under its fairness.    *)
EXTENDS NetworkCapture, RtspStreamer, EventLogger, CameraSource, ClassFusion,
        FrameLoop, PcBridge

VARIABLE part  (* the component of this behaviour *)

liveVars == <<part, networkVars, rtspVars, loggerVars, camVars, fusionVars, loopVars, bridgeVars>>

AnyOptions == [mode |-> "image", show |-> FALSE, record |-> TRUE, force |-> FALSE,
               mp4 |-> FALSE, max |-> 0]
NoFiles == [f \in Outputs |-> "absent"]

Init ==
  /\ part \in {"network", "rtsp", "logger", "v4l2", "fusion", "loop", "bridge"}
  /\ NetworkInit /\ RtspInit /\ LoggerInit /\ CamInit /\ FusionInit /\ BridgeInit
  /\ LoopInit /\ (part # "loop" => options = AnyOptions /\ files = NoFiles)

NetworkPart ==
  /\ part = "network" /\ NetworkNext
  /\ UNCHANGED <<part, rtspVars, loggerVars, camVars, fusionVars, loopVars, bridgeVars>>
RtspPart ==
  /\ part = "rtsp" /\ RtspNext
  /\ UNCHANGED <<part, networkVars, loggerVars, camVars, fusionVars, loopVars, bridgeVars>>
LoggerPart ==
  /\ part = "logger" /\ LoggerNext
  /\ UNCHANGED <<part, networkVars, rtspVars, camVars, fusionVars, loopVars, bridgeVars>>
CameraPart ==
  /\ part = "v4l2" /\ CamNext
  /\ UNCHANGED <<part, networkVars, rtspVars, loggerVars, fusionVars, loopVars, bridgeVars>>
FusionPart ==
  /\ part = "fusion" /\ FusionNext
  /\ UNCHANGED <<part, networkVars, rtspVars, loggerVars, camVars, loopVars, bridgeVars>>
LoopPart ==
  /\ part = "loop" /\ LoopNext
  /\ UNCHANGED <<part, networkVars, rtspVars, loggerVars, camVars, fusionVars, bridgeVars>>
BridgePart ==
  /\ part = "bridge" /\ BridgeNext
  /\ UNCHANGED <<part, networkVars, rtspVars, loggerVars, camVars, fusionVars, loopVars>>

Next == \/ NetworkPart \/ RtspPart \/ LoggerPart \/ CameraPart \/ FusionPart
        \/ LoopPart \/ BridgePart

(* The threads of the part that runs keep running; of a pipeline only the   *)
(* pushes do, clients come and go as they like.                             *)
Fairness ==
  /\ WF_networkVars(part = "network" /\ CaptureStep)
  /\ WF_networkVars(part = "network" /\ OwnerStep)
  /\ WF_rtspVars(part = "rtsp" /\ RtspOwnerStep)
  /\ WF_rtspVars(part = "rtsp" /\ RtspServerStep)
  /\ \A s \in Servers : WF_rtspVars(part = "rtsp" /\ Push(s, "pipeline"))
  /\ WF_fusionVars(part = "fusion" /\ ObserveAny)

Spec == Init /\ [][Next]_liveVars /\ Fairness

Halved(e, dt) == (e * 2) \div (2 + dt)

==============================================================================
