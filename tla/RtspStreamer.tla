----------------------------- MODULE RtspStreamer -----------------------------
(***************************************************************************)
(* RtspStreamer (src/rtsp_streamer.cpp): the application thread starts and *)
(* stops a server thread that runs a GLib main loop, and leaves the newest *)
(* annotated frame in a member; GStreamer takes copies of it, once while   *)
(* the pipeline is being configured, on the thread of its pool that serves *)
(* the clients, and then whenever the pipeline asks for data, on a thread  *)
(* of the pipeline.  GLib and GStreamer are modelled from their use here.  *)
(* A server, numbered by the call of start() that made it, has one         *)
(* pipeline, shared by its clients.  run_server() gives up its reference   *)
(* to the server and waits for no client: as long as one is connected it   *)
(* keeps the server, the pipeline and the callbacks into this object, also *)
(* beside the server of a later start().                                   *)
(* A frame is its number, 0 is none; time stamps count frames.             *)
(***************************************************************************)
EXTENDS Naturals

CONSTANTS
  MaxStarts,    (* bound: calls of start()                                   *)
  MaxPublished, (* bound: frames published                                   *)
  MaxPushed     (* bound: frames pushed into the pipeline                    *)

VARIABLES
  rtspReady, rtspFailed, rtspRunning, rtspStop,
  loopPtr,      (* loop_ is not null                                         *)
  latestFrame,  (* latest_buffer_                                            *)
  nextPts,      (* next_pts_                                                 *)
  rtspPc,       (* control point of the application thread                   *)
  quits,        (* the copy of loop_ that stop() made is not null            *)
  serverPc,     (* control point of run_server()                             *)
  loopLive,     (* the GMainLoop exists ...                                  *)
  loopRunning,  (* ... and its flag says that it runs                        *)
  clients,      (* the servers that have a client connected                  *)
  media,        (* of each server: its pipeline                              *)
  held,         (* of each server and thread: the copy it is about to push   *)
  pushed,       (* of each server: the last frame pushed                     *)
  starts, published

rtspFlags  == <<rtspReady, rtspFailed, rtspRunning, rtspStop, loopPtr>>
rtspFrames == <<latestFrame, nextPts>>
rtspOwner  == <<rtspPc, quits, starts, published>>
rtspServer == <<serverPc, loopLive, loopRunning>>
rtspMedia  == <<clients, media, held, pushed>>
rtspVars   == <<rtspFlags, rtspFrames, rtspOwner, rtspServer, rtspMedia>>

Servers == 1 .. MaxStarts
PushThreads == {"client", "pipeline"}
NoCopy == [frame |-> 0, pts |-> 0]

RtspInit ==
  /\ rtspReady = FALSE /\ rtspFailed = FALSE /\ rtspRunning = FALSE /\ rtspStop = FALSE
  /\ loopPtr = FALSE /\ latestFrame = 0 /\ nextPts = 0
  /\ rtspPc = "idle" /\ quits = FALSE /\ starts = 0 /\ published = 0
  /\ serverPc = "off" /\ loopLive = FALSE /\ loopRunning = FALSE
  /\ clients = {} /\ media = [s \in Servers |-> "none"]
  /\ held = [s \in Servers |-> [t \in PushThreads |-> NoCopy]]
  /\ pushed = [s \in Servers |-> NoCopy]

-----------------------------------------------------------------------------
(* The application thread.                                                  *)

(* start(): the previous thread has been joined by whoever ended it.        *)
StartServer ==
  /\ rtspPc = "idle" /\ starts < MaxStarts
  /\ starts' = starts + 1 /\ rtspPc' = "wait" /\ serverPc' = "setup"
  /\ rtspReady' = FALSE /\ rtspFailed' = FALSE /\ rtspStop' = FALSE
  /\ UNCHANGED <<rtspRunning, loopPtr, rtspFrames, quits, published, loopLive, loopRunning,
                 rtspMedia>>

StartReturns ==
  /\ rtspPc = "wait" /\ (rtspReady \/ rtspFailed)
  /\ rtspPc' = IF rtspFailed THEN "join" ELSE "up"
  /\ UNCHANGED <<rtspFlags, rtspFrames, quits, starts, published, rtspServer, rtspMedia>>

PublishFrame ==
  /\ rtspPc = "up" /\ published < MaxPublished
  /\ published' = published + 1 /\ latestFrame' = published + 1
  /\ UNCHANGED <<rtspFlags, nextPts, rtspPc, quits, starts, rtspServer, rtspMedia>>

(* stop(): the flag and the loop under the lock; the loop is told to quit   *)
(* without it.                                                              *)
StopServer ==
  /\ rtspPc = "up" /\ rtspPc' = "quit" /\ rtspStop' = TRUE /\ quits' = loopPtr
  /\ UNCHANGED <<rtspReady, rtspFailed, rtspRunning, loopPtr, rtspFrames, starts, published,
                 rtspServer, rtspMedia>>

(* g_main_loop_quit                                                         *)
QuitLoop ==
  /\ rtspPc = "quit" /\ rtspPc' = "join"
  /\ loopRunning' = (loopRunning /\ ~quits)
  /\ UNCHANGED <<rtspFlags, rtspFrames, quits, starts, published, serverPc, loopLive, rtspMedia>>

JoinServer ==
  /\ rtspPc = "join" /\ serverPc = "ended" /\ rtspPc' = "idle" /\ serverPc' = "off"
  /\ UNCHANGED <<rtspFlags, rtspFrames, quits, starts, published, loopLive, loopRunning,
                 rtspMedia>>

RtspOwnerStep ==
  StartServer \/ StartReturns \/ PublishFrame \/ StopServer \/ QuitLoop \/ JoinServer

-----------------------------------------------------------------------------
(* run_server(), the server thread.                                         *)

ServerReady ==
  /\ serverPc = "setup" /\ serverPc' = "enter"
  /\ loopPtr' = TRUE /\ rtspRunning' = TRUE /\ rtspReady' = TRUE /\ loopLive' = TRUE
  /\ UNCHANGED <<rtspFailed, rtspStop, rtspFrames, rtspOwner, loopRunning, rtspMedia>>

(* An object cannot be made or the port not be bound.                       *)
ServerFails ==
  /\ serverPc = "setup" /\ serverPc' = "release"
  /\ rtspFailed' = TRUE /\ rtspReady' = TRUE
  /\ UNCHANGED <<rtspRunning, rtspStop, loopPtr, rtspFrames, rtspOwner, loopLive, loopRunning,
                 rtspMedia>>

(* g_main_loop_run raises the flag of the loop, whatever a quit made of it. *)
EnterLoop ==
  /\ serverPc = "enter" /\ serverPc' = "loop" /\ loopRunning' = TRUE
  /\ UNCHANGED <<rtspFlags, rtspFrames, rtspOwner, loopLive, rtspMedia>>

MutantLeaveLoop ==  (* mutant: left when the last client has gone *)
  /\ serverPc = "loop" /\ ~loopRunning /\ starts \notin clients /\ serverPc' = "release"
  /\ UNCHANGED <<rtspFlags, rtspFrames, rtspOwner, loopLive, loopRunning, rtspMedia>>
LeaveLoop ==
  /\ serverPc = "loop" /\ ~loopRunning /\ serverPc' = "release"
  /\ UNCHANGED <<rtspFlags, rtspFrames, rtspOwner, loopLive, loopRunning, rtspMedia>>

(* The last reference to server s is given up: its pipeline ends, which     *)
(* waits for the thread of the pipeline.                                    *)
EndMedia(s) ==
  /\ held[s]["pipeline"] = NoCopy
  /\ media' = [media EXCEPT ![s] = "none"]

(* The references of run_server() to the server and the loop.  The source   *)
(* it removes is looked for in the default context and stays in its own.    *)
ReleaseServer ==
  /\ serverPc = "release"
  /\ serverPc' = "finish" /\ loopLive' = FALSE
  /\ IF starts \in clients THEN UNCHANGED media ELSE EndMedia(starts)
  /\ UNCHANGED <<rtspFlags, rtspFrames, rtspOwner, loopRunning, clients, held, pushed>>

FinishServer ==
  /\ serverPc = "finish" /\ serverPc' = "ended"
  /\ loopPtr' = FALSE /\ rtspRunning' = FALSE /\ latestFrame' = 0
  /\ UNCHANGED <<rtspReady, rtspFailed, rtspStop, nextPts, rtspOwner, loopLive, loopRunning,
                 rtspMedia>>

(* push_latest(): the newest frame and a time stamp are taken under the     *)
(* lock, and pushed without it.                                             *)
MutantCopyLatest(s, t) ==  (* mutant: the time stamp is the frame's *)
  IF latestFrame = 0 \/ rtspStop THEN UNCHANGED <<held, nextPts>>
  ELSE /\ held' = [held EXCEPT ![s][t] = [frame |-> latestFrame, pts |-> latestFrame]]
       /\ nextPts' = nextPts + 1
CopyLatest(s, t) ==
  IF latestFrame = 0 \/ rtspStop THEN UNCHANGED <<held, nextPts>>
  ELSE /\ held' = [held EXCEPT ![s][t] = [frame |-> latestFrame, pts |-> nextPts + 1]]
       /\ nextPts' = nextPts + 1

Push(s, t) ==
  /\ held[s][t] # NoCopy
  /\ pushed' = [pushed EXCEPT ![s] = held[s][t]]
  /\ held' = [held EXCEPT ![s][t] = NoCopy]
  /\ UNCHANGED <<clients, media, rtspFlags, rtspFrames, rtspOwner, rtspServer>>

(* A client is accepted by the loop, and served from then on by a thread of *)
(* GStreamer's pool.                                                        *)
Connect ==
  /\ serverPc = "loop" /\ loopRunning /\ starts \notin clients
  /\ clients' = clients \cup {starts}
  /\ UNCHANGED <<media, held, pushed, rtspFlags, rtspFrames, rtspOwner, rtspServer>>

(* The pipeline stays for the next client, unless run_server() has given up *)
(* the server: then nothing keeps it any longer.                            *)
Released(s) == s < starts \/ serverPc \in {"finish", "ended", "off"}
Disconnect(s) ==
  /\ s \in clients /\ media[s] # "seeding"
  /\ clients' = clients \ {s}
  /\ IF Released(s) THEN EndMedia(s) ELSE UNCHANGED media
  /\ UNCHANGED <<held, pushed, rtspFlags, rtspFrames, rtspOwner, rtspServer>>

(* The first client asks for a description: configure_media() seeds the     *)
(* pipeline before it plays.                                                *)
ConfigureMedia(s) ==
  /\ s \in clients /\ media[s] = "none" /\ nextPts < MaxPushed
  /\ media' = [media EXCEPT ![s] = "seeding"] /\ CopyLatest(s, "client")
  /\ UNCHANGED <<clients, rtspFlags, latestFrame, rtspOwner, rtspServer, pushed>>

PlayMedia(s) ==
  /\ media[s] = "seeding" /\ held[s]["client"] = NoCopy
  /\ media' = [media EXCEPT ![s] = "playing"]
  /\ UNCHANGED <<clients, held, pushed, rtspFlags, rtspFrames, rtspOwner, rtspServer>>

(* on_need_data(), on the pipeline's thread.                                *)
NeedData(s) ==
  /\ media[s] = "playing" /\ held[s]["pipeline"] = NoCopy /\ nextPts < MaxPushed
  /\ CopyLatest(s, "pipeline")
  /\ UNCHANGED <<clients, rtspFlags, latestFrame, rtspOwner, rtspServer, media, pushed>>

RtspServerStep ==
  ServerReady \/ ServerFails \/ EnterLoop \/ LeaveLoop \/ ReleaseServer \/ FinishServer

(* The thread that serves the clients of server s, and its pipeline.        *)
ClientStep(s) == Disconnect(s) \/ ConfigureMedia(s) \/ PlayMedia(s) \/ Push(s, "client")
PipelineStep(s) == NeedData(s) \/ Push(s, "pipeline")

RtspNext == \/ RtspOwnerStep \/ RtspServerStep \/ Connect
            \/ \E s \in Servers : ClientStep(s) \/ PipelineStep(s)

RtspSpec == RtspInit /\ [][RtspNext]_rtspVars

(* The two threads of the program keep running, and what was copied is      *)
(* pushed; no client need connect or leave, and no data need be asked for.  *)
RtspFairSpec ==
  /\ RtspSpec
  /\ WF_rtspVars(RtspOwnerStep) /\ WF_rtspVars(RtspServerStep)
  /\ \A s \in Servers : WF_rtspVars(Push(s, "pipeline"))

-----------------------------------------------------------------------------
RtspTypeOK ==
  /\ {rtspReady, rtspFailed, rtspRunning, rtspStop, loopPtr, quits, loopLive, loopRunning}
       \subseteq BOOLEAN
  /\ rtspPc \in {"idle", "wait", "up", "quit", "join"}
  /\ serverPc \in {"off", "setup", "enter", "loop", "release", "finish", "ended"}
  /\ clients \subseteq Servers /\ media \in [Servers -> {"none", "seeding", "playing"}]
  /\ latestFrame \in 0 .. MaxPublished /\ nextPts \in 0 .. MaxPushed
  /\ \A s \in Servers : {pushed[s]} \cup {held[s][t] : t \in PushThreads}
                        \subseteq [frame : 0 .. MaxPublished, pts : 0 .. MaxPushed]

(* A quit that came when the loop was published but did not run yet.        *)
QuitLost == rtspPc = "join" /\ serverPc = "loop" /\ loopRunning

(* After stop(), or a start() that failed, the program itself has nothing   *)
(* left of the server: no thread, no loop, and no frame that the next       *)
(* server would show to its first client.                                   *)
ServerGone == serverPc = "off" /\ ~loopPtr /\ ~rtspRunning /\ ~loopLive /\ latestFrame = 0

(* stop() leaves the loop and waits for its thread, whatever the clients    *)
(* and their pipelines are doing, and comes back with the server gone,      *)
(* unless its quit was lost.                                                *)
StreamerStops == rtspPc = "quit" ~> ((rtspPc = "idle" /\ ServerGone) \/ QuitLost)

(* What the header says of stop(): it leaves the GLib loop and waits for    *)
(* the thread, so it comes back.                                            *)
StopComesBack == rtspPc = "quit" ~> rtspPc = "idle"

(* What a client sees goes forward, also when pipelines of two servers draw *)
(* on the same frame and the same counter: in each of them time stamps grow *)
(* with every push, whoever pushes, and no frame comes after a newer one.   *)
PushesInOrder ==
  [][\A s \in Servers, t \in PushThreads : held[s][t] # NoCopy /\ held'[s][t] = NoCopy =>
       held[s][t].pts > pushed[s].pts /\ held[s][t].frame >= pushed[s].frame]_rtspVars

==============================================================================
