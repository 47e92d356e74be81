# A TLA+ model of RK3568 Edge Vision

RK3568 Edge Vision runs a YOLO11 detector on an RK3568 board. It captures video
from a USB camera or from a JPEG stream that a PC pushes over TCP, tracks what the
detector finds, reports what enters, stays in and leaves a region of interest, shows
the picture, and offers it over RTSP and the events over TCP to tools on a PC. This
directory holds TLA+ specifications of the parts of that program where order, time
and failure decide what happens, TLC configurations that check them on small
instances, and proofs that TLAPS checks for every value of the constants.

- [Inventory](#inventory)
- [The modules](#the-modules)
- [The runs](#the-runs)
- [The proofs](#the-proofs)
- [What the code does and a text does not say](#what-the-code-does-and-a-text-does-not-say)
- [What is not modelled](#what-is-not-modelled)
- [Plan](#plan)

Run them with `tlc -config X.cfg M` for a configuration and its module, and
`tlapm M.tla` for a module of proofs. Paths below are relative to `src/`.

## Inventory

### How the parts interact

In the mode the program is made for (`run_smooth_camera`, `src/application.cpp`)
three threads and two services meet in the UI thread:

    capture source ──> CameraCaptureThread ──latest frame──> UI thread ──> display
    (V4L2 or TCP)                                            │   ▲    └──> RtspStreamer
                                             submit if idle  ▼   │ latest result
                                                          SmoothAiWorker
                            Yolo11Detector > IouTracker > SemanticStabilizer > RegionMonitor
    PC event logger <──TCP── TcpServer <──publish_event── UI thread

Both hand-overs are slots that hold the newest item only: a frame or a result that
is not taken in time is replaced. The event queue of `TcpServer` is bounded and
loses its oldest entry. The other modes (`run_image`, `run_video`, `run_camera`) do
everything on one thread and may write a file. Nothing is persisted, so there is no
recovery from a crash; a restart begins with empty state. On the PC, a bridge program
runs FFmpeg processes that push the camera to the board and show the two streams.

### Components

| Component (source) | State | Operations | What is hard | Correct when |
|---|---|---|---|---|
| `TcpServer` (`src/tcp_server.cpp`) | listening and client descriptor, `subscribed_`, `event_queue_` under `event_mutex_`, counters, `command_buffer_` | `start`, `stop`, `publish_event` on the UI thread; poll loop, accept, receive, commands, event flush on the worker | a flag read outside the lock, a client replaced between poll and receive, partial sends, a peer that does not read, stop at any moment | the queue is bounded and accounted for, events are in order and at most once, event lines are whole, descriptors are owned, calls return |
| Command framing (same file) | `command_buffer_` | one `recv` of any length | lines cut anywhere, lines that are too long, an answer that fails in the middle of a batch | a line that fits is executed as sent, each line is answered |
| `CameraCaptureThread` (`src/application.cpp`) | `latest_` and its number, stop, ready and failed flags, failure count | `start`, `wait_for_new`, `request_stop`, `join`; the thread opens, reads, publishes, reopens | a stop in the middle of open, read or reopen; counters shared with the consumer | every frame is shown, overwritten or waiting; the source is closed at the end |
| `SmoothAiWorker` (same file) | `pending_`, `busy_`, `latest_` with its generation | `submit`, `copy_latest`, `request_stop`, `join`; the thread runs the chain | stateful trackers behind a slot, an exception of the chain | one frame at a time and in capture order |
| `run_smooth_camera` (same file) | last sequence shown, last generation seen | the loop, the publication of events, every way out, the cleanup | three threads, SIGINT, failures at any point | a result's events are published once and in order; every way out ends both threads |
| `NetworkCameraSource` (`src/network_camera_source.cpp`) | listening and client descriptor, stream buffer, stop flag | `open`, `read`, `release` | descriptors copied under a lock and used after it, while `release` closes them on another thread; images over many reads and many senders | an image is one sender's bytes, no connection is lost, a stop ends the read |
| `CameraSource` (`src/camera_source.cpp`) | descriptor, streaming flag, table of mapped buffers | `open`, `read`, `release` | a driver call that fails at any step; `release` on another thread | nothing is left of a session that failed, no buffer is lost |
| `RtspStreamer` (`src/rtsp_streamer.cpp`) | newest frame, next time stamp, GLib loop, flags | `start`, `publish`, `stop`; the server thread; pushes on two threads | a stop before the loop runs, a stop while a frame is pushed, clients that outlive their server, restarts | `stop` returns with the server gone, what clients see goes forward |
| `Yolo11Detector` (`src/yolo11_detector.cpp`) | none | cells, class, suppression, limit; addressing of the tensors | which box suppresses which, in two memory orders | the best of what means one object survives |
| `IouTracker` (`src/iou_tracker.cpp`) | `tracks_`, `next_id_` | `update`, `reset` | tracks compete for boxes; a track missed for the last time returns in the same update | raw ids are unique and never reborn; the output is the input with ids |
| `SemanticStabilizer` (`src/semantic_stabilizer.cpp`) | `objects_`, `next_logical_id_`, `bootstrap_started_at_` | `update`, `reset` | three clocks per object, two assignments (raw id, geometry), a bounded table, a mute by two ages | one identity per object, exits are final, no flash is shown |
| Class fusion (same file) | evidence per class, pending class | a step of `update` | a pending class that loses and regains its lead, a full table | a switch was held for its time; a lasting class wins |
| `RegionMonitor` (`src/region_monitor.cpp`) | state per identity, recent events | `update`, `reset` | misses, gaps and moves in any order, timeouts of several identities | ENTER, DWELL, EXIT alternate; nothing that vanished stays in the region |
| `run_image`, `run_video`, `run_camera`, `run_application` (`src/application.cpp`) | processed, read failures, preview flag | validate, load, open, the round of the loop, the end | a failure at each call, outputs that exist, a window that goes away | a run that reports success has written what it processed; nothing stays open |
| `VideoIO` (`src/video_io.cpp`), `RknnModel`, `RknnOutputBatch` (`src/rknn_model.cpp`), `PerfMonitor` (`src/perf_monitor.cpp`), `TrackTraceWriter` | a writer and its file; context and outputs of the runtime; a window and its sum; pending timelines | open with a fallback, `run` and release, `add_frame`, mark rows | failed attempts, order of destructors, incremental sums, stages that never come | no file is replaced unasked, outputs go back before the context, sums and rows are exact |
| PC event logger (`tools/pc_event_logger.cpp`) | pending bytes, the CSV file | subscribe, receive, record, interrupt | lines over reads, replies cut short | each event line becomes one row |
| PC bridge (`tools/pc_two_window_bridge.cpp`) | three processes with handles | start, retry, watch, stop | a process that ends while another is started or will not end, a bridge that Windows ends | no process is forgotten, no handle leaks |
| `DisplayComposer`, `ImageProcessor` | toasts; none | drawing, letterbox | floating point | |
| `CliParser`, `LabelLoader`, `Logger`, `main`, scripts, benchmark | none | parsing, output | nothing over time | |

## The modules

| Module | Models | State and actions |
|---|---|---|
| `LossyStream` | abstract | What a hand-over between two threads promises: items in order and at most once, some skipped. |
| `TcpServer` | `src/tcp_server.cpp` | One action for each stretch of code between two points where another thread, a client or the kernel can be seen. `owner` and `worker` are the control points of the UI thread and of `run()`; the connections, what they have received and the bytes written to them are the environment. |
| `CommandFramer` | `receive_client_data`, dispatch | One action for each outcome of a `recv`: data, of which every completed line is handled whether or not its answer could be sent, or the end of the connection. |
| `CaptureThread` | `CameraCaptureThread` | `run()` step by step over an input that is open or not; the calls of the owner are operators that the owner's actions use. |
| `AiWorker` | `SmoothAiWorker` | `run()` step by step; the chain is one step that ends or throws. |
| `SmoothPipeline` | `run_smooth_camera` | Instances of the two above, the UI thread and SIGINT. `streamer` says that there is an RTSP output to stop; that call may not come back. |
| `NetworkCameraSource` | `NetworkCameraSource` | `open` and `release` are one critical section each; `read` is a step between any two uses of `lifecycle_mutex_`, with its own copies of the descriptors. Streams are sequences of start markers, end markers and what is between. |
| `NetworkCapture` | the source under `CameraCaptureThread` | The thread's `open`, `read`, `release` and the owner's `request_stop`, with the source's steps in place of "open or not". Its `CaptureContract` is that it implements `CaptureThread`, so that what `SmoothPipeline` says of its input holds for this one. |
| `CameraSource` | `CameraSource` | The driver calls of `open`, `read` and `release`, one action each with the failure of the call; `kSession`, `kStream`, `kMapped`, `kBuf` are the kernel's side. Two threads may be in `release`. |
| `RtspStreamer` | `RtspStreamer` | The application thread, the server thread step by step, `configure_media` on the thread of GStreamer's pool that serves the clients, and `push_latest` there or on the thread of the pipeline. GLib's loop is a flag that `g_main_loop_run` raises and `g_main_loop_quit` lowers. Servers are numbered by their `start()`: one that was stopped lives on, with its pipeline and callbacks, as long as a client is connected to it. |
| `YoloDecode` | the end of `Yolo11Detector` | Cells become candidates, the suppression goes one round of its outer loop at a time, `ValueIndex` is the address of an element. |
| `IouTracker` | `IouTracker` | `update()` and `reset()`, each one action. The greedy matching is the function that satisfies it, so "earlier track" and "last of equal boxes" are stated and not programmed. |
| `SemanticStabilizer` | `SemanticStabilizer` | `update()` and `reset()`. An object's record is the code's, time points kept as ages; the field `dipped` is auxiliary. |
| `ClassFusion` | `update_class_fusion` | One object: an observation of a class with a weight, or a miss. |
| `RegionMonitor` | `RegionMonitor` | `update()` and `reset()`; `muted` is auxiliary. |
| `RegionLifecycle` | abstract | What a listener to the region events may rely on: exactly the entries, dwells and exits are reported, one event each, but for the first entry of a muted identity. |
| `Lifecycle` | the chain in `SmoothAiWorker::run` | Stabilizer and region monitor in one step, with the capture time they share. |
| `FrameLoop` | the synchronous modes | `run_application` and the three modes as one machine with `VideoIO`, `RknnModel`, `PerfMonitor` and the trace inside; an exception is a jump to the destructors. |
| `EventLogger` | the PC event logger | A run from connect to end; the server's side of the stream is what `WholeEventLines` says of `TcpServer`. |
| `PcBridge` | the PC bridge | The main thread's steps; the processes, which may outlive the attempt to terminate them; the console, whose close, logoff and shutdown events end the bridge itself. |
| `Lists` | `std::sort`, `erase(remove_if)`, running sums | The elements of a set in an order, the entries selected from a sequence, and their sum, defined so that they can be proved about. |
| `ListTheorems` | | What these operators compute, and the induction the proofs use. |
| `TcpServerProofs`, `SmoothPipelineProofs`, `LifecycleProofs`, `FrameLoopProofs` | | Theorems about the module of that name, the third also about `SemanticStabilizer`. |
| `LineProofs` | | Theorems about `CommandFramer` and `EventLogger`. |
| `DeviceProofs` | | Theorems about `NetworkCapture`, `CameraSource`, `RtspStreamer` and `PcBridge`. |
| `VisionProofs` | | Theorems about `YoloDecode`, `IouTracker`, `ClassFusion` and `RegionMonitor`. |
| `MCTcpServer`, `MCSmoothPipeline`, `MCSemanticStabilizer`, `MCLifecycle` | | TLC instances of one module each. |
| `MCComponents`, `MCLiveComponents` | | Components side by side: a behaviour picks one at its start and the others stand still, so the state spaces add and do not multiply. The first holds what is a function of its input and its memory (decoding, tracker, stabilizer, region, framing), the second what talks to a device, a network, a file system or a user. |

Conventions. An operator `MutantX` stands before the definition `X` of the code and
says how a plausible bug would change it; the specifications never use it, and each
property was seen to fail with one of them in place. Variables marked *auxiliary*
record history for the properties; no guard of the code's actions reads them. Each
module states its types in `TypeOK` or `XTypeOK`. They are documentation and the
first conjunct of the inductive invariants; the runs spend their time on other
properties.

What the abstractions keep and leave out:

- **Time** in the stabilizer, the class fusion and the region monitor is in ticks. A
  time point is kept as its age; an update adds the time since the last one, taken
  from a small set, and an age is held at the value from which no test can tell it
  apart. The tests at a boundary (`>=` or `>`) are the code's: an unseen age is held one
  above the lost window (`Forgotten`) when the reassociation window is as long, since
  the one is tested with `>=` and the other with `<=`.
- **Scores** of the stabilizer count in steps of `1 / FullScore`; the gain of a
  detection stands for its confidence times `presence_alpha`. Evidence of a class is
  a whole number and `Faded` is how it decays; the code's exponential is one choice.
- **Places** stand for box and class together: `can_reassociate` holds at the same
  place. Which of several candidates scores best is left open, so the model allows
  every outcome of the floating-point comparison.
- **Boxes** of the detector and the tracker are model values; overlap is a relation or
  a table that the constants give.
- **Lines** of the TCP service are a number of chunks, because `send` may accept a
  prefix. JSON texts are left out. `send_line` may give up at every chunk, which
  covers a full send buffer, a dead peer and a stop.
- **Mutexes** show in the model where a thread holds one across something slow
  (`event_mutex_` in `UNSUBSCRIBE_EVENTS`); each other critical section is one step.
- **Frames** are their sequence numbers. Reading, opening and inference may fail or
  throw at any time. What the network, the driver, another process or a user does is
  any of the outcomes the code distinguishes.
- **Descriptors** of the network source are the connections they were opened for. A
  read on a descriptor that was closed by the other thread may fail or deliver bytes of
  something else, since the number may have been given out again.

## The runs

| Run | Configuration | Question | Result |
|---|---|---|---|
| `tcp_sessions` | `TcpSessions.cfg` | Two connections that replace each other, hang up and stop reading, and more events than the queue holds: `WholeEventLines`, `DescriptorsOwned`, `Accounting`, `AtMostOneStale`, `NoSessionCut`, refinement `StreamSpec` of `LossyStream` | holds |
| `tcp_liveness` | `TcpLiveness.cfg` | `CallsReturn` and `QueueDrains` under `FairSpec` | holds |
| `tcp_stale` | `TcpStale.cfg` | `FreshEvents`, what a comment says of a session that was replaced | violated |
| `smooth_pipeline` | `SmoothPipeline.cfg` | Three threads and SIGINT: `AiInOrder`, `AtMostOneSkipped`, `FrameAccounting`, `CleanEnd`, refinement `ResultStream` of `LossyStream`, and `SignalEnds` under `FairSpec` | holds |
| `components` | `Components.cfg` | Detector: `BestSurvive`. Tracker: `RawIdsDistinct`, `TracksContinue`. Stabilizer: `OneOwner`, `NoFlash`, `ExitIsFinal`. Region: `NoStaleOccupant`, `NoDwellAfterGap`, refinement `LifecycleSpec` of `RegionLifecycle`. Framing: `WholeCommands` | holds |
| `stabilizer_exited` | `StabilizerExited.cfg` | `ExitedExpires`, what the design document says of EXITED objects | violated |
| `stabilizer_steady` | `StabilizerSteady.cfg` | `SteadyEntry`, what the header says of the time above the enter threshold | violated |
| `lifecycle` | `Lifecycle.cfg` | Stabilizer and region monitor composed: `OccupantsHaveIdentity`, `BaselineIsSilent` | holds |
| `lifecycle_recovery` | `LifecycleRecovery.cfg` | `RecoveryIsSilent`, what the design document says of recoveries | violated |
| `components_live` | `LiveComponents.cfg` | Network source under the capture thread: `ImagesAreWhole`, `SocketsOwned`, refinement `CaptureContract` of `CaptureThread`, `StopEndsCapture`. V4L2: `BuffersAccounted`. RTSP: `StreamerStops`, `PushesInOrder`. Class fusion: `SwitchIsHeld`, `SustainedClassWins`. Synchronous modes: `OutputsKept`, `RunAccounted`, `TraceComplete`. Logger: `LoggedEvents`. Bridge: `ChildrenCared` | holds |
| `camera_release` | `CameraRelease.cfg` | `CopiesFromMapped`, what a comment says of the source's owner | violated |
| `rtsp_stop` | `RtspStop.cfg` | `StopComesBack`, what the header says of `stop()` | violated |

What the properties that are not obvious from their names rest on:

- `WholeEventLines` looks at every byte a connection got: an event that `send_line`
  gives up on has to be the last thing of its connection, through replacement of the
  client, stop, and restart.
- `NoSessionCut`: the worker acts on `revents` of a connection that `accept_client`
  may have replaced since `poll`. A newcomer may lose its connection that way
  (`OnlyErrors`), which a client sees as a connection that ends before its first
  answer; a client that has had an answer or an event keeps its session until its own
  peer closes, because its next `revents` are its own.
- `AtMostOneSkipped` counts on the UI thread submitting once per round, on both of the
  worker's states (`busy_`, `pending_`), and on the order of copy and submit.
- `CaptureContract` and `StopEndsCapture` together say that the stop, which raises one
  flag under a lock and another before a lock and then closes descriptors in use, has
  the effect that `CaptureThread` describes with one flag and one Boolean.
- `ImagesAreWhole` fails if the stream buffer survives a change of the sender, and
  `SocketsOwned` if a connection accepted during a `release` is adopted or dropped
  without being closed.
- `StreamerStops` says that `stop()` comes back, with the server's thread and loop gone
  and no frame left for the next server, whatever clients and pipelines do, or has lost
  its quit; the loss is what `rtsp_stop` shows. It does not say that the pipelines are
  gone: a connected client keeps its own (`Released`).
- `PushesInOrder` is about each server's pipeline, with the pipeline of a stopped server
  drawing on the same frame and counter.
- `SignalEnds`: after SIGINT the program leaves `run_smooth_camera`, also out of a V4L2
  read that gets no frame, since the cleanup releases the source; or it waits for ever
  in the stop of the RTSP output, which `rtsp_stop` shows to be possible. Nothing else
  can keep it.
- `ChildrenCared`: as long as Windows does not end the bridge, a process it no longer
  holds is one it tried in vain to terminate, whichever of the attempts started it.
- `LifecycleSpec`: no event is missing, none is reported twice, and silence is for the
  first entry of an identity whose detection has `suppress_enter`.
- `TraceComplete` has the rows of each frame in their order also when the window fails
  half way, and shows that the table of pending timelines never reaches its limit.
- `SwitchIsHeld` measures the lead of a class on its own clock (`ahead`), so that a lead
  that was lost and regained is seen. `SustainedClassWins` needs that a class that is
  seen again and again gets into the full table and out of the shadow of old evidence.

### Bounds, and why they are enough

- **TCP service.** Two connections are enough for one to replace the other; a third
  would meet a server in a state the second has left it in. A queue of one or two
  entries with two to four events overflows while the worker takes from it. A line
  of two chunks can be cut. Two or three commands give subscribe, unsubscribe,
  subscribe. `TcpLiveness` allows two starts, so that a stop and a restart meet what
  the first session left behind. `poll` may report a hang-up with or without `POLLIN`
  in all of them. `TcpStale` needs one start, two connections, two events and two
  commands: a subscriber, and the connection that replaces it and subscribes.
- **Smooth pipeline.** Five frames let two results be finished between two looks of
  the UI thread and the slot be overwritten; two failures (`ReopenAfter`) stand for
  the code's five, since only reaching the limit and staying below it differ.
- **Detector.** Three boxes in a row of which neighbours are too close and only equal
  ones alike, two classes, three scores around the threshold, three candidates and two
  detections: a suppressed box stands between two that survive, two classes mean one
  object, and the limit cuts one.
- **Tracker.** The same row: two tracks want the middle box and a track has two to
  choose from; two classes; one miss before a track is dropped.
- **Stabilizer and region.** Two raw ids and two places over three identities and a
  table of two: an object loses and exchanges its raw id, and a newcomer finds no room.
  In `StabilizerSteady` one miss takes the score below the threshold, and updates are
  one or three ticks apart.
  Two identities in the region, with a dwell longer than the lost window and updates
  one or two ticks apart, so that an occupant is seen just before, at and after its
  window.
- **Lifecycle.** The windows are in the order of the defaults (2.0 s of the region,
  2.5 s for reassociation, then the loss), two raw ids, one place inside the region
  and one outside.
- **Framing.** Commands of two bytes, reads of three: one read may complete several
  lines, one line may need several reads. `MaxLine` bounds the line a client sends,
  at more than twice the command length.
- **Network source.** Two senders with four parts each, chunks of up to three and a
  buffer of three: an image over two reads, two images in one, a buffer that has to be
  cut back to a start marker, a sender that leaves an image unfinished to the next.
- **V4L2 and RTSP.** Three buffers, of which the driver may grant fewer, with a first
  open and two reopens. Two starts of the server, three frames, four pushes: a seed and
  a need-data push overlap with a stop, and the pipeline of the first server with that
  of the second.
- **Class fusion.** Four classes over a table of three, observations of two weights,
  evidence that loses a third per tick, a ratio of 1.3 and a hold of two ticks.
- **Synchronous modes.** All combinations of the options and of files that exist; up to
  three frames over a window of two; two failed reads in a row end the camera.
- **Logger and bridge.** Up to nine parts of a stream (two lines and more, of four
  parts each) in reads of up to three; two attempts of the preview.

The bounds named `Max...` that the code does not have (`MaxEvents`, `MaxCmds`,
`MaxStarts`, `MaxFrames`, `MaxIds`, `MaxRawIds`, `MaxCandidates`, `MaxLine`, `MaxSent`,
`MaxStream`, `MaxOpens`, `MaxPublished`, `MaxPushed`, `MaxLoopFrames`) are guards of the
actions that count. `CHECK_DEADLOCK FALSE` stands where the system may really stop: a
service nobody uses any more, and a pipeline, a run or a bridge that has ended. Symmetry
is used with safety properties only, and on values no guard compares by order.

### Fairness

- `FairSpec` of `TcpServer` asks that the worker thread keeps running, and that the
  owner takes the mutex when it is free and returns from a join when the worker has
  ended: what the scheduler gives every runnable thread. `poll`, `recv` and `send` of
  the code do not block without limit (`kPollTimeoutMs`, non-blocking sockets), so
  each worker step ends. Nobody has to connect, send, read, publish or stop. The mutex
  is not fair; `CallsReturn` holds for `publish_event` because a client sends finitely
  many commands, which is also what the bound `MaxCmds` says.
- `FairSpec` of `SmoothPipeline` asks that each of the three threads keeps running,
  with two exceptions, calls that may never return: the stop of the RTSP output
  (`InStreamerStop`) and a read of an open input (`InOpenRead`). A network source's read
  times out, but a V4L2 read that finds no frame tries again until the descriptor is
  released; from then on it fails, which is asked for. That an open, the runtime and
  the display return is an assumption about them. SIGINT need not come.
- `MCLiveComponents` has the fairness of each part: the capture thread and the owner of
  a network source; the application and the server thread of the RTSP streamer, with
  the thread of each pipeline that is in the middle of a push, for which the end of a
  pipeline waits; for the class of an object, that the object is observed again and
  again. No sender, client or viewer has to do anything, and the thread that serves
  the clients need not get on. `RtspFairSpec` is the RTSP part of it.

## The proofs

TLAPS checks the following for every value of the constants that satisfies the
modules' assumptions. Together they state every invariant and every action property
and refinement that a passing run checks; of those properties only liveness rests on
TLC alone.

The assumptions are

- what a constructor enforces by throwing: `QueueAssumption`, `RegionAssumption`, and
  `StabilizerAssumption` (the thresholds are in order, the reassociation window is no
  longer than the one of a lost object, the table has room for one object);
- what the code has as a positive constant: `CaptureAssumption`, `ReopenAssumption`,
  `WindowAssumption`, `FramerAssumption`, `LoggerAssumption`;
- what the code compares as numbers or computes the same way round:
  `DecodeAssumption` (the overlap of two boxes does not depend on their order),
  `TrackerAssumption`, `FusionAssumption`;
- what the abstraction means: `NoConn` is no connection (`ConnsAssumption`,
  `SendersAssumption`), a line has at least one chunk (`LineAssumption`), buffers are
  numbered from one (`BufsAssumption`);
- `LifecycleAssumption`: the region's window is no longer than the stabilizer's for a
  lost object. The application builds both with their defaults (2.0 s of
  `region_monitor.hpp`, 4.0 s of `semantic_stabilizer.hpp`) and has no option for
  either, but nothing in the code enforces it; `OccupantsHaveIdentity` needs it.

### `ListTheorems` and `Lists`

What the code does with lists (sort, filter, sum up) is said by `Lists`: `Arranged` and
`Ascending` put a finite set in order, `Picked` selects entries of a sequence, `Total`
adds them up. `ListTheorems` says what they are: such an order exists and is the only
one (`CanBeArranged`, `AscendingIs`, `AscendingUnique`), what one more entry adds to
what is picked (`PickedSkip`, `PickedAppend`), how a sum follows a sequence that grows
at its end and loses its head (`TotalAppend`, `TotalTail`).

The induction theorems of the library take an operator as a parameter, which the
provers cannot instantiate. Induction here is first-order: a set of numbers that has
0 and with each number the next one has all of them (`UpTo`), and a counterexample, if
there is one, has a least one (`LeastNumber`). So what `Total`, the ranks of the
detector and of the tracker and the streams of `EventLogger` compute can be proved,
recursive functions included.

### `TcpServerProofs` (any number of connections, queue size, line length, bounds)

- `TypeCorrect`: `Spec => []TypeOK`, one lemma for each group of actions.
- `QueueSafe`: `Spec => []Accounting`. Counting alone is not inductive: what is taken
  must be known to be newer than what was taken before. The invariant `QueueInv`
  adds `Newest`: the queue holds the newest events without a gap, and all of them are
  newer than `lastTaken`. `QueueEffect` reduces every action to one of four effects on
  the queue (push, take, clear, none), and one lemma for each effect follows.
- `ImplementsStream`: the service implements `LossyStream`; a take is a `Consume`
  because of `Newest`, a push a `Produce`, all else stutters.
- `StaleBounded`: `Spec => []AtMostOneStale`. The strengthening `StaleInv` relates the
  queue to a publisher that has read `subscribed_` and not yet pushed: while it is
  overtaken by the end of a subscription, the queue holds no other stale entry.
- `SocketsClosed`: `Spec => []DescriptorsOwned`, from `OwnInv`: the accepted connection
  is the one in `client_fd_`, and a worker that has ended has neither socket.
- `SessionsNotCut`: `Spec => NoSessionCut`. `CutInv` is why: what `poll` said of the
  client is about this connection, unless the connection was put in its place after
  that and has not been written to, since the worker receives before it writes.
- `EventLinesWhole`: `Spec => []WholeEventLines`. `WireInv` ties the bytes to `line` and
  `offset`: what is behind the last line end of a connection is the line being sent,
  the part of a reply that was sent before the send gave up, or the connection is over.

### `LineProofs` (the two readers of the text protocol; any size of a read)

- `CommandsWhole`: `FramerSpec => []WholeCommands`, for every command length and set of
  bytes. `LinesAre` is the main lemma: put behind a buffer without a line end, the bytes
  of a read have the lines of the read with the buffer in front of the first, and the
  same rest. It is used twice, for `command_buffer_` and for the line as it was sent.
  `FramerInv` says how the two differ: not at all until the line is refused, and from
  then on the line is too long whatever comes.
- `EventsLogged`: `LoggerSpec => []LoggedEvents`. `LoggerInv` cuts the stream at the last
  line end the logger came to: `pending` is what is behind it and the rows are those
  of what is in front (`Written`). That the line up to the next end is recorded exactly
  when an event ends there is local (`RowIsAnEvent`, `EventIsARow`): the four parts of
  an event stand one behind the other, and only a cut reply in front of them can
  hide the type. `InOrderOfLines` makes the rows ascend.

### `SmoothPipelineProofs` (any number of frames, any number of failures that reopen)

- `ChainInOrder`, `OneSkipped`, `FramesAccounted`, `EndsClean`: the four invariants of
  the run, from one inductive invariant `PipelineInv`. None of them is inductive alone.
  `OrderInv` relates what the worker holds to the round of the UI thread: between the
  arrival of a frame and its submission everything in the worker is older. `SeenInv`
  counts the frame in the worker, waiting or being processed, against the generations
  not yet seen, and is one tighter between copy and submit. `EndInv` says what each
  stage of the cleanup has already ended, on the way with the RTSP output first and on
  the one with it last. One lemma for each thread and each
  hand-over shows that they are kept.
- `ImplementsResultStream`: the result slot implements `LossyStream`. A copy of an
  unseen generation is a `Consume`, since `SeenInv` says it is newer.

### `DeviceProofs` (any number of failures, reopens, restarts and attempts)

- `NoSocketLost`: `NetworkSpec => []SocketsOwned`. `Reading` says that only the capture
  thread reads and that an accept is under way only while there is no client;
  `Stopping`, that the input disappears under a read only when the owner has raised
  the thread's flag before. So `adopt` finds the input open or closes what it accepted.
- `ImplementsCapture`: `NetworkSpec => CaptureContract`, the refinement of
  `CaptureThread` on which `SmoothPipeline` is built. Every step inside a read is a
  stutter, and its end is a read of the abstract input: a frame is handed over only
  while the input is open or after the stop was requested, by `Stopping`.
- `WholeImages`: `NetworkSpec => []ImagesAreWhole`. `ImagesInv` says which part of which
  stream each buffer is: `stream_buffer_` is the end of what the client has sent, less
  the chunk that is on its way (`FromClient`); without a client it is empty, unless the
  owner closed the input under a read (`LeftOver`, `Copied`), and then no image comes
  of it.
- `NoBufferLost`: `CamSpec => []BuffersAccounted` when one thread uses the source, which
  is what the class needs of its users, for any number of buffers the driver may grant.
  `Mirrors` says that the members tell the truth about the driver at every step,
  `Stages` what each step may rely on, `Releasing` what a release has already undone.
- `ForwardOnly`: `RtspSpec => PushesInOrder`. The frame and the time stamp are taken
  under the lock and pushed without it, so the order of the pushes is not that of the
  lock unless only one thread is between the two. `Holders` says why, of each server:
  the thread that serves its clients pushes only while it configures the pipeline, the
  pipeline's thread only when it plays. `InStep` puts what was pushed, what is held and
  what there is in a row.
- `ChildrenAccountedFor`: `BridgeSpec => []ChildrenCared`, from `CareInv`, which ties the
  handles to the children still to be stopped. It assumes neither that a child can be
  terminated nor that the bridge lives to do it: `unkillable` has the children that
  could not be, and `Killed` ends the bridge anywhere after a close, logoff or shutdown.

### `VisionProofs` (any boxes, overlaps, thresholds, identities, windows and times)

- `SurvivorsBest`: `DecodeSpec => []BestSurvive`. `Visited` is the invariant of the outer
  loop of `classwise_nms`: of the ranks visited, those not marked are kept, and marked
  is, ahead of the loop too, exactly what a better one that is kept stands for.
- `ElementsInside` and `ElementsApart`: no index that `value_index` computes lies behind
  the tensor, and two elements never share one; by the uniqueness of quotient and
  remainder.
- `RawIdsAreUnique`: `TrackerSpec => []RawIdsDistinct`, with the type invariant (every id
  is smaller than `next_id_`) as strengthening. `OutputsContinue`:
  `TrackerSpec => TracksContinue`, for which the greedy matching is unfolded once: a
  detection is taken by one track at most and then carries that track's id.
- `SwitchesAreHeld`: `FusionSpec => SwitchIsHeld`. `FusionInv` ties the hold time of the
  challenger to the property's own clock: the rival has been ahead for at least as long.
- `StaleOccupantsLeave`: `RegionSpec => []NoStaleOccupant`, and `RegionStates`: every
  state is well formed. The invariant `Bounded` is the conjunction of both: whether an
  occupant is late can be told from its age only if its record is well formed.
- `GapsDoNotCount`: `RegionSpec => NoDwellAfterGap`, and `ImplementsLifecycle`:
  `RegionSpec => LifecycleSpec`, the refinement of `RegionLifecycle`. An event is where
  the lists of seen and of lost identities put it; `Consistent` adds to `Bounded` that
  finitely many identities are known, without which the lost ones have no order.
  `OneIdentity` says of each identity that an update reports what its change of phase
  makes due and nothing else: a monitor that leaves an ENTER out does not refine
  `RegionLifecycle`, unless the identity was unknown and its detection muted.

### `LifecycleProofs` (any places, scores, thresholds, windows, and size of the table)

- `OwnersUnique`, `FlashesNeverShown`, `ExitsAreFinal`: `OneOwner`, `NoFlash` and
  `ExitIsFinal` of the stabilizer, from the invariant `Sound`: the two properties,
  identities below `nextId`, and no timer above the age of its object.
  `AssignmentOK` is all the proofs use of the matching: nobody is given to two
  detections, and a detection whose raw id is known gets its owner. So they hold
  whatever the scores of the candidates are. `ObjectsStep` and `OutputStep` say
  where each object of the new table and each box of the output comes from.
- `OccupantsAlive`: `ChainSpec => []OccupantsHaveIdentity`. Neither component knows of the
  other's clock. `ChainSound` says that for an occupant both count the same time since
  it was last seen (`Occupied`), so that the monitor, whose window is the shorter,
  gives up first.
- `BaselineSilent`: `ChainSpec => BaselineIsSilent`, from the same invariant: while the
  bootstrap window is open no object is older than it, and who was born after it is
  never of the baseline.

### `FrameLoopProofs` (any number of frames, attempts and samples, any window)

- `NothingReplaced`: `LoopSpec => OutputsKept`. `Tested`: what is about to be created was
  looked for, in every place of the control between the test and the creation.
- `RunsAccount`: `LoopSpec => []RunAccounted`. `Accounts` counts the frames in the file
  against `processed`, one ahead between the write and the count; `PerfInv` says
  that the moving sum is the sum of the window after any number of frames.
- `TracesComplete`: `LoopSpec => []TraceComplete`. `Rows` says what the trace has of each
  frame in each place of the loop, `Kept` which timelines are pending there: the one of
  the frame before only after the window has gone.

### Only model-checked

Liveness, which is beyond the prover: `CallsReturn`, `QueueDrains`, `SignalEnds`,
`StopEndsCapture`, `StreamerStops`, `SustainedClassWins`. The properties of the violated
runs are false and have no theorem. Of the type invariants, those of `TcpServer`, the
smooth pipeline and the tracker are proved as they stand; of the others the inductive
invariants contain what the proofs need.

## What the code does and a text does not say

The violated runs each show a disagreement between the code and a text about it.

- `tcp_stale`: `publish_event` tests `subscribed_` before it takes the lock
  (`src/tcp_server.cpp:140`), so an event of a session may enter the queue after
  `accept_client` has cleared it for the connection that replaces the subscriber, which
  is sent the event when it subscribes. The comment at line 200 says that the old
  session's queue is void. `StaleBounded` proves that it is one event at most.
- `stabilizer_exited`: an EXITED object is given a new `exited_at` by every update
  (`src/semantic_stabilizer.cpp:397`), so it is not removed after
  `exited_retention_seconds` (`docs/semantic-stabilizer.md:21`).
- `stabilizer_steady`: a miss takes the score of a candidate below `enter_threshold` and
  leaves the time that runs since it was reached (`src/semantic_stabilizer.cpp:381`);
  seen again, the object becomes ACTIVE on that time. The header
  (`semantic_stabilizer.hpp:32`) says that the threshold has to be kept and that a fall
  below it clears the start. `NoFlash` is what remains: the object is old enough.
- `lifecycle_recovery`: with the defaults the region forgets an occupant after 2.0 s
  and the stabilizer gives its identity back for 2.5 s, so a recovery between the two
  is reported with a second ENTER (`docs/semantic-stabilizer.md:54`).
- `camera_release`: `request_stop` releases a V4L2 source on the UI thread
  (`src/application.cpp:447`), and `CameraSource` has no lock, so a buffer may be
  unmapped while the capture thread copies from it. The comment at line 470 says that
  the capture thread has the source to itself from `open` to `release`. The network
  source is made for this call (`StopEndsCapture`, `SocketsOwned`).
- `rtsp_stop`: `run_server` publishes the loop before it enters `g_main_loop_run`
  (`src/rtsp_streamer.cpp:307`), so a `stop` in between quits a loop that does not run
  yet, and waits for ever (`include/edgevision/rtsp_streamer.hpp:35`). `StreamerStops`
  shows that this is the only way to get stuck.

Met while modelling and not made a run:

- A reply that `send_line` gives up on is followed by the next line on the same
  connection (`src/tcp_server.cpp:354`, comment at 346); an event in its place closes the
  client, which `WholeEventLines` checks, and `EventLogger` shows what the logger makes
  of it.
- A new object is turned away by a table that is full of EXITED ones
  (`src/semantic_stabilizer.cpp:410`), so the order of eviction that
  `semantic_stabilizer.hpp:38` gives is never asked for.
- The events of a result that is overwritten before the UI thread looks are not
  published (`src/application.cpp:1254`); `OneSkipped` proves that of two results one is.
- The cleanup of the RTSP server removes its source from the default context, where it
  is not, and waits for no client (`src/rtsp_streamer.cpp:316`): a client accepted before
  may have its pipeline configured meanwhile and beyond `stop()` (`Released`,
  `ConfigureMedia`), which the comment there rules out. This is as far as GStreamer's
  documented defaults go.
- After a close, logoff or shutdown of the console Windows ends the bridge when its
  handler has returned, and the children, which have no console, run on (`Killed`); the
  comment at `tools/pc_two_window_bridge.cpp:241` leaves the cleanup to the main thread
  for every console event. `stop_child` does not ask whether a child was terminated
  (line 96).
- A baseline object that moves into the region during the mute is reported, and one that
  timed out in the region enters a second time in silence (`src/region_monitor.cpp:112`,
  `136`).

## What is not modelled

- `DisplayComposer`: drawing, and a list of at most three toasts that nothing reads back.
- `ImageProcessor`, and in `Yolo11Detector` the DFL and the coordinates of boxes:
  floating-point arithmetic of one image. TLC and SMT have no model of rounding, and
  with real numbers the interesting cases would be gone.
- In the stabilizer: the collapsing of near-duplicate boxes and the smoothing of boxes
  and confidence, which change what is shown and not who it is; the exponential of the
  evidence is a parameter of `ClassFusion`.
- In the region monitor: class and confidence in an event. States of identities that
  left are never erased (`src/region_monitor.cpp:175`), which costs memory and changes
  no answer.
- `CameraSource::dequeue_buffer` tries again without limit (`src/camera_source.cpp:338`): the
  model of the source takes the step when the driver has a frame or an error, and
  `SmoothPipeline` lets the read last until the source is released. That it ends then
  rests on `fd_`, which is read in each round and is -1 by then.
- In `RtspStreamer`: the destruction of the object while a client of a stopped server is
  still connected and its callbacks refer to the object.
- In `SmoothPipeline`: that the thread of the worker cannot be created
  (`std::thread` throws) once the window is up.
- The texts of the JSON replies and of the CSV columns, log lines, statistics other than
  the moving average, the drawing, streaming and profiling calls inside one round of
  the UI loop (one step that may fail or ask to quit).
- GLib, GStreamer, V4L2, the RKNN runtime, OpenCV's codecs and FFmpeg are external: the
  modules contain what the code relies on.
- `CliParser`, `LabelLoader`, `Logger`, `main`, the build files, the launcher scripts,
  the benchmark and the unit tests have no behaviour over time that a model would add to.

## Plan

Done, in the order of importance: the TCP service, command framing, the smooth pipeline,
the tracker, the stabilizer, the region monitor and their chain; the two capture sources
and the composition of one with the capture thread; the RTSP streamer; class fusion, the
decoding, the synchronous modes; the PC tools; a theorem for every safety property that
a passing run checks, and for all four refinements.

What is left: the type invariants that are not stated as theorems (`TrackerTypeOK` has a
lemma, `StabilizerTypeOK`, `RegionTypeOK`, `FramerTypeOK`, `LoggerTypeOK` and those of the
devices do not); bounds the code relies on without a property of their own, such as the
evidence table of the class fusion and the history of region events; that the events
`SmoothAiWorker` hands to `TcpServer` are those `LifecycleSpec` describes, which needs a
composition of `Lifecycle` with `SmoothPipeline`.
