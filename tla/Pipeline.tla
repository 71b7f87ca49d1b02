------------------------------- MODULE Pipeline -------------------------------
(***************************************************************************)
(* The frame/control dispatch pipeline of OpenLiveStacker.                 *)
(*                                                                         *)
(*   camera ----frames----\                                                *)
(*                          >-- inq --> VideoGenerator --+--> live         *)
(*   StackerControlApp -ctl-/             (one thread)   +--> stack        *)
(*   OpenLiveStacker::stop --shutdown--/                 +--> debug        *)
(*                                                       +--> plate        *)
(*                                                                         *)
(* inq is the sync_queue the VideoGenerator thread pops (data_queue_).     *)
(* Every push and every pop is atomic under the queue's lock.  The four    *)
(* output queues are drained by the downstream consumers, which stop when  *)
(* they take the shutdown sentinel.                                        *)
(*                                                                         *)
(* Ghost state (not in the code, used only by the properties):            *)
(*   each message carries seq, its position in the input order, and pre,   *)
(*   the session state that the control messages enqueued before it give  *)
(*   according to the transition table of the specification; tailSess is *)
(*   that state after everything pushed so far; log records, for every    *)
(*   frame the dispatcher took, the outputs it was pushed to.             *)
(***************************************************************************)
EXTENDS Integers, Sequences

CONSTANTS
    CamFormats,      \* stream formats the camera may deliver
    RawBayers,       \* Bayer tags a driver may attach to a raw8/raw16 frame
    DecodeResults,   \* outcomes of cv::imdecode: "ok", "empty", "throw"
    PlateAttached,   \* plate_solving_out_ is a non-null queue
    Consumers,       \* outputs whose consumer thread runs; the others stall
    Width, Height,   \* frame geometry announced by the stream format
    MaxFrames,       \* bound on frames the camera delivers
    MaxCtl           \* bound on requests the control surface serves

StreamTypes == {"yuv2", "mjpeg", "rgb24", "rgb48", "raw8", "raw16",
                "mono8", "mono16", "error"}
Bayers == {"NA", "RG", "GR", "BG", "GB"}
CtlOps == {"init", "resume", "pause", "save", "cancel", "update"}
Works == {"none", "fresh", "src", "empty"}
Outs == {"live", "stack", "debug", "plate"}
CtlOuts == {"live", "stack", "debug"}
MaxMsgs == MaxFrames + MaxCtl + 1

ASSUME PipelineAssumption ==
    /\ CamFormats \subseteq StreamTypes
    /\ RawBayers \subseteq Bayers
    /\ DecodeResults \subseteq {"ok", "empty", "throw"}
    /\ PlateAttached \in BOOLEAN
    /\ Consumers \subseteq Outs
    /\ Width \in Nat /\ Height \in Nat
    /\ MaxFrames \in Nat /\ MaxCtl \in Nat

(* The three booleans of VideoGenerator: stacking_active_,              *)
(* stacking_in_process_ and debug_active_.                              *)
Sess == [active : BOOLEAN, inProc : BOOLEAN, debug : BOOLEAN]
IdleSess == [active |-> FALSE, inProc |-> FALSE, debug |-> FALSE]

Msg == [kind : {"frame", "ctl", "stop"}, seq : Nat, pre : Sess,
        op : CtlOps \cup {"none"}, saveInputs : BOOLEAN,
        fmt : StreamTypes \cup {"none"}, len : Nat, bayer : Bayers]
OutMsg == [m : Msg, work : Works]

VARIABLES
    inq,       \* the input sync_queue of the VideoGenerator
    sess,      \* the VideoGenerator's session state
    vgpc,      \* "run", "done" (left its loop), "crashed" (exception escaped)
    out,       \* out[o]: the output queue o
    done,      \* done[o]: consumer of o took its shutdown sentinel
    status,    \* StackerControlApp::status_
    nframes,   \* frames delivered by the camera so far
    nctl,      \* control requests served so far
    stopSent,  \* OpenLiveStacker pushed the shutdown sentinel
    nsent,     \* ghost: messages pushed to inq so far
    tailSess,  \* ghost: session state after every message pushed so far
    log        \* ghost: [seq, pre, routes] of every frame processed

vars == <<inq, sess, vgpc, out, done, status, nframes, nctl, stopSent,
          nsent, tailSess, log>>

-----------------------------------------------------------------------------
(***************************************************************************)
(* The transition table and the fan-out rule as the specification states  *)
(* them (section 4.3).  They define the ghost pre stamps and the          *)
(* properties; the code's own versions are ApplyCtl and FanOut below.     *)
(***************************************************************************)
SpecApply(s, op, flag) ==
    CASE op = "init"   -> [active |-> TRUE, inProc |-> TRUE, debug |-> flag]
      [] op = "resume" -> [s EXCEPT !.active = TRUE, !.inProc = TRUE]
      [] op = "pause"  -> [s EXCEPT !.active = FALSE, !.inProc = TRUE]
      [] op \in {"save", "cancel"} -> [s EXCEPT !.active = FALSE, !.inProc = FALSE]
      [] OTHER -> s

SpecAfter(s, m) == IF m.kind = "ctl" THEN SpecApply(s, m.op, m.saveInputs) ELSE s

SpecFanOut(s) ==
    {"live"} \cup {o \in {"stack"} : s.active}
             \cup {o \in {"debug"} : s.active /\ s.debug}
             \cup {o \in {"plate"} : PlateAttached /\ ~s.inProc}

-----------------------------------------------------------------------------
(***************************************************************************)
(* sync_queue                                                              *)
(***************************************************************************)

\* push: append under the lock and notify one waiter.  The ghost stamps
\* (seq, pre) and tailSess are set at the moment of the push.
Push(m) ==
    /\ inq' = Append(inq, m)
    /\ nsent' = nsent + 1
    /\ tailSess' = SpecAfter(tailSess, m)

\* Seeded fault: pop reads the back of the deque instead of its front.
QueueBack(q) == q[Len(q)]

\* pop: the head of the queue (the caller blocks while it is empty).
QueueFront(q) == Head(q)
QueueRest(q) == Tail(q)

NewMsg(kind, op, flag, fmt, len, bayer) ==
    [kind |-> kind, seq |-> nsent + 1, pre |-> tailSess, op |-> op,
     saveInputs |-> flag, fmt |-> fmt, len |-> len, bayer |-> bayer]

Running == vgpc # "crashed"

-----------------------------------------------------------------------------
(***************************************************************************)
(* Producers                                                               *)
(***************************************************************************)

\* Bytes per pixel of process_frame's first switch; 0 for the formats it
\* rejects, -1 for mjpeg whose length is not checked.
Bpp(f) ==
    CASE f = "mjpeg" -> -1
      [] f \in {"mono8", "raw8"} -> 1
      [] f \in {"yuv2", "mono16", "raw16"} -> 2
      [] f = "rgb24" -> 3
      [] f = "rgb48" -> 6
      [] OTHER -> 0

\* Buffer lengths a driver may hand over: the right one and a wrong one.
FrameLens(f) == IF Bpp(f) > 0 THEN {Width * Height * Bpp(f), Width * Height * Bpp(f) + 1}
                              ELSE {1}
FrameBayers(f) == IF f \in {"raw8", "raw16"} THEN RawBayers ELSE {"NA"}

\* The camera callback hands a CameraFrame to the converter queue.
CameraFrame ==
    /\ Running
    /\ nframes < MaxFrames
    /\ \E f \in CamFormats : \E len \in FrameLens(f) : \E b \in FrameBayers(f) :
          Push(NewMsg("frame", "none", FALSE, f, len, b))
    /\ nframes' = nframes + 1
    /\ UNCHANGED <<sess, vgpc, out, done, status, nctl, stopSent, log>>

\* StackerControlApp::start: builds ctl_init with save_inputs from the
\* request, sets status_ to "stacking" and pushes.  Its error paths
\* (unknown stream format, missing "name", a camera option error) throw
\* before either assignment and change nothing.
Start ==
    /\ Running
    /\ nctl < MaxCtl
    /\ \E flag \in BOOLEAN : Push(NewMsg("ctl", "init", flag, "none", 0, "NA"))
    /\ status' = "stacking"
    /\ nctl' = nctl + 1
    /\ UNCHANGED <<sess, vgpc, out, done, nframes, stopSent, log>>

\* Seeded fault: save reports a status the status endpoint does not know.
ControlStatusSaved(op, st) ==
    CASE op = "pause"  -> "paused"
      [] op = "resume" -> "stacking"
      [] op = "cancel" -> "idle"
      [] op = "save"   -> "saved"
      [] OTHER -> st

\* StackerControlApp::control: status_ for pause, resume and cancel; save
\* leaves status_ as it is.  An unknown operation throws before the push.
ControlStatus(op, st) ==
    CASE op = "pause"  -> "paused"
      [] op = "resume" -> "stacking"
      [] op = "cancel" -> "idle"
      [] OTHER -> st

Control ==
    /\ Running
    /\ nctl < MaxCtl
    /\ \E op \in {"pause", "save", "resume", "cancel"} :
          /\ Push(NewMsg("ctl", op, FALSE, "none", 0, "NA"))
          /\ status' = ControlStatus(op, status)
    /\ nctl' = nctl + 1
    /\ UNCHANGED <<sess, vgpc, out, done, nframes, stopSent, log>>

\* StackerControlApp::stretch: a ctl_update carrying stretch parameters.
Stretch ==
    /\ Running
    /\ nctl < MaxCtl
    /\ Push(NewMsg("ctl", "update", FALSE, "none", 0, "NA"))
    /\ nctl' = nctl + 1
    /\ UNCHANGED <<sess, vgpc, out, done, status, nframes, stopSent, log>>

\* OpenLiveStacker shuts the pipeline down with one ShutDownData sentinel.
Shutdown ==
    /\ Running
    /\ ~stopSent
    /\ Push(NewMsg("stop", "none", FALSE, "none", 0, "NA"))
    /\ stopSent' = TRUE
    /\ UNCHANGED <<sess, vgpc, out, done, status, nframes, nctl, log>>

-----------------------------------------------------------------------------
(***************************************************************************)
(* VideoGenerator                                                          *)
(***************************************************************************)

\* Seeded fault: ctl_pause marks the session in process but leaves
\* stacking_active_ set.
ApplyCtlPauseKeepsActive(s, op, flag) ==
    CASE op = "init"   -> [active |-> TRUE, inProc |-> TRUE, debug |-> flag]
      [] op = "resume" -> [s EXCEPT !.active = TRUE, !.inProc = TRUE]
      [] op = "pause"  -> [s EXCEPT !.inProc = TRUE]
      [] op \in {"save", "cancel"} -> [s EXCEPT !.active = FALSE, !.inProc = FALSE]
      [] op = "update" -> s

\* The run loop's control switch.
ApplyCtl(s, op, flag) ==
    CASE op = "init"   -> [active |-> TRUE, inProc |-> TRUE, debug |-> flag]
      [] op = "resume" -> [s EXCEPT !.active = TRUE, !.inProc = TRUE]
      [] op = "pause"  -> [s EXCEPT !.active = FALSE, !.inProc = TRUE]
      [] op \in {"save", "cancel"} -> [s EXCEPT !.active = FALSE, !.inProc = FALSE]
      [] op = "update" -> s

\* Seeded fault: pixels kept only for the stacker, not the plate solver.
NeedPixelsStackOnly(s) == s.active

\* stacking_active_ || plate_solving_out_: pixel data is kept (or decoded).
NeedPixels(s) == s.active \/ PlateAttached

\* handle_jpeg_stack keeps the working matrix when NeedPixels: a clone when
\* asked to copy, else the image itself, which for rgb24/rgb48/mono wraps
\* the source buffer and for yuv2/raw is the freshly converted image.
Kept(s, f) ==
    IF ~NeedPixels(s) THEN "none"
    ELSE IF f \in {"rgb24", "mono8", "mono16"} THEN "fresh"
    ELSE IF f = "rgb48" THEN "src"
    ELSE "fresh"

\* process_frame up to the fan-out: "drop" (logged), "crash" (an exception
\* leaves run()), or "fwd" with what frame->frame holds.  A raw frame with
\* no valid Bayer tag leaves rgb empty and cv::imencode rejects the empty
\* image with an exception nothing catches.
Processed(s, m, dec) ==
    IF Bpp(m.fmt) = 0 THEN [res |-> "drop", work |-> "none"]
    ELSE IF Bpp(m.fmt) > 0 /\ m.len # Height * Width * Bpp(m.fmt)
         THEN [res |-> "drop", work |-> "none"]
    ELSE IF m.fmt = "mjpeg"
         THEN IF ~NeedPixels(s) THEN [res |-> "fwd", work |-> "none"]
              ELSE IF dec = "throw" THEN [res |-> "drop", work |-> "none"]
              ELSE [res |-> "fwd", work |-> IF dec = "ok" THEN "fresh" ELSE "empty"]
    ELSE IF m.fmt \in {"raw8", "raw16"} /\ m.bayer = "NA"
         THEN [res |-> "crash", work |-> "none"]
    ELSE [res |-> "fwd", work |-> Kept(s, m.fmt)]

\* The pushes at the end of process_frame.
FanOut(s) ==
    {"live"} \cup {o \in {"stack"} : s.active}
             \cup {o \in {"debug"} : s.debug /\ s.active}
             \cup {o \in {"plate"} : PlateAttached /\ ~s.inProc}

PushTo(os, om) == [o \in Outs |-> IF o \in os THEN Append(out[o], om) ELSE out[o]]

\* Seeded fault: the loop continues after the sentinel instead of breaking.
VGStopContinue ==
    /\ vgpc = "run"
    /\ inq # <<>>
    /\ QueueFront(inq).kind = "stop"
    /\ inq' = QueueRest(inq)
    /\ out' = PushTo(CtlOuts, [m |-> QueueFront(inq), work |-> "none"])
    /\ UNCHANGED <<vgpc, sess, done, status, nframes, nctl, stopSent, nsent, tailSess,
                   log>>

\* Seeded fault: the sentinel is not forwarded to the debug saver.
VGStopNoDebug ==
    /\ vgpc = "run"
    /\ inq # <<>>
    /\ QueueFront(inq).kind = "stop"
    /\ inq' = QueueRest(inq)
    /\ out' = PushTo({"live", "stack"}, [m |-> QueueFront(inq), work |-> "none"])
    /\ vgpc' = "done"
    /\ UNCHANGED <<sess, done, status, nframes, nctl, stopSent, nsent, tailSess,
                   log>>

\* run(): a ShutDownData is forwarded to live, stack and debug, then break.
VGStop ==
    /\ vgpc = "run"
    /\ inq # <<>>
    /\ QueueFront(inq).kind = "stop"
    /\ inq' = QueueRest(inq)
    /\ out' = PushTo(CtlOuts, [m |-> QueueFront(inq), work |-> "none"])
    /\ vgpc' = "done"
    /\ UNCHANGED <<sess, done, status, nframes, nctl, stopSent, nsent, tailSess,
                   log>>

\* run(): a StackerControl updates the session and is forwarded to live,
\* stack and debug.
VGControl ==
    /\ vgpc = "run"
    /\ inq # <<>>
    /\ QueueFront(inq).kind = "ctl"
    /\ inq' = QueueRest(inq)
    /\ sess' = ApplyCtl(sess, QueueFront(inq).op, QueueFront(inq).saveInputs)
    /\ out' = PushTo(CtlOuts, [m |-> QueueFront(inq), work |-> "none"])
    /\ UNCHANGED <<vgpc, done, status, nframes, nctl, stopSent, nsent, tailSess,
                   log>>

\* run(): a CameraFrame goes through process_frame.
VGFrame ==
    /\ vgpc = "run"
    /\ inq # <<>>
    /\ QueueFront(inq).kind = "frame"
    /\ \E dec \in DecodeResults :
        LET m == QueueFront(inq)
            r == Processed(sess, m, dec)
            routes == IF r.res = "fwd" THEN FanOut(sess) ELSE {}
        IN /\ inq' = QueueRest(inq)
           /\ out' = PushTo(routes, [m |-> m, work |-> r.work])
           /\ vgpc' = IF r.res = "crash" THEN "crashed" ELSE vgpc
           /\ log' = Append(log, [seq |-> m.seq, pre |-> m.pre, routes |-> routes])
    /\ UNCHANGED <<sess, done, status, nframes, nctl, stopSent, nsent, tailSess>>

VGStep == VGStop \/ VGControl \/ VGFrame

-----------------------------------------------------------------------------
(***************************************************************************)
(* Downstream consumers: each pops its queue and ends at the sentinel.    *)
(***************************************************************************)
Consume(o) ==
    /\ Running
    /\ ~done[o]
    /\ out[o] # <<>>
    /\ out' = [out EXCEPT ![o] = Tail(@)]
    /\ done' = [done EXCEPT ![o] = (Head(out[o]).m.kind = "stop")]
    /\ UNCHANGED <<inq, sess, vgpc, status, nframes, nctl, stopSent, nsent,
                   tailSess, log>>

-----------------------------------------------------------------------------
Init ==
    /\ inq = <<>>
    /\ sess = IdleSess
    /\ vgpc = "run"
    /\ out = [o \in Outs |-> <<>>]
    /\ done = [o \in Outs |-> FALSE]
    /\ status = "idle"
    /\ nframes = 0
    /\ nctl = 0
    /\ stopSent = FALSE
    /\ nsent = 0
    /\ tailSess = IdleSess
    /\ log = <<>>

Next ==
    \/ CameraFrame \/ Start \/ Control \/ Stretch \/ Shutdown
    \/ VGStep
    \/ \E o \in Consumers : Consume(o)

\* The VideoGenerator and every running consumer are dedicated threads
\* blocked in pop() only while their queue is empty; producers are not
\* obliged to act.
Fairness == WF_vars(VGStep) /\ \A o \in Consumers : WF_vars(Consume(o))

Spec == Init /\ [][Next]_vars /\ Fairness

-----------------------------------------------------------------------------
(***************************************************************************)
(* Properties                                                              *)
(***************************************************************************)

TypeOK ==
    /\ inq \in Seq(Msg)
    /\ sess \in Sess
    /\ vgpc \in {"run", "done", "crashed"}
    /\ out \in [Outs -> Seq(OutMsg)]
    /\ done \in [Outs -> BOOLEAN]
    /\ status \in {"idle", "paused", "stacking"}
    /\ nframes \in Nat /\ nctl \in Nat /\ nsent \in Nat
    /\ stopSent \in BOOLEAN
    /\ tailSess \in Sess
    /\ log \in Seq([seq : Nat, pre : Sess, routes : SUBSET Outs])

\* Every frame the VideoGenerator forwards goes to exactly the outputs the
\* specification's table gives for the control messages enqueued before
\* it: start/pause/resume/save/cancel take effect at their position in the
\* input stream (process_frame's fan-out read against run()'s switch).
FanOutFollowsOrder ==
    \A i \in 1..Len(log) :
        log[i].routes # {} => log[i].routes = SpecFanOut(log[i].pre)

\* Every consumer sees the messages it gets in the order they entered the
\* input queue: a control enqueued after frame F reaches it after F.
OutputsInOrder ==
    \A o \in Outs :
        \A i \in 1..Len(out[o]) :
            \A j \in 1..(i - 1) : out[o][j].m.seq < out[o][i].m.seq

\* The shutdown sentinel is the last message any output queue receives:
\* run() breaks after forwarding it, so no consumer is left with a message
\* behind its sentinel.
StopIsLast ==
    \A o \in Outs :
        /\ done[o] => out[o] = <<>>
        /\ \A i \in 1..Len(out[o]) : out[o][i].m.kind = "stop" => i = Len(out[o])

\* A frame reaching the stacker or the plate solver carries a decoded
\* working matrix (handle_jpeg_stack and the mjpeg branch keep one exactly
\* when stacking is active or a plate solver is attached).
ConsumersGetPixels ==
    \A o \in {"stack", "plate"} :
        \A i \in 1..Len(out[o]) :
            out[o][i].m.kind = "frame" => out[o][i].work \in {"fresh", "src"}

\* A frame reaching the stacker or the plate solver carries the working
\* matrix handle_jpeg_stack kept for it: process_frame fans a frame out to
\* stack only while stacking_active_ and to plate only when a plate solver
\* is attached, and the matrix is kept exactly when stacking_active_ ||
\* plate_solving_out_.  The matrix may still be empty (ConsumersGetPixels).
FramesKeepMatrix ==
    \A o \in {"stack", "plate"} :
        \A i \in 1..Len(out[o]) :
            out[o][i].m.kind = "frame" => out[o][i].work # "none"

\* The dispatcher never dies on a frame: per-frame errors are logged and
\* the frame dropped (specification, section 7).
DispatchAlive == vgpc # "crashed"

\* Once the queues are drained, StackerControlApp's status_ says what the
\* session of the VideoGenerator is.
StatusOf(s) == IF s.active THEN "stacking" ELSE IF s.inProc THEN "paused" ELSE "idle"
StatusReflectsSession ==
    (vgpc = "run" /\ inq = <<>>) => status = StatusOf(sess)

\* After the shutdown sentinel is pushed, the live, stack and debug
\* consumers all take one and terminate.
ShutdownReachesConsumers == stopSent ~> (\A o \in CtlOuts : done[o])

\* ... and so does the plate-solving consumer (specification, section 5:
\* every downstream stage eventually receives a sentinel).
ShutdownReachesPlateSolver == stopSent ~> done["plate"]

-----------------------------------------------------------------------------
(***************************************************************************)
(* Why FanOutFollowsOrder holds: the stamps in the input queue agree with *)
(* the dispatcher.  The head was stamped with the dispatcher's current    *)
(* session, each later message with the session its predecessor leaves,  *)
(* and tailSess is the session the last one leaves.                       *)
(***************************************************************************)
HeadInSync == inq # <<>> => inq[1].pre = sess

StampChain ==
    \A i \in 1..(Len(inq) - 1) : inq[i + 1].pre = SpecAfter(inq[i].pre, inq[i])

TailInSync ==
    tailSess = IF inq = <<>> THEN sess ELSE SpecAfter(inq[Len(inq)].pre, inq[Len(inq)])

=============================================================================
