------------------------ MODULE PipelineOutputProofs ------------------------
(***************************************************************************)
(* What the consumers of the VideoGenerator receive, for all values of    *)
(* the constants: messages in input order, nothing behind the shutdown    *)
(* sentinel, and a kept working matrix on every frame for the stacker and *)
(* the plate solver.                                                       *)
(***************************************************************************)
EXTENDS PipelineProofs

USE PipelineAssumption

-----------------------------------------------------------------------------
(***************************************************************************)
(* The inductive invariants.                                               *)
(***************************************************************************)

\* Sequence numbers: increasing along the input queue, at most nsent, and
\* every message already on an output queue was pushed before every
\* message still in the input queue.
SeqOrder ==
    /\ \A i, j \in 1..Len(inq) : i < j => inq[i].seq < inq[j].seq
    /\ \A i \in 1..Len(inq) : inq[i].seq <= nsent
    /\ \A o \in Outs : \A i \in 1..Len(out[o]) :
          /\ out[o][i].m.seq <= nsent
          /\ \A k \in 1..Len(inq) : out[o][i].m.seq < inq[k].seq

OInv == TypeInv /\ SeqOrder /\ OutputsInOrder

\* A sentinel on an output queue, or a consumer that took one, means the
\* dispatcher has left its loop and pushes nothing more.
StopSeen == \A o \in Outs :
    (done[o] \/ \E i \in 1..Len(out[o]) : out[o][i].m.kind = "stop") => vgpc = "done"

SInv == TypeInv /\ StopSeen /\ StopIsLast

PInv == TypeInv /\ FramesKeepMatrix

-----------------------------------------------------------------------------
(***************************************************************************)
(* Lemmas about the operators on the output queues.                        *)
(***************************************************************************)

\* PushTo appends om to the queues of os and leaves the others alone.
LEMMA PushToElems ==
    ASSUME out \in [Outs -> Seq(OutMsg)], NEW os, NEW om \in OutMsg, NEW o \in Outs
    PROVE  /\ PushTo(os, om)[o] \in Seq(OutMsg)
           /\ Len(PushTo(os, om)[o]) = IF o \in os THEN Len(out[o]) + 1 ELSE Len(out[o])
           /\ \A i \in 1..Len(PushTo(os, om)[o]) :
                 PushTo(os, om)[o][i] = IF i <= Len(out[o]) THEN out[o][i] ELSE om
<1>1. CASE o \in os
  BY <1>1, AppendProperties DEF PushTo
<1>2. CASE o \notin os
  BY <1>2, LenProperties DEF PushTo
<1>3. QED
  BY <1>1, <1>2

\* What a consumer's pop leaves on the output queues.
LEMMA ConsumeElems ==
    ASSUME out \in [Outs -> Seq(OutMsg)], NEW o \in Outs, out[o] # <<>>,
           NEW o2 \in Outs
    PROVE  LET q == [out EXCEPT ![o] = Tail(@)][o2]
           IN  /\ q \in Seq(OutMsg)
               /\ o2 # o => q = out[o2]
               /\ o2 = o => /\ Len(q) = Len(out[o]) - 1
                            /\ \A i \in 1..Len(q) : q[i] = out[o][i + 1]
<1>1. Tail(out[o]) \in Seq(OutMsg) /\ Len(Tail(out[o])) = Len(out[o]) - 1
      /\ \A i \in 1..Len(Tail(out[o])) : Tail(out[o])[i] = out[o][i + 1]
  BY HeadTailProperties
<1>2. QED
  BY <1>1

-----------------------------------------------------------------------------
(***************************************************************************)
(* FramesKeepMatrix: the retention test of handle_jpeg_stack covers every *)
(* output process_frame sends a frame to that needs its pixels.            *)
(***************************************************************************)

\* A frame forwarded to the stacker or the plate solver is processed with
\* NeedPixels, so it keeps a working matrix.
LEMMA FrameWork ==
    ASSUME NEW s \in Sess, NEW m \in Msg,
           NEW dec \in DecodeResults, Processed(s, m, dec).res = "fwd",
           "stack" \in FanOut(s) \/ "plate" \in FanOut(s)
    PROVE  Processed(s, m, dec).work # "none"
<1>1. NeedPixels(s)
  BY DEF FanOut, NeedPixels
<1>2. QED
  BY <1>1 DEF Processed, Kept

\* A push that gives the stacker and the plate solver nothing but frames
\* with a kept matrix preserves FramesKeepMatrix.
LEMMA PushKeepsMatrix ==
    ASSUME out \in [Outs -> Seq(OutMsg)], FramesKeepMatrix,
           NEW os, NEW om \in OutMsg, out' = PushTo(os, om),
           \A o \in {"stack", "plate"} \cap os :
              om.m.kind = "frame" => om.work # "none"
    PROVE  FramesKeepMatrix'
<1> SUFFICES ASSUME NEW o \in {"stack", "plate"}, NEW i \in 1..Len(out'[o]),
                    out'[o][i].m.kind = "frame"
             PROVE  out'[o][i].work # "none"
  BY DEF FramesKeepMatrix
<1>1. o \in Outs
  BY DEF Outs
<1>2. /\ Len(out'[o]) = IF o \in os THEN Len(out[o]) + 1 ELSE Len(out[o])
      /\ out'[o][i] = IF i <= Len(out[o]) THEN out[o][i] ELSE om
  BY <1>1, PushToElems
<1>3. Len(out[o]) \in Nat
  BY <1>1, LenProperties
<1>4. CASE i <= Len(out[o])
  BY <1>2, <1>4 DEF FramesKeepMatrix
<1>5. CASE ~(i <= Len(out[o]))
  <2>1. o \in os /\ out'[o][i] = om
    BY <1>2, <1>3, <1>5
  <2>2. QED
    BY <2>1
<1>6. QED
  BY <1>4, <1>5

LEMMA PInvNext == PInv /\ [Next]_vars => PInv'
<1> SUFFICES ASSUME PInv, [Next]_vars PROVE PInv'
  OBVIOUS
<1>0. TypeInv' /\ out \in [Outs -> Seq(OutMsg)] /\ FramesKeepMatrix
  BY TypeInvNext DEF PInv, TypeInv, TypeOK
<1>1. CASE out' = out
  BY <1>0, <1>1 DEF PInv, FramesKeepMatrix
<1>2. CASE VGStop \/ VGControl
  <2>1. /\ inq \in Seq(Msg) /\ inq # <<>>
        /\ out' = PushTo(CtlOuts, [m |-> Head(inq), work |-> "none"])
        /\ Head(inq).kind # "frame"
    BY <1>2 DEF VGStop, VGControl, QueueFront, PInv, TypeInv, TypeOK
  <2>2. [m |-> Head(inq), work |-> "none"] \in OutMsg
    BY <2>1, HeadTailProperties DEF OutMsg, Works
  <2>3. QED
    BY <1>0, <2>1, <2>2, PushKeepsMatrix DEF PInv
<1>3. CASE VGFrame
  <2>1. inq \in Seq(Msg) /\ inq # <<>> /\ sess \in Sess
    BY <1>3 DEF VGFrame, PInv, TypeInv, TypeOK
  <2>2. Head(inq) \in Msg
    BY <2>1, HeadTailProperties
  <2>3. PICK dec \in DecodeResults :
          out' = PushTo(IF Processed(sess, Head(inq), dec).res = "fwd" THEN FanOut(sess) ELSE {},
                        [m |-> Head(inq), work |-> Processed(sess, Head(inq), dec).work])
    BY <1>3 DEF VGFrame, QueueFront
  <2>4. [m |-> Head(inq), work |-> Processed(sess, Head(inq), dec).work] \in OutMsg
    BY <2>1, <2>2, ProcessedType DEF OutMsg
  <2>5. \A o \in {"stack", "plate"} \cap
            (IF Processed(sess, Head(inq), dec).res = "fwd" THEN FanOut(sess) ELSE {}) :
           Processed(sess, Head(inq), dec).work # "none"
    BY <2>1, <2>2, FrameWork
  <2>6. QED
    BY <1>0, <2>3, <2>4, <2>5, PushKeepsMatrix DEF PInv
<1>4. ASSUME NEW o \in Consumers, Consume(o)
      PROVE  PInv'
  <2>1. o \in Outs /\ out[o] # <<>> /\ out' = [out EXCEPT ![o] = Tail(@)]
    BY <1>4 DEF Consume
  <2> SUFFICES ASSUME NEW o2 \in {"stack", "plate"}, NEW i \in 1..Len(out'[o2]),
                      out'[o2][i].m.kind = "frame"
               PROVE  out'[o2][i].work # "none"
    BY <1>0 DEF PInv, FramesKeepMatrix
  <2>2. o2 \in Outs
    BY DEF Outs
  <2>3. CASE o2 # o
    BY <1>0, <2>1, <2>2, <2>3, ConsumeElems DEF FramesKeepMatrix
  <2>4. CASE o2 = o
    <3>1. Len(out'[o2]) = Len(out[o]) - 1 /\ out'[o2][i] = out[o][i + 1]
      BY <1>0, <2>1, <2>2, <2>4, ConsumeElems
    <3>2. i + 1 \in 1..Len(out[o])
      BY <1>0, <2>1, <3>1, LenProperties
    <3>3. QED
      BY <1>0, <2>4, <3>1, <3>2 DEF FramesKeepMatrix
  <2>5. QED
    BY <2>3, <2>4
<1>5. QED
  BY <1>1, <1>2, <1>3, <1>4
     DEF Next, VGStep, CameraFrame, Start, Control, Stretch, Shutdown, vars

\* A frame reaching the stacker or the plate solver carries the working
\* matrix handle_jpeg_stack kept, for every value of the constants and
\* every outcome of cv::imdecode, the empty one included.
THEOREM FramesKeepMatrixHolds == Spec => []FramesKeepMatrix
<1>1. Init => PInv
  <2> SUFFICES ASSUME Init PROVE PInv
    OBVIOUS
  <2>1. \A o \in Outs : Len(out[o]) = 0
    BY DEF Init
  <2>2. QED
    BY <2>1, TypeInvInit DEF PInv, FramesKeepMatrix, Outs
<1>2. PInv /\ [Next]_vars => PInv'
  BY PInvNext
<1>3. QED
  BY <1>1, <1>2, PTL DEF Spec, PInv

-----------------------------------------------------------------------------
(***************************************************************************)
(* StopIsLast: only VGStop pushes a sentinel, and it ends the loop.        *)
(***************************************************************************)

\* While the dispatcher runs, no output queue holds a sentinel and no
\* consumer has taken one.
LEMMA RunNoStop ==
    ASSUME StopSeen, vgpc = "run"
    PROVE  \A o \in Outs : /\ ~done[o]
                           /\ \A i \in 1..Len(out[o]) : out[o][i].m.kind # "stop"
BY DEF StopSeen

\* Pushing a message that is not a sentinel onto queues without one leaves
\* them without one.
LEMMA PushNoStop ==
    ASSUME out \in [Outs -> Seq(OutMsg)], NEW os, NEW om \in OutMsg,
           om.m.kind # "stop", out' = PushTo(os, om),
           \A o \in Outs : \A i \in 1..Len(out[o]) : out[o][i].m.kind # "stop"
    PROVE  \A o \in Outs : \A i \in 1..Len(out'[o]) : out'[o][i].m.kind # "stop"
<1> SUFFICES ASSUME NEW o \in Outs, NEW i \in 1..Len(out'[o])
             PROVE  out'[o][i].m.kind # "stop"
  OBVIOUS
<1>1. out'[o][i] = IF i <= Len(out[o]) THEN out[o][i] ELSE om
  BY PushToElems
<1>2. Len(out'[o]) <= Len(out[o]) + 1 /\ Len(out[o]) \in Nat
  BY PushToElems, LenProperties
<1>3. QED
  BY <1>1, <1>2

\* A dispatcher step that pushes something other than a sentinel, from a
\* state where it runs, keeps the output queues free of sentinels.
LEMMA NonStopStep ==
    ASSUME TypeInv, StopSeen, vgpc = "run", done' = done,
           NEW os, NEW om \in OutMsg, om.m.kind # "stop", out' = PushTo(os, om)
    PROVE  StopSeen' /\ StopIsLast'
<1>1. \A o \in Outs : ~done[o]
  BY RunNoStop
<1>2. \A o \in Outs : \A i \in 1..Len(out'[o]) : out'[o][i].m.kind # "stop"
  BY RunNoStop, PushNoStop DEF TypeInv, TypeOK
<1>3. QED
  BY <1>1, <1>2 DEF StopSeen, StopIsLast

\* A consumer's pop: it takes the head, and is done when that was the
\* sentinel, which was then the only message left.
LEMMA ConsumeStop ==
    ASSUME SInv, NEW o \in Consumers, Consume(o)
    PROVE  StopSeen' /\ StopIsLast'
<1>1. /\ o \in Outs /\ out \in [Outs -> Seq(OutMsg)] /\ out[o] # <<>>
      /\ out' = [out EXCEPT ![o] = Tail(@)]
      /\ done' = [done EXCEPT ![o] = (Head(out[o]).m.kind = "stop")]
      /\ vgpc' = vgpc /\ done \in [Outs -> BOOLEAN]
  BY DEF Consume, SInv, TypeInv, TypeOK
<1>2. Len(out[o]) \in Nat /\ Len(out[o]) >= 1 /\ Head(out[o]) = out[o][1]
  BY <1>1, LenProperties, EmptySeq
<1>3. ASSUME NEW o2 \in Outs
      PROVE  /\ done'[o2] => vgpc' = "done" /\ out'[o2] = <<>>
             /\ \A i \in 1..Len(out'[o2]) :
                   out'[o2][i].m.kind = "stop" => vgpc' = "done" /\ i = Len(out'[o2])
  <2>1. CASE o2 # o
    <3>1. out'[o2] = out[o2] /\ done'[o2] = done[o2]
      BY <1>1, <2>1, ConsumeElems
    <3>2. QED
      BY <1>1, <3>1 DEF SInv, StopSeen, StopIsLast
  <2>2. CASE o2 = o
    <3>1. Len(out'[o]) = Len(out[o]) - 1 /\ \A i \in 1..Len(out'[o]) : out'[o][i] = out[o][i + 1]
      BY <1>1, ConsumeElems
    <3>2. done'[o] = (out[o][1].m.kind = "stop")
      BY <1>1, <1>2
    <3>3. out[o][1].m.kind = "stop" => Len(out[o]) = 1 /\ vgpc = "done"
      <4>1. 1 \in 1..Len(out[o])
        BY <1>2
      <4>2. out[o][1].m.kind = "stop" => 1 = Len(out[o])
        BY <1>1, <4>1 DEF SInv, StopIsLast
      <4>3. out[o][1].m.kind = "stop" => vgpc = "done"
        BY <1>1, <4>1 DEF SInv, StopSeen
      <4>4. QED
        BY <4>2, <4>3
    <3>4. out'[o] \in Seq(OutMsg)
      BY <1>1, ConsumeElems
    <3>5. done'[o] => out'[o] = <<>>
      <4>1. done'[o] => out[o][1].m.kind = "stop"
        BY <3>2, Zenon
      <4>2. out[o][1].m.kind = "stop" => Len(out'[o]) = 0
        BY <1>2, <3>1, <3>3
      <4>3. QED
        BY <4>1, <4>2, <3>4, EmptySeq
    <3>6. ASSUME NEW i \in 1..Len(out'[o]), out'[o][i].m.kind = "stop"
          PROVE  vgpc' = "done" /\ i = Len(out'[o])
      <4>1. i + 1 \in 1..Len(out[o]) /\ out[o][i + 1].m.kind = "stop"
        BY <1>2, <3>1, <3>6
      <4>2. vgpc = "done" /\ i + 1 = Len(out[o])
        BY <1>1, <4>1 DEF SInv, StopSeen, StopIsLast
      <4>3. vgpc' = "done"
        BY <1>1, <4>2
      <4>4. i = Len(out'[o])
        BY <1>2, <3>1, <4>2
      <4>5. QED
        BY <4>3, <4>4
    <3>7. QED
      BY <1>1, <2>2, <3>2, <3>3, <3>5, <3>6
  <2>3. QED
    BY <2>1, <2>2
<1>4. QED
  BY <1>3 DEF StopSeen, StopIsLast

LEMMA SInvNext == SInv /\ [Next]_vars => SInv'
<1> SUFFICES ASSUME SInv, [Next]_vars PROVE SInv'
  OBVIOUS
<1>0. TypeInv' /\ TypeInv /\ out \in [Outs -> Seq(OutMsg)]
  BY TypeInvNext DEF SInv, TypeInv, TypeOK
<1>1. CASE out' = out /\ done' = done /\ vgpc' = vgpc
  BY <1>0, <1>1 DEF SInv, StopSeen, StopIsLast
<1>2. CASE VGStop
  <2>1. /\ vgpc = "run" /\ vgpc' = "done" /\ done' = done /\ inq \in Seq(Msg) /\ inq # <<>>
        /\ out' = PushTo(CtlOuts, [m |-> Head(inq), work |-> "none"])
    BY <1>2 DEF VGStop, QueueFront, SInv, TypeInv, TypeOK
  <2>2. [m |-> Head(inq), work |-> "none"] \in OutMsg
    BY <2>1, HeadTailProperties DEF OutMsg, Works
  <2>3. \A o \in Outs : /\ ~done[o]
                        /\ \A i \in 1..Len(out[o]) : out[o][i].m.kind # "stop"
    BY <2>1, RunNoStop DEF SInv
  <2>4. ASSUME NEW o \in Outs, NEW i \in 1..Len(out'[o]), out'[o][i].m.kind = "stop"
        PROVE  i = Len(out'[o])
    <3>1. /\ Len(out'[o]) = IF o \in CtlOuts THEN Len(out[o]) + 1 ELSE Len(out[o])
          /\ out'[o][i] = IF i <= Len(out[o]) THEN out[o][i] ELSE [m |-> Head(inq), work |-> "none"]
      BY <1>0, <2>1, <2>2, <2>4, PushToElems
    <3>2. Len(out[o]) \in Nat
      BY <1>0, LenProperties
    <3>3. ~(i <= Len(out[o]))
      BY <2>3, <2>4, <3>1
    <3>4. QED
      BY <3>1, <3>2, <3>3
  <2>5. QED
    BY <1>0, <2>1, <2>3, <2>4 DEF SInv, StopSeen, StopIsLast
<1>3. CASE VGControl
  <2>1. /\ vgpc = "run" /\ vgpc' = "run" /\ done' = done /\ inq \in Seq(Msg) /\ inq # <<>>
        /\ out' = PushTo(CtlOuts, [m |-> Head(inq), work |-> "none"])
        /\ Head(inq).kind = "ctl"
    BY <1>3 DEF VGControl, QueueFront, SInv, TypeInv, TypeOK
  <2>2. [m |-> Head(inq), work |-> "none"] \in OutMsg
    BY <2>1, HeadTailProperties DEF OutMsg, Works
  <2>3. QED
    BY <1>0, <2>1, <2>2, NonStopStep DEF SInv
<1>4. CASE VGFrame
  <2>1. /\ vgpc = "run" /\ done' = done /\ inq \in Seq(Msg) /\ inq # <<>> /\ sess \in Sess
        /\ Head(inq).kind = "frame"
    BY <1>4 DEF VGFrame, QueueFront, SInv, TypeInv, TypeOK
  <2>2. Head(inq) \in Msg
    BY <2>1, HeadTailProperties
  <2>3. PICK dec \in DecodeResults :
          out' = PushTo(IF Processed(sess, Head(inq), dec).res = "fwd" THEN FanOut(sess) ELSE {},
                        [m |-> Head(inq), work |-> Processed(sess, Head(inq), dec).work])
    BY <1>4 DEF VGFrame, QueueFront
  <2>4. [m |-> Head(inq), work |-> Processed(sess, Head(inq), dec).work] \in OutMsg
    BY <2>1, <2>2, ProcessedType DEF OutMsg
  <2>5. QED
    BY <1>0, <2>1, <2>3, <2>4, NonStopStep DEF SInv
<1>5. ASSUME NEW o \in Consumers, Consume(o)
      PROVE  SInv'
  BY <1>0, <1>5, ConsumeStop DEF SInv
<1>6. QED
  BY <1>1, <1>2, <1>3, <1>4, <1>5
     DEF Next, VGStep, CameraFrame, Start, Control, Stretch, Shutdown, vars

\* The shutdown sentinel is the last message any output queue receives,
\* and a consumer that took it has nothing left behind it: run() breaks
\* right after forwarding the sentinel, for every value of the constants.
THEOREM StopIsLastHolds == Spec => []StopIsLast
<1>1. Init => SInv
  <2> SUFFICES ASSUME Init PROVE SInv
    OBVIOUS
  <2>1. \A o \in Outs : Len(out[o]) = 0 /\ ~done[o] /\ out[o] = <<>>
    BY DEF Init
  <2>2. QED
    BY <2>1, TypeInvInit DEF SInv, StopSeen, StopIsLast
<1>2. QED
  BY <1>1, SInvNext, PTL DEF Spec, SInv
-----------------------------------------------------------------------------
(***************************************************************************)
(* OutputsInOrder: every output queue is a subsequence of the input queue. *)
(***************************************************************************)

\* The sequence numbers of a well-typed state are naturals.
LEMMA SeqNat ==
    ASSUME TypeInv
    PROVE  /\ \A k \in 1..Len(inq) : inq[k] \in Msg /\ inq[k].seq \in Nat
           /\ \A o \in Outs : \A i \in 1..Len(out[o]) :
                 out[o][i] \in OutMsg /\ out[o][i].m.seq \in Nat
           /\ nsent \in Nat /\ Len(inq) \in Nat
           /\ \A o \in Outs : out[o] \in Seq(OutMsg) /\ Len(out[o]) \in Nat
<1>1. inq \in Seq(Msg) /\ out \in [Outs -> Seq(OutMsg)] /\ nsent \in Nat
  BY DEF TypeInv, TypeOK
<1>2. \A k \in 1..Len(inq) : inq[k] \in Msg
  BY <1>1, ElementOfSeq
<1>3. \A o \in Outs : \A i \in 1..Len(out[o]) : out[o][i] \in OutMsg
  BY <1>1, ElementOfSeq
<1>4. QED
  BY <1>1, <1>2, <1>3, LenProperties DEF Msg, OutMsg

\* A producer's push appends a message numbered nsent + 1.
LEMMA PushOrder ==
    ASSUME OInv, NEW m, m.seq = nsent + 1, Push(m), out' = out
    PROVE  SeqOrder' /\ OutputsInOrder'
<1>0. /\ \A k \in 1..Len(inq) : inq[k].seq \in Nat
      /\ \A o \in Outs : \A i \in 1..Len(out[o]) : out[o][i].m.seq \in Nat
      /\ nsent \in Nat /\ Len(inq) \in Nat /\ inq \in Seq(Msg)
  BY SeqNat DEF OInv, TypeInv, TypeOK
<1>1. /\ Len(inq') = Len(inq) + 1 /\ inq'[Len(inq) + 1] = m
      /\ \A k \in 1..Len(inq) : inq'[k] = inq[k]
      /\ nsent' = nsent + 1
  BY <1>0, AppendProperties DEF Push
<1>2. \A i, j \in 1..Len(inq') : i < j => inq'[i].seq < inq'[j].seq
  <2> SUFFICES ASSUME NEW i \in 1..Len(inq'), NEW j \in 1..Len(inq'), i < j
               PROVE  inq'[i].seq < inq'[j].seq
    OBVIOUS
  <2>1. i \in 1..Len(inq) /\ inq'[i] = inq[i]
    BY <1>0, <1>1
  <2>2. CASE j \in 1..Len(inq)
    BY <1>1, <2>1, <2>2 DEF OInv, SeqOrder
  <2>3. CASE j = Len(inq) + 1
    BY <1>0, <1>1, <2>1, <2>3 DEF OInv, SeqOrder
  <2>0. Len(inq) \in Nat /\ Len(inq') = Len(inq) + 1
    BY <1>0, <1>1
  <2>4. j \in 1..Len(inq) \/ j = Len(inq) + 1
    BY <2>0
  <2>5. QED
    BY <2>2, <2>3, <2>4
<1>3. \A k \in 1..Len(inq') : inq'[k].seq <= nsent'
  BY <1>0, <1>1 DEF OInv, SeqOrder
<1>4. \A o \in Outs : \A i \in 1..Len(out'[o]) :
         /\ out'[o][i].m.seq <= nsent'
         /\ \A k \in 1..Len(inq') : out'[o][i].m.seq < inq'[k].seq
  <2> SUFFICES ASSUME NEW o \in Outs, NEW i \in 1..Len(out[o])
               PROVE  /\ out[o][i].m.seq <= nsent + 1
                      /\ \A k \in 1..Len(inq') : out[o][i].m.seq < inq'[k].seq
    BY <1>1 DEF Push
  <2>1. out[o][i].m.seq <= nsent
    BY DEF OInv, SeqOrder
  <2>2. ASSUME NEW k \in 1..Len(inq') PROVE out[o][i].m.seq < inq'[k].seq
    <3>1. CASE k \in 1..Len(inq)
      BY <1>1, <3>1 DEF OInv, SeqOrder
    <3>2. CASE k = Len(inq) + 1
      BY <1>0, <1>1, <2>1, <3>2
    <3>3. QED
      BY <1>0, <1>1, <3>1, <3>2
  <2>3. QED
    BY <1>0, <2>1, <2>2
<1>5. QED
  BY <1>2, <1>3, <1>4 DEF SeqOrder, OInv, OutputsInOrder
\* The VideoGenerator pops the front of the input queue and appends it to
\* some of the output queues.
LEMMA PopOrder ==
    ASSUME OInv, inq # <<>>, inq' = Tail(inq), nsent' = nsent,
           NEW os, NEW w \in Works, out' = PushTo(os, [m |-> Head(inq), work |-> w])
    PROVE  SeqOrder' /\ OutputsInOrder'
<1> DEFINE om == [m |-> Head(inq), work |-> w]
<1>0. /\ \A k \in 1..Len(inq) : inq[k] \in Msg /\ inq[k].seq \in Nat
      /\ \A o \in Outs : \A i \in 1..Len(out[o]) : out[o][i].m.seq \in Nat
      /\ nsent \in Nat /\ Len(inq) \in Nat /\ inq \in Seq(Msg)
      /\ out \in [Outs -> Seq(OutMsg)]
  BY SeqNat DEF OInv, TypeInv, TypeOK
<1>1. /\ Len(inq) >= 1 /\ Head(inq) = inq[1]
      /\ Len(inq') = Len(inq) - 1
      /\ \A k \in 1..Len(inq') : inq'[k] = inq[k + 1]
  BY <1>0, HeadTailProperties, EmptySeq
<1>2. om \in OutMsg /\ om.m = inq[1]
  BY <1>0, <1>1 DEF OutMsg
<1>3. \A i, j \in 1..Len(inq') : i < j => inq'[i].seq < inq'[j].seq
  <2> SUFFICES ASSUME NEW i \in 1..Len(inq'), NEW j \in 1..Len(inq'), i < j
               PROVE  inq'[i].seq < inq'[j].seq
    OBVIOUS
  <2>1. i + 1 \in 1..Len(inq) /\ j + 1 \in 1..Len(inq) /\ i + 1 < j + 1
    BY <1>0, <1>1
  <2>2. inq[i + 1].seq < inq[j + 1].seq
    BY <2>1 DEF OInv, SeqOrder
  <2>3. QED
    BY <1>1, <2>2
<1>4. \A k \in 1..Len(inq') : inq'[k].seq <= nsent'
  <2> SUFFICES ASSUME NEW k \in 1..Len(inq') PROVE inq'[k].seq <= nsent
    OBVIOUS
  <2>1. k + 1 \in 1..Len(inq)
    BY <1>0, <1>1
  <2>2. QED
    BY <1>1, <2>1 DEF OInv, SeqOrder
\* The front of the input queue follows all output messages and precedes
\* the rest of the input queue.
<1>5. /\ inq[1].seq <= nsent
      /\ \A k \in 1..Len(inq') : inq[1].seq < inq'[k].seq
      /\ \A o \in Outs : \A i \in 1..Len(out[o]) : out[o][i].m.seq < inq[1].seq
  <2>1. 1 \in 1..Len(inq)
    BY <1>0, <1>1
  <2>2. ASSUME NEW k \in 1..Len(inq') PROVE inq[1].seq < inq'[k].seq
    <3>1. k + 1 \in 1..Len(inq) /\ 1 < k + 1
      BY <1>0, <1>1
    <3>2. QED
      BY <1>1, <2>1, <3>1 DEF OInv, SeqOrder
  <2>3. QED
    BY <2>1, <2>2 DEF OInv, SeqOrder
<1>6. ASSUME NEW o \in Outs
      PROVE  /\ Len(out'[o]) <= Len(out[o]) + 1 /\ Len(out'[o]) \in Nat
             /\ \A i \in 1..Len(out'[o]) :
                   out'[o][i] = IF i <= Len(out[o]) THEN out[o][i] ELSE om
  <2>1. Len(out[o]) \in Nat
    BY <1>0, LenProperties
  <2>2. /\ Len(PushTo(os, om)[o]) = IF o \in os THEN Len(out[o]) + 1 ELSE Len(out[o])
        /\ \A i \in 1..Len(PushTo(os, om)[o]) :
              PushTo(os, om)[o][i] = IF i <= Len(out[o]) THEN out[o][i] ELSE om
    BY <1>0, <1>2, PushToElems
  <2>3. QED
    BY <2>1, <2>2
<1>7. \A o \in Outs : \A i \in 1..Len(out'[o]) :
         /\ out'[o][i].m.seq <= nsent'
         /\ \A k \in 1..Len(inq') : out'[o][i].m.seq < inq'[k].seq
  <2> SUFFICES ASSUME NEW o \in Outs, NEW i \in 1..Len(out'[o])
               PROVE  /\ out'[o][i].m.seq <= nsent
                      /\ \A k \in 1..Len(inq') : out'[o][i].m.seq < inq'[k].seq
    OBVIOUS
  <2>1. CASE i <= Len(out[o])
    <3>1. i \in 1..Len(out[o]) /\ out'[o][i] = out[o][i]
      BY <1>6, <2>1
    <3>2. out[o][i].m.seq <= nsent
      BY <3>1 DEF OInv, SeqOrder
    <3>3. ASSUME NEW k \in 1..Len(inq') PROVE out[o][i].m.seq < inq'[k].seq
      <4>1. k + 1 \in 1..Len(inq)
        BY <1>0, <1>1
      <4>2. QED
        BY <1>1, <3>1, <4>1 DEF OInv, SeqOrder
    <3>4. QED
      BY <3>1, <3>2, <3>3
  <2>2. CASE ~(i <= Len(out[o]))
    BY <1>2, <1>5, <1>6, <2>2
  <2>3. QED
    BY <2>1, <2>2
<1>8. OutputsInOrder'
  <2> SUFFICES ASSUME NEW o \in Outs, NEW i \in 1..Len(out'[o]), NEW j \in 1..(i - 1)
               PROVE  out'[o][j].m.seq < out'[o][i].m.seq
    BY DEF OutputsInOrder
  <2>1. Len(out[o]) \in Nat
    BY <1>0, LenProperties
  <2>2. j \in 1..Len(out[o]) /\ out'[o][j] = out[o][j]
    BY <1>6, <2>1
  <2>3. CASE i <= Len(out[o])
    <3>1. i \in 1..Len(out[o]) /\ out'[o][i] = out[o][i]
      BY <1>6, <2>1, <2>3
    <3>2. QED
      BY <2>2, <3>1 DEF OInv, OutputsInOrder
  <2>4. CASE ~(i <= Len(out[o]))
    <3>1. out'[o][i].m = inq[1]
      BY <1>2, <1>6, <2>4
    <3>2. QED
      BY <1>5, <2>2, <3>1
  <2>5. QED
    BY <2>3, <2>4
<1>9. QED
  BY <1>3, <1>4, <1>7, <1>8 DEF SeqOrder
\* A consumer pops the front of its output queue.
LEMMA ConsumeOrder ==
    ASSUME OInv, NEW o \in Outs, out[o] # <<>>, out' = [out EXCEPT ![o] = Tail(@)],
           inq' = inq, nsent' = nsent
    PROVE  SeqOrder' /\ OutputsInOrder'
<1>0. out \in [Outs -> Seq(OutMsg)] /\ \A o2 \in Outs : Len(out[o2]) \in Nat
  BY SeqNat DEF OInv, TypeInv, TypeOK
\* Every element of an output queue after the step was at an index no
\* smaller before it.
<1>1. \A o2 \in Outs : \A i \in 1..Len(out'[o2]) :
         \E i0 \in 1..Len(out[o2]) : /\ out'[o2][i] = out[o2][i0]
                                     /\ o2 = o => i0 = i + 1
                                     /\ o2 # o => i0 = i
  <2> SUFFICES ASSUME NEW o2 \in Outs, NEW i \in 1..Len(out'[o2])
               PROVE  \E i0 \in 1..Len(out[o2]) : /\ out'[o2][i] = out[o2][i0]
                                                  /\ o2 = o => i0 = i + 1
                                                  /\ o2 # o => i0 = i
    OBVIOUS
  <2>1. CASE o2 = o
    <3>1. Len(out'[o]) = Len(out[o]) - 1 /\ out'[o][i] = out[o][i + 1]
      BY <1>0, <2>1, ConsumeElems
    <3>2. i + 1 \in 1..Len(out[o])
      BY <1>0, <2>1, <3>1
    <3>3. QED
      BY <2>1, <3>1, <3>2
  <2>2. CASE o2 # o
    <3>1. out'[o2] = out[o2]
      BY <1>0, <2>2, ConsumeElems
    <3>2. QED
      BY <2>2, <3>1
  <2>3. QED
    BY <2>1, <2>2
<1>2. \A o2 \in Outs : \A i \in 1..Len(out'[o2]) :
         /\ out'[o2][i].m.seq <= nsent'
         /\ \A k \in 1..Len(inq') : out'[o2][i].m.seq < inq'[k].seq
  <2> SUFFICES ASSUME NEW o2 \in Outs, NEW i \in 1..Len(out'[o2])
               PROVE  /\ out'[o2][i].m.seq <= nsent
                      /\ \A k \in 1..Len(inq) : out'[o2][i].m.seq < inq[k].seq
    OBVIOUS
  <2>1. PICK i0 \in 1..Len(out[o2]) : out'[o2][i] = out[o2][i0]
    BY <1>1
  <2>2. QED
    BY <2>1 DEF OInv, SeqOrder
<1>3. OutputsInOrder'
  <2> SUFFICES ASSUME NEW o2 \in Outs, NEW i \in 1..Len(out'[o2]), NEW j \in 1..(i - 1)
               PROVE  out'[o2][j].m.seq < out'[o2][i].m.seq
    BY DEF OutputsInOrder
  <2>1. j \in 1..Len(out'[o2])
    BY <1>0, ConsumeElems
  <2>2. PICK i0 \in 1..Len(out[o2]) : /\ out'[o2][i] = out[o2][i0]
                                      /\ o2 = o => i0 = i + 1
                                      /\ o2 # o => i0 = i
    BY <1>1, Zenon
  <2>3. PICK j0 \in 1..Len(out[o2]) : /\ out'[o2][j] = out[o2][j0]
                                      /\ o2 = o => j0 = j + 1
                                      /\ o2 # o => j0 = j
    BY <1>1, <2>1, Zenon
  <2>4. j0 \in 1..(i0 - 1)
    BY <2>2, <2>3
  <2>5. QED
    BY <2>2, <2>3, <2>4 DEF OInv, OutputsInOrder
<1>4. QED
  BY <1>2, <1>3 DEF OInv, SeqOrder
\* Every producer pushes one message numbered nsent + 1 and leaves the
\* output queues alone.
LEMMA ProducerPush ==
    ASSUME CameraFrame \/ Start \/ Control \/ Stretch \/ Shutdown
    PROVE  \E m : m.seq = nsent + 1 /\ Push(m) /\ out' = out
<1>1. CASE CameraFrame
  BY <1>1, Zenon DEF CameraFrame, NewMsg
<1>2. CASE Start
  BY <1>2, Zenon DEF Start, NewMsg
<1>3. CASE Control
  BY <1>3, Zenon DEF Control, NewMsg
<1>4. CASE Stretch
  BY <1>4, Zenon DEF Stretch, NewMsg
<1>5. CASE Shutdown
  BY <1>5, Zenon DEF Shutdown, NewMsg
<1>6. QED
  BY <1>1, <1>2, <1>3, <1>4, <1>5

LEMMA OInvNext == OInv /\ [Next]_vars => OInv'
<1> SUFFICES ASSUME OInv, [Next]_vars PROVE OInv'
  OBVIOUS
<1>0. TypeInv' /\ TypeInv /\ inq \in Seq(Msg)
  BY TypeInvNext DEF OInv, TypeInv, TypeOK
<1>1. CASE UNCHANGED vars
  BY <1>0, <1>1 DEF vars, OInv, SeqOrder, OutputsInOrder
<1>2. CASE CameraFrame \/ Start \/ Control \/ Stretch \/ Shutdown
  <2>1. PICK m : m.seq = nsent + 1 /\ Push(m) /\ out' = out
    BY <1>2, ProducerPush
  <2>2. QED
    BY <1>0, <2>1, PushOrder DEF OInv
<1>3. CASE VGStop \/ VGControl
  <2>1. /\ inq # <<>> /\ inq' = Tail(inq) /\ nsent' = nsent
        /\ out' = PushTo(CtlOuts, [m |-> Head(inq), work |-> "none"])
    BY <1>3 DEF VGStop, VGControl, QueueFront, QueueRest
  <2>2. "none" \in Works
    BY DEF Works
  <2>3. QED
    BY <1>0, <2>1, <2>2, PopOrder DEF OInv
<1>4. CASE VGFrame
  <2>1. /\ inq # <<>> /\ inq' = Tail(inq) /\ nsent' = nsent /\ sess \in Sess
    BY <1>0, <1>4 DEF VGFrame, QueueRest, TypeInv, TypeOK
  <2>2. Head(inq) \in Msg
    BY <1>0, <2>1, HeadTailProperties
  <2>3. PICK dec \in DecodeResults :
          out' = PushTo(IF Processed(sess, Head(inq), dec).res = "fwd" THEN FanOut(sess) ELSE {},
                        [m |-> Head(inq), work |-> Processed(sess, Head(inq), dec).work])
    BY <1>4 DEF VGFrame, QueueFront
  <2>4. Processed(sess, Head(inq), dec).work \in Works
    BY <2>1, <2>2, ProcessedType
  <2>5. QED
    BY <1>0, <2>1, <2>3, <2>4, PopOrder DEF OInv
<1>5. ASSUME NEW o \in Consumers, Consume(o)
      PROVE  OInv'
  <2>1. o \in Outs
    BY DEF PipelineAssumption
  <2>2. QED
    BY <1>0, <1>5, <2>1, ConsumeOrder DEF Consume, OInv
<1>6. QED
  BY <1>1, <1>2, <1>3, <1>4, <1>5 DEF Next, VGStep

\* run() hands messages to the output queues in the order it popped them
\* from the input queue, and push_data stamps them in push order: on every
\* output queue the sequence numbers increase from front to back, so no
\* consumer sees a control message or frame before one pushed earlier.
THEOREM OutputsInOrderHolds == Spec => []OutputsInOrder
<1>1. Init => OInv
  <2> SUFFICES ASSUME Init PROVE OInv
    OBVIOUS
  <2>1. inq = <<>> /\ \A o \in Outs : out[o] = <<>>
    BY DEF Init
  <2>2. Len(inq) = 0 /\ \A o \in Outs : Len(out[o]) = 0
    BY <2>1
  <2>3. QED
    BY <2>2, TypeInvInit DEF OInv, SeqOrder, OutputsInOrder
<1>2. QED
  BY <1>1, OInvNext, PTL DEF Spec, OInv
=============================================================================
