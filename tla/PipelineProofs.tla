---------------------------- MODULE PipelineProofs ----------------------------
(***************************************************************************)
(* Proofs about Pipeline for every value of its constants.                *)
(***************************************************************************)
EXTENDS Pipeline, SequenceTheorems, TLAPS

USE PipelineAssumption

(* Control messages in the input queue carry one of the six operations;   *)
(* the run loop's switch has a case for each.                             *)
CtlWellFormed ==
    \A i \in 1..Len(inq) : inq[i].kind = "ctl" => inq[i].op \in CtlOps

TypeInv == TypeOK /\ CtlWellFormed

-----------------------------------------------------------------------------
(* Lemmas about the operators the model is built from.                    *)

\* The specification's transition table yields a session state.
LEMMA SpecApplyType ==
    ASSUME NEW s \in Sess, NEW op, NEW flag \in BOOLEAN
    PROVE  SpecApply(s, op, flag) \in Sess
BY DEF SpecApply, Sess

\* The run loop's switch is the specification's transition table.
LEMMA ApplyCtlIsSpecApply ==
    ASSUME NEW s \in Sess, NEW op \in CtlOps, NEW flag \in BOOLEAN
    PROVE  ApplyCtl(s, op, flag) = SpecApply(s, op, flag)
BY DEF ApplyCtl, SpecApply, CtlOps

\* process_frame's pushes are the specification's fan-out rule.
LEMMA FanOutIsSpecFanOut ==
    ASSUME NEW s \in Sess
    PROVE  /\ FanOut(s) = SpecFanOut(s)
           /\ FanOut(s) \subseteq Outs
BY DEF FanOut, SpecFanOut, Outs

\* process_frame ends in one of three ways and keeps a working matrix of
\* one of the four kinds.
LEMMA ProcessedType ==
    ASSUME NEW s \in Sess, NEW m \in Msg, NEW dec
    PROVE  /\ Processed(s, m, dec).res \in {"drop", "fwd", "crash"}
           /\ Processed(s, m, dec).work \in Works
BY DEF Processed, Kept, Works

\* Appending a well-formed message keeps the queue well typed and
\* well formed.
LEMMA AppendMsg ==
    ASSUME NEW q \in Seq(Msg), NEW m \in Msg,
           \A i \in 1..Len(q) : q[i].kind = "ctl" => q[i].op \in CtlOps,
           m.kind = "ctl" => m.op \in CtlOps
    PROVE  /\ Append(q, m) \in Seq(Msg)
           /\ \A i \in 1..Len(Append(q, m)) :
                 Append(q, m)[i].kind = "ctl" => Append(q, m)[i].op \in CtlOps
BY AppendProperties

\* Taking the head keeps the rest well typed and well formed.
LEMMA TailMsg ==
    ASSUME NEW q \in Seq(Msg), q # <<>>,
           \A i \in 1..Len(q) : q[i].kind = "ctl" => q[i].op \in CtlOps
    PROVE  /\ Head(q) \in Msg
           /\ Head(q).kind = "ctl" => Head(q).op \in CtlOps
           /\ Tail(q) \in Seq(Msg)
           /\ \A i \in 1..Len(Tail(q)) : Tail(q)[i].kind = "ctl" => Tail(q)[i].op \in CtlOps
<1>1. Len(q) >= 1 /\ Head(q) = q[1]
  BY EmptySeq, LenProperties
<1>2. QED
  BY <1>1, HeadTailProperties

\* Pushing to a set of output queues keeps them well typed.
LEMMA PushToType ==
    ASSUME out \in [Outs -> Seq(OutMsg)], NEW os, NEW om \in OutMsg
    PROVE  PushTo(os, om) \in [Outs -> Seq(OutMsg)]
BY AppendProperties DEF PushTo

-----------------------------------------------------------------------------
(* Type correctness.                                                      *)

LEMMA NewMsgType ==
    ASSUME TypeOK, NEW kind \in {"frame", "ctl", "stop"}, NEW op \in CtlOps \cup {"none"},
           NEW flag \in BOOLEAN, NEW fmt \in StreamTypes \cup {"none"},
           NEW len \in Nat, NEW b \in Bayers
    PROVE  NewMsg(kind, op, flag, fmt, len, b) \in Msg
BY DEF NewMsg, Msg, TypeOK

LEMMA TypeInvInit == Init => TypeInv
<1> SUFFICES ASSUME Init PROVE TypeInv
  OBVIOUS
<1>1. <<>> \in Seq(Msg) /\ <<>> \in Seq(OutMsg)
      /\ <<>> \in Seq([seq : Nat, pre : Sess, routes : SUBSET Outs])
  BY EmptySeq
<1>2. IdleSess \in Sess
  BY DEF IdleSess, Sess
<1>3. out \in [Outs -> Seq(OutMsg)] /\ done \in [Outs -> BOOLEAN]
  BY <1>1 DEF Init
<1>4. CtlWellFormed
  BY EmptySeq DEF Init, CtlWellFormed
<1>5. QED
  BY <1>1, <1>2, <1>3, <1>4 DEF Init, TypeInv, TypeOK

LEMMA FrameLensNat ==
    ASSUME NEW f \in StreamTypes
    PROVE  FrameLens(f) \subseteq Nat
<1>1. Bpp(f) \in Int
  BY DEF Bpp
<1>2. Bpp(f) > 0 => Width * Height * Bpp(f) \in Nat
  BY <1>1
<1>3. QED
  BY <1>2 DEF FrameLens

\* A push keeps the input queue and the ghost state well typed.
LEMMA PushType ==
    ASSUME TypeInv, NEW m \in Msg, m.kind = "ctl" => m.op \in CtlOps, Push(m)
    PROVE  /\ inq' \in Seq(Msg)
           /\ CtlWellFormed'
           /\ nsent' \in Nat
           /\ tailSess' \in Sess
<1>1. inq' \in Seq(Msg) /\ CtlWellFormed'
  BY AppendMsg DEF Push, TypeInv, TypeOK, CtlWellFormed
<1>2. tailSess' \in Sess
  BY SpecApplyType DEF Push, SpecAfter, TypeInv, TypeOK, Msg
<1>3. QED
  BY <1>1, <1>2 DEF Push, TypeInv, TypeOK

LEMMA TypeInvNext == TypeInv /\ [Next]_vars => TypeInv'
<1> SUFFICES ASSUME TypeInv, [Next]_vars PROVE TypeInv'
  OBVIOUS
<1>1. CASE CameraFrame
  <2>1. PICK f \in CamFormats : \E len \in FrameLens(f) : \E b \in FrameBayers(f) :
            Push(NewMsg("frame", "none", FALSE, f, len, b))
    BY <1>1 DEF CameraFrame
  <2>2. PICK len \in FrameLens(f) : \E b \in FrameBayers(f) :
            Push(NewMsg("frame", "none", FALSE, f, len, b))
    BY <2>1
  <2>3. PICK b \in FrameBayers(f) : Push(NewMsg("frame", "none", FALSE, f, len, b))
    BY <2>2
  <2>4. NewMsg("frame", "none", FALSE, f, len, b) \in Msg
    <3>1. f \in StreamTypes /\ len \in Nat /\ b \in Bayers
      BY FrameLensNat DEF FrameBayers, StreamTypes, Bayers
    <3>2. QED
      BY <3>1, NewMsgType DEF TypeInv
  <2>5. NewMsg("frame", "none", FALSE, f, len, b).kind = "frame"
    BY DEF NewMsg
  <2>6. inq' \in Seq(Msg) /\ CtlWellFormed' /\ nsent' \in Nat /\ tailSess' \in Sess
    BY <2>3, <2>4, <2>5, PushType
  <2>7. QED
    BY <1>1, <2>6 DEF CameraFrame, TypeInv, TypeOK
<1>2. CASE Start
  <2>1. PICK flag \in BOOLEAN : Push(NewMsg("ctl", "init", flag, "none", 0, "NA"))
    BY <1>2 DEF Start
  <2>2. /\ NewMsg("ctl", "init", flag, "none", 0, "NA") \in Msg
        /\ NewMsg("ctl", "init", flag, "none", 0, "NA").op \in CtlOps
    BY NewMsgType DEF TypeInv, CtlOps, NewMsg, Bayers
  <2>3. inq' \in Seq(Msg) /\ CtlWellFormed' /\ nsent' \in Nat /\ tailSess' \in Sess
    BY <2>1, <2>2, PushType
  <2>4. QED
    BY <1>2, <2>3 DEF Start, TypeInv, TypeOK
<1>3. CASE Control
  <2>1. PICK op \in {"pause", "save", "resume", "cancel"} :
            /\ Push(NewMsg("ctl", op, FALSE, "none", 0, "NA"))
            /\ status' = ControlStatus(op, status)
    BY <1>3 DEF Control
  <2>2. /\ NewMsg("ctl", op, FALSE, "none", 0, "NA") \in Msg
        /\ NewMsg("ctl", op, FALSE, "none", 0, "NA").op \in CtlOps
    BY NewMsgType DEF TypeInv, CtlOps, NewMsg, Bayers
  <2>3. status' \in {"idle", "paused", "stacking"}
    BY <2>1 DEF ControlStatus, TypeInv, TypeOK
  <2>4. inq' \in Seq(Msg) /\ CtlWellFormed' /\ nsent' \in Nat /\ tailSess' \in Sess
    BY <2>1, <2>2, PushType
  <2>5. QED
    BY <1>3, <2>3, <2>4 DEF Control, TypeInv, TypeOK
<1>4. CASE Stretch
  <2>1. /\ NewMsg("ctl", "update", FALSE, "none", 0, "NA") \in Msg
        /\ NewMsg("ctl", "update", FALSE, "none", 0, "NA").op \in CtlOps
    BY NewMsgType DEF TypeInv, CtlOps, NewMsg, Bayers
  <2>2. inq' \in Seq(Msg) /\ CtlWellFormed' /\ nsent' \in Nat /\ tailSess' \in Sess
    BY <1>4, <2>1, PushType DEF Stretch
  <2>3. QED
    BY <1>4, <2>2 DEF Stretch, TypeInv, TypeOK
<1>5. CASE Shutdown
  <2>1. /\ NewMsg("stop", "none", FALSE, "none", 0, "NA") \in Msg
        /\ NewMsg("stop", "none", FALSE, "none", 0, "NA").kind = "stop"
    BY NewMsgType DEF TypeInv, NewMsg, Bayers
  <2>2. inq' \in Seq(Msg) /\ CtlWellFormed' /\ nsent' \in Nat /\ tailSess' \in Sess
    BY <1>5, <2>1, PushType DEF Shutdown
  <2>3. QED
    BY <1>5, <2>2 DEF Shutdown, TypeInv, TypeOK
<1>6. CASE VGStop
  <2>1. /\ Head(inq) \in Msg
        /\ Tail(inq) \in Seq(Msg)
        /\ \A i \in 1..Len(Tail(inq)) : Tail(inq)[i].kind = "ctl" => Tail(inq)[i].op \in CtlOps
    BY <1>6, TailMsg DEF VGStop, TypeInv, TypeOK, CtlWellFormed
  <2>2. [m |-> Head(inq), work |-> "none"] \in OutMsg
    BY <2>1 DEF OutMsg, Works
  <2>3. QED
    BY <1>6, <2>1, <2>2, PushToType DEF VGStop, QueueFront, QueueRest, TypeInv, TypeOK, CtlWellFormed
<1>7. CASE VGControl
  <2>1. /\ Head(inq) \in Msg
        /\ Head(inq).op \in CtlOps
        /\ Tail(inq) \in Seq(Msg)
        /\ \A i \in 1..Len(Tail(inq)) : Tail(inq)[i].kind = "ctl" => Tail(inq)[i].op \in CtlOps
    BY <1>7, TailMsg DEF VGControl, QueueFront, TypeInv, TypeOK, CtlWellFormed
  <2>2. [m |-> Head(inq), work |-> "none"] \in OutMsg
    BY <2>1 DEF OutMsg, Works
  <2>3. sess' \in Sess
    BY <1>7, <2>1, ApplyCtlIsSpecApply, SpecApplyType DEF VGControl, QueueFront, TypeInv, TypeOK, Msg
  <2>4. QED
    BY <1>7, <2>1, <2>2, <2>3, PushToType DEF VGControl, QueueFront, QueueRest, TypeInv, TypeOK, CtlWellFormed
<1>8. CASE VGFrame
  <2>1. /\ Head(inq) \in Msg
        /\ Tail(inq) \in Seq(Msg)
        /\ \A i \in 1..Len(Tail(inq)) : Tail(inq)[i].kind = "ctl" => Tail(inq)[i].op \in CtlOps
    BY <1>8, TailMsg DEF VGFrame, TypeInv, TypeOK, CtlWellFormed
  <2>2. PICK dec \in DecodeResults :
          LET m == QueueFront(inq)
              r == Processed(sess, m, dec)
              routes == IF r.res = "fwd" THEN FanOut(sess) ELSE {}
          IN /\ inq' = QueueRest(inq)
             /\ out' = PushTo(routes, [m |-> m, work |-> r.work])
             /\ vgpc' = IF r.res = "crash" THEN "crashed" ELSE vgpc
             /\ log' = Append(log, [seq |-> m.seq, pre |-> m.pre, routes |-> routes])
    BY <1>8 DEF VGFrame
  <2> DEFINE r == Processed(sess, Head(inq), dec)
             routes == IF r.res = "fwd" THEN FanOut(sess) ELSE {}
  <2>3. r.work \in Works /\ r.res \in {"drop", "fwd", "crash"}
    BY <2>1, ProcessedType DEF TypeInv, TypeOK
  <2>4. routes \subseteq Outs
    BY FanOutIsSpecFanOut DEF TypeInv, TypeOK
  <2>5. [m |-> Head(inq), work |-> r.work] \in OutMsg
    BY <2>1, <2>3 DEF OutMsg
  <2>6. out' \in [Outs -> Seq(OutMsg)]
    BY <2>2, <2>5, PushToType DEF QueueFront, TypeInv, TypeOK
  <2>7. [seq |-> Head(inq).seq, pre |-> Head(inq).pre, routes |-> routes]
          \in [seq : Nat, pre : Sess, routes : SUBSET Outs]
    BY <2>1, <2>4 DEF Msg
  <2>8. log' \in Seq([seq : Nat, pre : Sess, routes : SUBSET Outs])
    BY <2>2, <2>7, AppendProperties DEF QueueFront, TypeInv, TypeOK
  <2>9. vgpc' \in {"run", "done", "crashed"}
    BY <2>2, <2>3 DEF QueueFront, TypeInv, TypeOK
  <2>10. QED
    BY <1>8, <2>1, <2>2, <2>6, <2>8, <2>9
       DEF VGFrame, QueueFront, QueueRest, TypeInv, TypeOK, CtlWellFormed
<1>9. ASSUME NEW o \in Consumers, Consume(o)
      PROVE  TypeInv'
  <2>1. o \in Outs /\ out[o] \in Seq(OutMsg) /\ out[o] # <<>>
    BY <1>9 DEF Consume, TypeInv, TypeOK
  <2>2. Tail(out[o]) \in Seq(OutMsg) /\ Head(out[o]) \in OutMsg
    BY <2>1, HeadTailProperties
  <2>3. QED
    BY <1>9, <2>1, <2>2 DEF Consume, TypeInv, TypeOK, CtlWellFormed
<1>10. CASE UNCHANGED vars
  BY <1>10 DEF vars, TypeInv, TypeOK, CtlWellFormed
<1>11. QED
  BY <1>1, <1>2, <1>3, <1>4, <1>5, <1>6, <1>7, <1>8, <1>9, <1>10
     DEF Next, VGStep

\* The pipeline's state stays well typed in every behaviour.
THEOREM TypeCorrect == Spec => []TypeOK
<1>1. Spec => []TypeInv
  BY TypeInvInit, TypeInvNext, PTL DEF Spec
<1>2. QED
  BY <1>1, PTL DEF TypeInv

-----------------------------------------------------------------------------
(* FanOutFollowsOrder.  It is not inductive by itself: a frame's routes   *)
(* are computed from the dispatcher's session while the property speaks  *)
(* of the frame's stamp.  The strengthening says the stamps in the queue *)
(* agree with the dispatcher (HeadInSync, StampChain, TailInSync).       *)

Sync == HeadInSync /\ StampChain /\ TailInSync

IInv == TypeInv /\ Sync /\ FanOutFollowsOrder

\* A push of a message stamped with tailSess keeps the stamps in sync.
LEMMA PushSync ==
    ASSUME TypeInv, Sync, NEW m \in Msg, m.pre = tailSess,
           Push(m), sess' = sess
    PROVE  Sync'
<1> DEFINE n == Len(inq)
<1>1. inq \in Seq(Msg) /\ n \in Nat
  BY DEF TypeInv, TypeOK
<1>2. /\ inq' = Append(inq, m)
      /\ Len(inq') = n + 1
      /\ \A i \in 1..n : inq'[i] = inq[i]
      /\ inq'[n + 1] = m
  BY <1>1, AppendProperties DEF Push
<1>3. HeadInSync'
  <2>1. CASE n = 0
    BY <1>2, <2>1 DEF HeadInSync, TailInSync, Sync
  <2>2. CASE n > 0
    BY <1>1, <1>2, <2>2 DEF HeadInSync, Sync
  <2>3. QED
    BY <1>1, <2>1, <2>2
<1>4. StampChain'
  <2> SUFFICES ASSUME NEW i \in 1..(n + 1 - 1)
               PROVE  inq'[i + 1].pre = SpecAfter(inq'[i].pre, inq'[i])
    BY <1>2 DEF StampChain
  <2>1. CASE i < n
    BY <1>1, <1>2, <2>1 DEF StampChain, Sync
  <2>2. CASE i = n
    <3>1. n # 0 /\ inq # <<>>
      BY <1>1, <2>2
    <3>2. QED
      BY <1>1, <1>2, <2>2, <3>1 DEF TailInSync, Sync
  <2>3. QED
    BY <1>1, <2>1, <2>2
<1>5. TailInSync'
  BY <1>1, <1>2 DEF TailInSync, Push
<1>6. QED
  BY <1>3, <1>4, <1>5 DEF Sync

\* Popping the head and moving the dispatcher to the session the head
\* leaves keeps the stamps in sync.
LEMMA PopSync ==
    ASSUME TypeInv, Sync, inq # <<>>,
           inq' = Tail(inq), sess' = SpecAfter(inq[1].pre, inq[1]),
           tailSess' = tailSess
    PROVE  Sync'
<1> DEFINE n == Len(inq)
<1>1. inq \in Seq(Msg) /\ n \in Nat /\ n >= 1
  BY EmptySeq, LenProperties DEF TypeInv, TypeOK
<1>2. /\ inq' \in Seq(Msg)
      /\ Len(inq') = n - 1
      /\ \A i \in 1..(n - 1) : inq'[i] = inq[i + 1]
  BY <1>1, HeadTailProperties
<1>3. HeadInSync'
  BY <1>1, <1>2 DEF HeadInSync, StampChain, Sync
<1>4. StampChain'
  BY <1>1, <1>2 DEF StampChain, Sync
<1>5. TailInSync'
  <2>1. CASE n = 1
    <3>1. inq' = <<>>
      BY <1>1, <1>2, <2>1, HeadTailProperties
    <3>2. QED
      BY <2>1, <3>1, <1>1 DEF TailInSync, Sync
  <2>2. CASE n # 1
    <3>1. inq' # <<>>
      <4>1. Len(inq') # 0
        BY <1>1, <1>2, <2>2
      <4>2. QED
        BY <4>1
    <3>2. QED
      BY <1>1, <1>2, <2>2, <3>1 DEF TailInSync, Sync
  <2>3. QED
    BY <2>1, <2>2
<1>6. QED
  BY <1>3, <1>4, <1>5 DEF Sync

LEMMA IInvInit == Init => IInv
<1> SUFFICES ASSUME Init PROVE IInv
  OBVIOUS
<1>1. TypeInv
  BY TypeInvInit
<1>2. QED
  BY <1>1 DEF Init, IInv, Sync, HeadInSync, StampChain, TailInSync, FanOutFollowsOrder

LEMMA IInvNext == IInv /\ [Next]_vars => IInv'
<1> SUFFICES ASSUME IInv, [Next]_vars PROVE IInv'
  OBVIOUS
<1>0. TypeInv' /\ TypeInv /\ Sync
  BY TypeInvNext DEF IInv
<1>1. CASE CameraFrame
  <2>1. PICK f \in CamFormats : \E len \in FrameLens(f) : \E b \in FrameBayers(f) :
            Push(NewMsg("frame", "none", FALSE, f, len, b))
    BY <1>1 DEF CameraFrame
  <2>2. PICK len \in FrameLens(f) : \E b \in FrameBayers(f) :
            Push(NewMsg("frame", "none", FALSE, f, len, b))
    BY <2>1
  <2>3. PICK b \in FrameBayers(f) : Push(NewMsg("frame", "none", FALSE, f, len, b))
    BY <2>2
  <2>4. NewMsg("frame", "none", FALSE, f, len, b) \in Msg
    <3>1. f \in StreamTypes /\ len \in Nat /\ b \in Bayers
      BY FrameLensNat DEF FrameBayers, StreamTypes, Bayers
    <3>2. QED
      BY <1>0, <3>1, NewMsgType DEF TypeInv
  <2>5. Sync'
    BY <1>0, <1>1, <2>3, <2>4, PushSync DEF CameraFrame, NewMsg
  <2>6. QED
    BY <1>0, <1>1, <2>5 DEF CameraFrame, IInv, FanOutFollowsOrder
<1>2. CASE Start
  <2>1. PICK flag \in BOOLEAN : Push(NewMsg("ctl", "init", flag, "none", 0, "NA"))
    BY <1>2 DEF Start
  <2>2. NewMsg("ctl", "init", flag, "none", 0, "NA") \in Msg
    BY <1>0, NewMsgType DEF TypeInv, CtlOps, NewMsg, Bayers
  <2>3. Sync'
    BY <1>0, <1>2, <2>1, <2>2, PushSync DEF Start, NewMsg
  <2>4. QED
    BY <1>0, <1>2, <2>3 DEF Start, IInv, FanOutFollowsOrder
<1>3. CASE Control
  <2>1. PICK op \in {"pause", "save", "resume", "cancel"} :
            Push(NewMsg("ctl", op, FALSE, "none", 0, "NA"))
    BY <1>3 DEF Control
  <2>2. NewMsg("ctl", op, FALSE, "none", 0, "NA") \in Msg
    BY <1>0, NewMsgType DEF TypeInv, CtlOps, NewMsg, Bayers
  <2>3. Sync'
    BY <1>0, <1>3, <2>1, <2>2, PushSync DEF Control, NewMsg
  <2>4. QED
    BY <1>0, <1>3, <2>3 DEF Control, IInv, FanOutFollowsOrder
<1>4. CASE Stretch
  <2>1. NewMsg("ctl", "update", FALSE, "none", 0, "NA") \in Msg
    BY <1>0, NewMsgType DEF TypeInv, CtlOps, NewMsg, Bayers
  <2>2. Sync'
    BY <1>0, <1>4, <2>1, PushSync DEF Stretch, NewMsg
  <2>3. QED
    BY <1>0, <1>4, <2>2 DEF Stretch, IInv, FanOutFollowsOrder
<1>5. CASE Shutdown
  <2>1. NewMsg("stop", "none", FALSE, "none", 0, "NA") \in Msg
    BY <1>0, NewMsgType DEF TypeInv, NewMsg, Bayers
  <2>2. Sync'
    BY <1>0, <1>5, <2>1, PushSync DEF Shutdown, NewMsg
  <2>3. QED
    BY <1>0, <1>5, <2>2 DEF Shutdown, IInv, FanOutFollowsOrder
<1>6. CASE VGStop
  <2>1. inq # <<>> /\ inq[1].kind = "stop" /\ Head(inq) = inq[1]
    BY <1>6 DEF VGStop, QueueFront
  <2>2. sess' = SpecAfter(inq[1].pre, inq[1])
    BY <1>0, <1>6, <2>1 DEF VGStop, SpecAfter, HeadInSync, Sync
  <2>3. Sync'
    BY <1>0, <1>6, <2>1, <2>2, PopSync DEF VGStop, QueueRest
  <2>4. QED
    BY <1>0, <1>6, <2>3 DEF VGStop, IInv, FanOutFollowsOrder
<1>7. CASE VGControl
  <2>1. inq # <<>> /\ inq[1].kind = "ctl" /\ Head(inq) = inq[1]
    BY <1>7 DEF VGControl, QueueFront
  <2>2. inq[1] \in Msg /\ inq[1].op \in CtlOps
    BY <1>0, <2>1, ElementOfSeq, EmptySeq, LenProperties DEF TypeInv, TypeOK, CtlWellFormed
  <2>3. sess' = SpecApply(inq[1].pre, inq[1].op, inq[1].saveInputs)
    BY <1>0, <1>7, <2>1, <2>2, ApplyCtlIsSpecApply
       DEF VGControl, QueueFront, HeadInSync, Sync, TypeInv, TypeOK, Msg
  <2>4. sess' = SpecAfter(inq[1].pre, inq[1])
    BY <2>1, <2>3 DEF SpecAfter
  <2>5. Sync'
    BY <1>0, <1>7, <2>1, <2>4, PopSync DEF VGControl, QueueRest
  <2>6. QED
    BY <1>0, <1>7, <2>5 DEF VGControl, IInv, FanOutFollowsOrder
<1>8. CASE VGFrame
  <2>1. inq # <<>> /\ inq[1].kind = "frame" /\ Head(inq) = inq[1]
    BY <1>8 DEF VGFrame, QueueFront
  <2>2. inq[1] \in Msg /\ inq[1].pre = sess
    BY <1>0, <2>1, ElementOfSeq, EmptySeq, LenProperties DEF TypeInv, TypeOK, HeadInSync, Sync
  <2>3. sess' = SpecAfter(inq[1].pre, inq[1])
    BY <1>8, <2>1, <2>2 DEF VGFrame, SpecAfter
  <2>4. Sync'
    BY <1>0, <1>8, <2>1, <2>3, PopSync DEF VGFrame, QueueRest
  <2>5. PICK dec \in DecodeResults :
          LET r == Processed(sess, inq[1], dec)
              routes == IF r.res = "fwd" THEN FanOut(sess) ELSE {}
          IN log' = Append(log, [seq |-> inq[1].seq, pre |-> inq[1].pre, routes |-> routes])
    BY <1>8, <2>1 DEF VGFrame, QueueFront
  <2> DEFINE routes == IF Processed(sess, inq[1], dec).res = "fwd" THEN FanOut(sess) ELSE {}
             e == [seq |-> inq[1].seq, pre |-> inq[1].pre, routes |-> routes]
  <2>6. routes # {} => routes = SpecFanOut(e.pre)
    BY <1>0, <2>2, FanOutIsSpecFanOut DEF TypeInv, TypeOK
  <2>7. log \in Seq([seq : Nat, pre : Sess, routes : SUBSET Outs])
    BY <1>0 DEF TypeInv, TypeOK
  <2>8. FanOutFollowsOrder'
    <3>1. log' = Append(log, e)
      BY <2>5
    <3>2. /\ Len(log') = Len(log) + 1
          /\ \A i \in 1..Len(log) : log'[i] = log[i]
          /\ log'[Len(log) + 1] = e
      BY <2>7, <3>1, AppendProperties
    <3>3. QED
      BY <2>6, <2>7, <3>2 DEF IInv, FanOutFollowsOrder
  <2>9. QED
    BY <1>0, <2>4, <2>8 DEF IInv
<1>9. ASSUME NEW o \in Consumers, Consume(o)
      PROVE  IInv'
  BY <1>0, <1>9 DEF Consume, IInv, Sync, HeadInSync, StampChain, TailInSync, FanOutFollowsOrder
<1>10. CASE UNCHANGED vars
  BY <1>0, <1>10 DEF vars, IInv, Sync, HeadInSync, StampChain, TailInSync, FanOutFollowsOrder
<1>11. QED
  BY <1>1, <1>2, <1>3, <1>4, <1>5, <1>6, <1>7, <1>8, <1>9, <1>10
     DEF Next, VGStep

\* Every frame the dispatcher forwards goes to exactly the outputs the
\* specification's transition table and fan-out rule give for the control
\* messages enqueued before it, in every behaviour and for every value of
\* the constants: the single FIFO input queue is the synchronisation point
\* of start/pause/resume/save/cancel.
THEOREM FanOutFollowsOrderHolds == Spec => []FanOutFollowsOrder
<1>1. Spec => []IInv
  BY IInvInit, IInvNext, PTL DEF Spec
<1>2. QED
  BY <1>1, PTL DEF IInv

=============================================================================
