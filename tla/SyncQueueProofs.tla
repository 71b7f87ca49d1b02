-------------------------- MODULE SyncQueueProofs --------------------------
(***************************************************************************)
(* Proofs about sync_queue's condition-variable protocol: typing, the no- *)
(* lost-wake-up invariant, and the safety part of its refinement of the   *)
(* atomic queue QueueSpec.                                                 *)
(***************************************************************************)
EXTENDS SyncQueue, FiniteSetTheorems, TLAPS

USE SyncQueueAssumption

IInv == TypeOK /\ NoLostWakeup

\* The consumers in a given state of pc, after pc is changed at one thread.
LEMMA StateSetUpdate ==
    ASSUME NEW S, NEW f, NEW c \in S, NEW v, NEW w, DOMAIN f = S
    PROVE  {x \in S : [f EXCEPT ![c] = v][x] = w} =
              IF v = w THEN {x \in S : f[x] = w} \cup {c}
                       ELSE {x \in S : f[x] = w} \ {c}
BY Zenon

\* The woken consumers form a finite set.
LEMMA WokenFinite ==
    ASSUME NEW f
    PROVE  IsFiniteSet({x \in Consumers : f[x] = "woken"})
           /\ Cardinality({x \in Consumers : f[x] = "woken"}) \in Nat
BY FS_Subset, FS_CardinalityType

LEMMA TypeInit == Init => TypeOK
BY DEF Init, TypeOK

LEMMA TypeNext == TypeOK /\ [Next]_vars => TypeOK'
<1> SUFFICES ASSUME TypeOK, [Next]_vars PROVE TypeOK'
    OBVIOUS
<1>1. ASSUME NEW p \in Producers, Push(p) PROVE TypeOK'
    <2>1. sent[p] + 1 \in Nat
        BY DEF TypeOK
    <2>2. data' \in Seq(Item)
        BY <1>1, <2>1 DEF Push, TypeOK, Item
    <2>3. pc' \in [Consumers -> {"call", "wait", "woken"}]
        BY <1>1 DEF Push, TypeOK, Waiters
    <2> QED BY <1>1, <2>2, <2>3 DEF Push, TypeOK
<1>2. ASSUME NEW c \in Consumers, PopWait(c) PROVE TypeOK'
    BY <1>2 DEF PopWait, TypeOK
<1>3. ASSUME NEW c \in Consumers, PopTake(c) PROVE TypeOK'
    <2>1. Head(data) \in Item /\ Tail(data) \in Seq(Item)
        BY <1>3 DEF PopTake, TypeOK
    <2> QED BY <1>3, <2>1 DEF PopTake, TypeOK
<1>4. ASSUME NEW c \in Consumers, Spurious(c) PROVE TypeOK'
    BY <1>4 DEF Spurious, TypeOK
<1>5. CASE UNCHANGED vars
    BY <1>5 DEF vars, TypeOK
<1> QED BY <1>1, <1>2, <1>3, <1>4, <1>5 DEF Next

\* Typing of the whole state.
THEOREM TypeCorrect == Spec => []TypeOK
BY TypeInit, TypeNext, PTL DEF Spec

LEMMA IInvInit == Init => IInv
<1> SUFFICES ASSUME Init PROVE IInv
    OBVIOUS
<1>1. Waiters = {}
    BY DEF Init, Waiters
<1> QED BY TypeInit, <1>1 DEF IInv, NoLostWakeup

LEMMA IInvNext == IInv /\ [Next]_vars => IInv'
<1> SUFFICES ASSUME IInv, [Next]_vars PROVE NoLostWakeup'
    BY TypeNext DEF IInv
<1> USE DEF NoLostWakeup
<1>0. /\ TypeOK
      /\ IsFiniteSet(Woken) /\ Cardinality(Woken) \in Nat
      /\ DOMAIN pc = Consumers
    BY WokenFinite DEF IInv, TypeOK, Woken
<1>1. ASSUME NEW p \in Producers, Push(p) PROVE NoLostWakeup'
    <2>1. Len(data') = Len(data) + 1
        BY <1>0, <1>1 DEF Push, TypeOK
    <2>2. CASE Waiters = {} /\ UNCHANGED pc
        BY <2>2 DEF Waiters
    <2>3. CASE \E c \in Waiters : pc' = [pc EXCEPT ![c] = "woken"]
        <3>1. PICK c \in Waiters : pc' = [pc EXCEPT ![c] = "woken"]
            BY <2>3
        <3>2. c \notin Woken /\ c \in Consumers
            BY DEF Waiters, Woken
        <3>3. Woken' = Woken \cup {c}
            BY <1>0, <3>1, <3>2, StateSetUpdate DEF Woken
        <3>4. Cardinality(Woken') = Cardinality(Woken) + 1
            BY <1>0, <3>2, <3>3, FS_AddElement
        <3>5. Len(data) <= Cardinality(Woken)
            BY <3>1 DEF IInv
        <3> QED BY <1>0, <2>1, <3>4, <3>5
    <2> QED BY <1>1, <2>2, <2>3 DEF Push
<1>2. ASSUME NEW c \in Consumers, PopWait(c) PROVE NoLostWakeup'
    <2>1. Len(data') = 0
        BY <1>2 DEF PopWait
    <2>2. Woken' = Woken \ {c}
        BY <1>0, <1>2, StateSetUpdate DEF PopWait, Woken
    <2>3. Cardinality(Woken') \in Nat
        BY <1>0, <2>2, FS_RemoveElement, FS_CardinalityType
    <2> QED BY <2>1, <2>3
<1>3. ASSUME NEW c \in Consumers, PopTake(c) PROVE NoLostWakeup'
    <2>1. Len(data') = Len(data) - 1 /\ Len(data) > 0
        BY <1>0, <1>3 DEF PopTake, TypeOK
    <2>2. Waiters' = Waiters
        BY <1>0, <1>3, StateSetUpdate DEF PopTake, Waiters
    <2>3. Woken' = Woken \ {c}
        BY <1>0, <1>3, StateSetUpdate DEF PopTake, Woken
    <2>4. Cardinality(Woken \ {c}) \in Nat
          /\ Cardinality(Woken \ {c}) >= Cardinality(Woken) - 1
        <3>1. IsFiniteSet(Woken \ {c})
            BY <1>0, FS_RemoveElement
        <3>2. Cardinality(Woken \ {c}) \in Nat
            BY <3>1, FS_CardinalityType
        <3>3. CASE c \in Woken
            <4>1. Cardinality(Woken \ {c}) = Cardinality(Woken) - 1
                BY <1>0, <3>3, FS_RemoveElement
            <4> QED BY <1>0, <3>2, <4>1
        <3>4. CASE c \notin Woken
            <4>1. Woken \ {c} = Woken
                BY <3>4
            <4> QED BY <1>0, <4>1
        <3> QED BY <3>2, <3>3, <3>4
    <2>5. Waiters # {} => Len(data) <= Cardinality(Woken)
        BY DEF IInv
    <2> QED BY <1>0, <2>1, <2>2, <2>3, <2>4, <2>5
<1>4. ASSUME NEW c \in Consumers, Spurious(c) PROVE NoLostWakeup'
    <2>1. Waiters' = Waiters \ {c}
        BY <1>0, <1>4, StateSetUpdate DEF Spurious, Waiters
    <2>2. Woken' = Woken \cup {c}
        BY <1>0, <1>4, StateSetUpdate DEF Spurious, Woken
    <2>3. Cardinality(Woken \cup {c}) \in Nat
          /\ Cardinality(Woken \cup {c}) >= Cardinality(Woken)
        <3>1. IsFiniteSet(Woken \cup {c})
            BY <1>0, FS_AddElement
        <3>2. Cardinality(Woken \cup {c}) \in Nat
            BY <3>1, FS_CardinalityType
        <3>3. CASE c \in Woken
            BY <1>0, <3>2, <3>3, FS_AddElement
        <3>4. CASE c \notin Woken
            <4>1. Cardinality(Woken \cup {c}) = Cardinality(Woken) + 1
                BY <1>0, <3>4, FS_AddElement
            <4> QED BY <1>0, <3>2, <4>1
        <3> QED BY <3>2, <3>3, <3>4
    <2>4. Len(data') = Len(data)
        BY <1>4 DEF Spurious
    <2>5. Waiters # {} => Len(data) <= Cardinality(Woken)
        BY DEF IInv
    <2> QED BY <1>0, <2>1, <2>2, <2>3, <2>4, <2>5
<1>5. CASE UNCHANGED vars
    BY <1>5 DEF vars, IInv, Waiters, Woken
<1> QED BY <1>1, <1>2, <1>3, <1>4, <1>5 DEF Next

\* No message stays queued while every consumer sleeps: push's notify_one
\* and pop's re-test under the guard keep a woken thread per queued
\* message whenever one sleeps.
THEOREM NoLostWakeupHolds == Spec => []NoLostWakeup
<1>1. Init => IInv
    BY IInvInit
<1>2. IInv /\ [Next]_vars => IInv'
    BY IInvNext
<1>3. IInv => NoLostWakeup
    BY DEF IInv
<1> QED BY <1>1, <1>2, <1>3, PTL DEF Spec

-----------------------------------------------------------------------------
\* Each step of the implementation is a step of the atomic queue or leaves
\* its variables alone.
LEMMA RefineStep == TypeOK /\ [Next]_vars => [AQ!QNext]_AQ!qvars
<1> SUFFICES ASSUME TypeOK, [Next]_vars PROVE [AQ!QNext]_AQ!qvars
    OBVIOUS
<1>1. ASSUME NEW p \in Producers, Push(p) PROVE AQ!Put(p)
    BY <1>1 DEF Push, AQ!Put
<1>2. ASSUME NEW c \in Consumers, PopTake(c) PROVE AQ!Take(c)
    BY <1>2 DEF PopTake, AQ!Take
<1>3. ASSUME NEW c \in Consumers, PopWait(c) \/ Spurious(c)
      PROVE UNCHANGED AQ!qvars
    BY <1>3 DEF PopWait, Spurious, AQ!qvars
<1>4. CASE UNCHANGED vars
    BY <1>4 DEF vars, AQ!qvars
<1> QED BY <1>1, <1>2, <1>3, <1>4 DEF Next, AQ!QNext

\* sync_queue's mutex and condition-variable protocol implements the atomic
\* FIFO queue of section 4.1 (safety part; the fairness part is checked by
\* TLC as RefinesQueueSpec).
THEOREM RefinesQueueSafety == Spec => AQ!QSafety
<1>1. Init => AQ!QInit
    BY DEF Init, AQ!QInit
<1>2. TypeOK /\ [Next]_vars => [AQ!QNext]_AQ!qvars
    BY RefineStep
<1> QED BY <1>1, <1>2, TypeCorrect, PTL DEF Spec, AQ!QSafety
=============================================================================
