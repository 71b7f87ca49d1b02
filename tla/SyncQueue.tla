----------------------------- MODULE SyncQueue -----------------------------
(***************************************************************************)
(* sync_queue at the level of its mutex and condition variable.           *)
(*                                                                         *)
(* Every critical section of the class (push under the guard, and one     *)
(* pass of pop's loop body under the guard) is one step: the lock makes   *)
(* them mutually exclusive, so the lock itself needs no variable.  What   *)
(* remains visible is the condition variable: cond_.wait releases the     *)
(* lock and sleeps in one step, notify_one wakes at most one sleeper, a   *)
(* woken thread re-runs the loop test, and std::condition_variable may    *)
(* also wake a sleeper spuriously.                                         *)
(*                                                                         *)
(* pc[c] of a consumer thread that calls pop in a loop:                   *)
(*   "call"  - about to enter pop (or between two pops),                  *)
(*   "wait"  - blocked in cond_.wait,                                     *)
(*   "woken" - notified or spuriously woken, about to re-test data_.      *)
(***************************************************************************)
EXTENDS Naturals, Sequences, FiniteSets

CONSTANTS Producers, Consumers, MaxPush

ASSUME SyncQueueAssumption ==
    /\ IsFiniteSet(Consumers)
    /\ MaxPush \in Nat

VARIABLES data, got, sent, pc
vars == <<data, got, sent, pc>>

Item == Producers \X Nat

Waiters == {c \in Consumers : pc[c] = "wait"}
Woken == {c \in Consumers : pc[c] = "woken"}

\* Seeded fault: push appends but does not notify.
PushNoNotify(p) ==
    /\ sent[p] < MaxPush
    /\ data' = Append(data, <<p, sent[p] + 1>>)
    /\ sent' = [sent EXCEPT ![p] = @ + 1]
    /\ UNCHANGED <<got, pc>>

\* push: append under the guard, then cond_.notify_one(): one sleeper, if
\* there is any, becomes runnable.
Push(p) ==
    /\ sent[p] < MaxPush
    /\ data' = Append(data, <<p, sent[p] + 1>>)
    /\ sent' = [sent EXCEPT ![p] = @ + 1]
    /\ \/ Waiters = {} /\ UNCHANGED pc
       \/ \E c \in Waiters : pc' = [pc EXCEPT ![c] = "woken"]
    /\ UNCHANGED got

\* pop, loop test true: data_ is empty, cond_.wait releases the guard and
\* sleeps.
PopWait(c) ==
    /\ pc[c] \in {"call", "woken"}
    /\ data = <<>>
    /\ pc' = [pc EXCEPT ![c] = "wait"]
    /\ UNCHANGED <<data, got, sent>>

\* Seeded fault: `if' for `while': a woken thread takes the front without
\* re-testing; front() of an empty deque yields whatever the memory holds
\* (here a value no producer pushed) and pop_front() is taken as a no-op.
PopTakeNoRecheck(c) ==
    /\ \/ pc[c] = "call" /\ data # <<>>
       \/ pc[c] = "woken"
    /\ got' = [got EXCEPT ![c] = Append(@, IF data = <<>> THEN <<c, 0>> ELSE Head(data))]
    /\ data' = IF data = <<>> THEN data ELSE Tail(data)
    /\ pc' = [pc EXCEPT ![c] = "call"]
    /\ UNCHANGED sent

\* Seeded fault: the back of the deque is taken instead of its front.
PopTakeBack(c) ==
    /\ pc[c] \in {"call", "woken"}
    /\ data # <<>>
    /\ got' = [got EXCEPT ![c] = Append(@, data[Len(data)])]
    /\ data' = SubSeq(data, 1, Len(data) - 1)
    /\ pc' = [pc EXCEPT ![c] = "call"]
    /\ UNCHANGED sent

\* pop, loop test false: take front(), pop_front(), return; the caller
\* loops back into pop.
PopTake(c) ==
    /\ pc[c] \in {"call", "woken"}
    /\ data # <<>>
    /\ got' = [got EXCEPT ![c] = Append(@, Head(data))]
    /\ data' = Tail(data)
    /\ pc' = [pc EXCEPT ![c] = "call"]
    /\ UNCHANGED sent

\* A spurious wake-up of cond_.wait.
Spurious(c) ==
    /\ pc[c] = "wait"
    /\ pc' = [pc EXCEPT ![c] = "woken"]
    /\ UNCHANGED <<data, got, sent>>

Init ==
    /\ data = <<>>
    /\ got = [c \in Consumers |-> <<>>]
    /\ sent = [p \in Producers |-> 0]
    /\ pc = [c \in Consumers |-> "call"]

Next ==
    \/ \E p \in Producers : Push(p)
    \/ \E c \in Consumers : PopWait(c) \/ PopTake(c) \/ Spurious(c)

\* Each consumer is a dedicated thread: once runnable it gets the guard
\* (held by others only for a bounded step) and runs its pass of the loop.
\* Spurious wake-ups and producers are not obliged to happen.
Fairness == \A c \in Consumers : WF_vars(PopWait(c) \/ PopTake(c))

Spec == Init /\ [][Next]_vars /\ Fairness

-----------------------------------------------------------------------------
TypeOK ==
    /\ data \in Seq(Item)
    /\ got \in [Consumers -> Seq(Item)]
    /\ sent \in [Producers -> Nat]
    /\ pc \in [Consumers -> {"call", "wait", "woken"}]

\* No lost wake-up: while any consumer sleeps in cond_.wait, every queued
\* message has a distinct woken consumer on its way to take it.  push's
\* notify_one under the guard, and pop's re-test before sleeping, are what
\* keep a message from sitting in data_ while every consumer sleeps.
NoLostWakeup ==
    Waiters # {} => Len(data) <= Cardinality(Woken)

\* The condition-variable implementation behaves as the atomic queue: the
\* sleeps and wake-ups are stutter steps, and the weak fairness of the
\* abstract Take (no message stranded) follows from the threads' fairness.
AQ == INSTANCE QueueSpec WITH q <- data, got <- got, sent <- sent

RefinesQueueSpec == AQ!QSpec
=============================================================================
