----------------------------- MODULE QueueSpec -----------------------------
(***************************************************************************)
(* What sync_queue promises (specification, section 4.1): push appends to *)
(* the tail and never blocks; pop removes and returns the head, and a     *)
(* message that is in the queue is eventually taken by some consumer that *)
(* keeps calling pop.  Both are single atomic steps here.                 *)
(*                                                                         *)
(* A message is <<p, k>>: the k-th push of producer p, so that every      *)
(* message is distinct and what a consumer got can be traced to its push. *)
(***************************************************************************)
EXTENDS Naturals, Sequences

CONSTANTS Producers, Consumers, MaxPush

VARIABLES q, got, sent
qvars == <<q, got, sent>>

Item == Producers \X Nat

QInit ==
    /\ q = <<>>
    /\ got = [c \in Consumers |-> <<>>]
    /\ sent = [p \in Producers |-> 0]

Put(p) ==
    /\ sent[p] < MaxPush
    /\ q' = Append(q, <<p, sent[p] + 1>>)
    /\ sent' = [sent EXCEPT ![p] = @ + 1]
    /\ UNCHANGED got

Take(c) ==
    /\ q # <<>>
    /\ got' = [got EXCEPT ![c] = Append(@, Head(q))]
    /\ q' = Tail(q)
    /\ UNCHANGED sent

QNext == (\E p \in Producers : Put(p)) \/ (\E c \in Consumers : Take(c))

\* The safety part: only these steps, from these initial states.
QSafety == QInit /\ [][QNext]_qvars

\* Some consumer takes a waiting message: the queue never strands one.
QSpec == QInit /\ [][QNext]_qvars /\ WF_qvars(\E c \in Consumers : Take(c))
=============================================================================
