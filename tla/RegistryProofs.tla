--------------------------- MODULE RegistryProofs ---------------------------
(***************************************************************************)
(* Proofs about the camera driver registry: typing, the consistency of    *)
(* the two vectors, the load-order numbering of ids, and what get runs.   *)
(***************************************************************************)
EXTENDS DriverRegistry, SequenceTheorems, TLAPS

USE DriverRegistryAssumption

IInv == TypeOK /\ RegistryConsistent /\ IdsFollowLoadOrder

\* Inserting at position 0: the element comes first, the rest shifts by one.
LEMMA ConsProperties ==
    ASSUME NEW S, NEW s \in Seq(S), NEW x \in S
    PROVE  /\ <<x>> \o s \in Seq(S)
           /\ Len(<<x>> \o s) = Len(s) + 1
           /\ (<<x>> \o s)[1] = x
           /\ \A i \in 2..(Len(s) + 1) : (<<x>> \o s)[i] = s[i - 1]
<1>1. <<x>> \in Seq(S) /\ Len(<<x>>) = 1
    OBVIOUS
<1> QED BY <1>1, ConcatProperties

LEMMA IInvInit == Init => IInv
BY DEF Init, IInv, TypeOK, RegistryConsistent, IdsFollowLoadOrder, GetResults

\* A load that inserts n, from a state where n is not registered.
LEMMA InsertPreserves ==
    ASSUME IInv, NEW n \in Names, ~IsLoaded(n), Insert(n),
           loads' = Append(loads, n),
           refs' = [refs EXCEPT ![n] = refs[n] + 1]
    PROVE  /\ driver_names' \in Seq(Names) /\ driver_calls' \in Seq(Names)
           /\ refs' \in [Names -> Nat] /\ loads' \in Seq(Names)
           /\ RegistryConsistent'
           /\ IdsFollowLoadOrder'
<1>0. /\ driver_names \in Seq(Names) /\ driver_calls \in Seq(Names)
      /\ loads \in Seq(Names) /\ refs \in [Names -> Nat]
      /\ Len(driver_calls) = Len(driver_names) /\ Len(loads) = Len(driver_names)
    BY DEF IInv, TypeOK, RegistryConsistent, IdsFollowLoadOrder
<1>1. /\ driver_names' \in Seq(Names) /\ Len(driver_names') = Len(driver_names) + 1
      /\ driver_names'[1] = n
      /\ \A i \in 2..(Len(driver_names) + 1) : driver_names'[i] = driver_names[i - 1]
    BY <1>0, ConsProperties DEF Insert
<1>2. /\ driver_calls' \in Seq(Names) /\ Len(driver_calls') = Len(driver_names) + 1
      /\ driver_calls'[1] = n
      /\ \A i \in 2..(Len(driver_names) + 1) : driver_calls'[i] = driver_calls[i - 1]
    BY <1>0, ConsProperties DEF Insert
<1>3. /\ loads' \in Seq(Names) /\ Len(loads') = Len(driver_names) + 1
      /\ loads'[Len(driver_names) + 1] = n
      /\ \A i \in 1..Len(driver_names) : loads'[i] = loads[i]
    BY <1>0, AppendProperties
<1>4. \A i \in 1..Len(driver_names) : driver_names[i] # n
    BY DEF IsLoaded, Registered
<1>5. refs' \in [Names -> Nat] /\ refs'[n] >= 1
      /\ \A m \in Names \ {n} : refs'[m] = refs[m]
    BY <1>0
<1>6. /\ \A i \in 1..Len(driver_names) : driver_calls[i] = driver_names[i]
      /\ \A i \in 1..Len(driver_names) : refs[driver_names[i]] >= 1
      /\ \A i, j \in 1..Len(driver_names) : i # j => driver_names[i] # driver_names[j]
      /\ \A i \in 1..Len(loads) : driver_names[i] = loads[Len(loads) - i + 1]
    BY DEF IInv, RegistryConsistent, IdsFollowLoadOrder
<1>7. ASSUME NEW i \in 2..(Len(driver_names) + 1)
      PROVE  /\ i - 1 \in 1..Len(driver_names)
             /\ driver_names'[i] = driver_names[i - 1]
             /\ driver_calls'[i] = driver_calls[i - 1]
             /\ driver_names[i - 1] \in Names \ {n}
    <2>1. Len(driver_names) \in Nat
        BY <1>0
    <2>2. i - 1 \in 1..Len(driver_names)
        BY <2>1
    <2>3. driver_names[i - 1] \in Names
        BY <1>0, <2>2, ElementOfSeq
    <2> QED BY <1>1, <1>2, <1>4, <2>2, <2>3
<1>8. \A i \in 1..(Len(driver_names) + 1) : driver_calls'[i] = driver_names'[i]
    <2> SUFFICES ASSUME NEW i \in 1..(Len(driver_names) + 1)
                 PROVE driver_calls'[i] = driver_names'[i]
        OBVIOUS
    <2>1. CASE i = 1
        BY <1>1, <1>2, <2>1
    <2>2. CASE i # 1
        BY <1>6, <1>7, <2>2
    <2> QED BY <2>1, <2>2
<1>9. \A i \in 1..(Len(driver_names) + 1) : refs'[driver_names'[i]] >= 1
    <2> SUFFICES ASSUME NEW i \in 1..(Len(driver_names) + 1)
                 PROVE refs'[driver_names'[i]] >= 1
        OBVIOUS
    <2>1. CASE i = 1
        BY <1>1, <1>5, <2>1
    <2>2. CASE i # 1
        BY <1>5, <1>6, <1>7, <2>2
    <2> QED BY <2>1, <2>2
<1>10. \A i, j \in 1..(Len(driver_names) + 1) : i # j => driver_names'[i] # driver_names'[j]
    <2> SUFFICES ASSUME NEW i \in 1..(Len(driver_names) + 1),
                        NEW j \in 1..(Len(driver_names) + 1), i # j
                 PROVE driver_names'[i] # driver_names'[j]
        OBVIOUS
    <2>1. CASE i = 1
        BY <1>1, <1>7, <2>1
    <2>2. CASE j = 1
        BY <1>1, <1>7, <2>2
    <2>3. CASE i # 1 /\ j # 1
        <3>1. driver_names[i - 1] # driver_names[j - 1]
            BY <1>6, <1>7, <2>3
        <3> QED BY <1>7, <2>3, <3>1
    <2> QED BY <2>1, <2>2, <2>3
<1>11. \A i \in 1..Len(loads') : driver_names'[i] = loads'[Len(loads') - i + 1]
    <2> SUFFICES ASSUME NEW i \in 1..(Len(driver_names) + 1)
                 PROVE driver_names'[i] = loads'[Len(driver_names) + 1 - i + 1]
        BY <1>3
    <2>1. CASE i = 1
        BY <1>1, <1>3, <2>1
    <2>2. CASE i # 1
        <3>0. i \in 2..(Len(driver_names) + 1) /\ Len(driver_names) \in Nat
            BY <1>0, <2>2
        <3>1. driver_names'[i] = loads[Len(driver_names) - (i - 1) + 1]
            <4>1. driver_names'[i] = driver_names[i - 1] /\ i - 1 \in 1..Len(driver_names)
                BY <1>7, <3>0
            <4>2. driver_names[i - 1] = loads[Len(loads) - (i - 1) + 1]
                BY <1>6, <4>1, <1>0
            <4> QED BY <1>0, <4>1, <4>2
        <3>2. Len(driver_names) - (i - 1) + 1 \in 1..Len(driver_names)
            BY <1>7, <2>2
        <3> QED BY <1>3, <3>1, <3>2
    <2> QED BY <2>1, <2>2
<1> QED BY <1>1, <1>2, <1>3, <1>5, <1>8, <1>9, <1>10, <1>11
        DEF RegistryConsistent, IdsFollowLoadOrder

LEMMA IInvNext == IInv /\ [Next]_vars => IInv'
<1> SUFFICES ASSUME IInv, [Next]_vars PROVE IInv'
    OBVIOUS
<1>0. TypeOK
    BY DEF IInv
<1>1. ASSUME NEW n \in Names, LoadDriver(n) PROVE IInv'
    <2>0. ncalls' \in Nat /\ lastGet' = lastGet
        BY <1>0, <1>1 DEF LoadDriver, TypeOK
    <2>1. CASE IsLoaded(n) /\ UNCHANGED <<driver_names, driver_calls, refs, loads>>
        BY <2>0, <2>1 DEF IInv, TypeOK, RegistryConsistent, IdsFollowLoadOrder
    <2>2. CASE /\ ~IsLoaded(n)
               /\ \E opt \in BOOLEAN :
                  \E out \in IF opt THEN LoadOutcomes ELSE LoadOutcomes \ {"nocfgsym", "reject"} :
                     /\ refs' = [refs EXCEPT ![n] = RefsAfter(n, out)]
                     /\ IF out = "ok"
                           THEN /\ Insert(n)
                                /\ loads' = Append(loads, n)
                           ELSE UNCHANGED <<driver_names, driver_calls, loads>>
        <3>1. PICK out \in LoadOutcomes :
                 /\ refs' = [refs EXCEPT ![n] = RefsAfter(n, out)]
                 /\ IF out = "ok"
                       THEN /\ Insert(n)
                            /\ loads' = Append(loads, n)
                       ELSE UNCHANGED <<driver_names, driver_calls, loads>>
            BY <2>2
        <3>2. CASE out = "ok"
            <4>1. refs' = [refs EXCEPT ![n] = refs[n] + 1]
                BY <3>1, <3>2 DEF RefsAfter
            <4>2. /\ driver_names' \in Seq(Names) /\ driver_calls' \in Seq(Names)
                  /\ refs' \in [Names -> Nat] /\ loads' \in Seq(Names)
                  /\ RegistryConsistent' /\ IdsFollowLoadOrder'
                BY <2>2, <3>1, <3>2, <4>1, InsertPreserves
            <4> QED BY <2>0, <4>2 DEF IInv, TypeOK
        <3>3. CASE out # "ok"
            <4>1. UNCHANGED <<driver_names, driver_calls, loads>>
                BY <3>1, <3>3
            <4>2. refs' \in [Names -> Nat]
                BY <1>0, <3>1 DEF TypeOK, RefsAfter
            <4>3. \A i \in 1..Len(driver_names) : driver_names[i] # n
                BY <2>2 DEF IsLoaded, Registered
            <4>4. \A i \in 1..Len(driver_names) : refs'[driver_names[i]] = refs[driver_names[i]]
                BY <1>0, <3>1, <4>3 DEF TypeOK
            <4> QED BY <2>0, <4>1, <4>2, <4>4
                    DEF IInv, TypeOK, RegistryConsistent, IdsFollowLoadOrder
        <3> QED BY <3>2, <3>3
    <2> QED BY <1>1, <2>1, <2>2 DEF LoadDriver
<1>2. ASSUME NEW id \in -1..MaxId, Get(id) PROVE IInv'
    <2>1. lastGet' \in [id : Int, res : GetResults]
        <3>1. At(id) \in GetResults
            BY DEF At, IInv, TypeOK, GetResults
        <3> QED BY <1>2, <3>1 DEF Get, GetResults
    <2> QED BY <1>2, <2>1 DEF Get, IInv, TypeOK, RegistryConsistent, IdsFollowLoadOrder
<1>3. CASE UNCHANGED vars
    BY <1>3 DEF vars, IInv, TypeOK, RegistryConsistent, IdsFollowLoadOrder, Registered
<1> QED BY <1>1, <1>2, <1>3 DEF Next

\* One step of get, from a consistent registry.
LEMMA GetStep ==
    ASSUME IInv, [Next]_vars
    PROVE  lastGet' # lastGet =>
              IF lastGet'.id \in 0..(Len(driver_names) - 1)
                 THEN lastGet'.res \in {driver_names[lastGet'.id + 1], "nullcam"}
                 ELSE lastGet'.res = "invalid"
<1> SUFFICES ASSUME lastGet' # lastGet
             PROVE  IF lastGet'.id \in 0..(Len(driver_names) - 1)
                       THEN lastGet'.res \in {driver_names[lastGet'.id + 1], "nullcam"}
                       ELSE lastGet'.res = "invalid"
    OBVIOUS
<1>1. PICK id \in -1..MaxId : Get(id)
    BY DEF Next, LoadDriver, vars
<1>2. Len(driver_calls) = Len(driver_names)
      /\ \A i \in 1..Len(driver_names) : driver_calls[i] = driver_names[i]
    BY DEF IInv, RegistryConsistent
<1>3. CASE IdRejected(id)
    BY <1>1, <1>2, <1>3 DEF Get, IdRejected
<1>4. CASE ~IdRejected(id)
    <2>1. id \in 0..(Len(driver_names) - 1) /\ At(id) = driver_names[id + 1]
        BY <1>2, <1>4 DEF IdRejected, At
    <2> QED BY <1>1, <1>4, <2>1 DEF Get
<1> QED BY <1>3, <1>4

\* get runs the factory listed at the requested id, and rejects every other
\* id, negative ones included, with CamError.
THEOREM GetRunsListedFactoryHolds == Spec => GetRunsListedFactory
<1>1. IInv /\ [Next]_vars =>
        [lastGet' # lastGet =>
            IF lastGet'.id \in 0..(Len(driver_names) - 1)
               THEN lastGet'.res \in {driver_names[lastGet'.id + 1], "nullcam"}
               ELSE lastGet'.res = "invalid"]_vars
    BY GetStep
<1>2. Spec => []IInv
    BY IInvInit, IInvNext, PTL DEF Spec
<1> QED BY <1>1, <1>2, PTL DEF Spec, GetRunsListedFactory

\* Typing of the registry state.
THEOREM TypeCorrect == Spec => []TypeOK
BY IInvInit, IInvNext, PTL DEF Spec, IInv

\* load_driver keeps the two vectors parallel and duplicate-free, and never
\* closes a library whose factory it registered.
THEOREM RegistryConsistentHolds == Spec => []RegistryConsistent
BY IInvInit, IInvNext, PTL DEF Spec, IInv

\* Ids are numbered by load time, most recent first.
THEOREM IdsFollowLoadOrderHolds == Spec => []IdsFollowLoadOrder
BY IInvInit, IInvNext, PTL DEF Spec, IInv
=============================================================================
