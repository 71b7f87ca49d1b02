--------------------------- MODULE DriverRegistry ---------------------------
(***************************************************************************)
(* The camera driver registry of camera.cpp: two parallel global vectors, *)
(* driver_names and driver_calls, filled by load_driver from dlopen-ed    *)
(* plugins and read by drivers() and get(id).  Callers serialise these    *)
(* calls under the camera lock (specification, section 5), so each call   *)
(* is one step.                                                            *)
(*                                                                         *)
(* A plugin is identified by its driver name: libols_driver_<n>.so and    *)
(* its factory ols_get_<n>_driver.  refs[n] is the dlopen reference count *)
(* of that library, which dlopen raises and dlclose lowers.  What the     *)
(* plugin does (a missing symbol, a rejected configuration, a null        *)
(* camera) is chosen nondeterministically at each call.                   *)
(***************************************************************************)
EXTENDS Integers, Sequences

CONSTANTS Names, MaxCalls, MaxId

ASSUME DriverRegistryAssumption ==
    /\ MaxCalls \in Nat
    /\ MaxId \in Nat

VARIABLES driver_names, driver_calls, refs, loads, lastGet, ncalls
vars == <<driver_names, driver_calls, refs, loads, lastGet, ncalls>>

\* What a plugin load can run into, in the order load_driver tests it.
LoadOutcomes == {"noopen", "nosym", "nocfgsym", "reject", "ok"}

\* Results of get: the name of the driver whose factory ran, or an error.
GetResults == Names \cup {"invalid", "nullcam", "out_of_range", "none"}

Registered == {driver_names[i] : i \in 1..Len(driver_names)}

-----------------------------------------------------------------------------
\* Seeded fault: the factory is appended at the back instead of the front.
InsertCallsBack(n) ==
    /\ driver_calls' = Append(driver_calls, n)
    /\ driver_names' = <<n>> \o driver_names

\* Seeded fault: both vectors grow at the back.
InsertBothBack(n) ==
    /\ driver_calls' = Append(driver_calls, n)
    /\ driver_names' = Append(driver_names, n)

\* Lines 42-43: insert the factory and the name at position 0.
Insert(n) ==
    /\ driver_calls' = <<n>> \o driver_calls
    /\ driver_names' = <<n>> \o driver_names

\* Seeded fault: the already-loaded test of line 19 is missing.
IsLoadedNever(n) == FALSE

\* Line 19: the name is already in driver_names.
IsLoaded(n) == n \in Registered

\* Seeded fault: a missing symbol's path closes the library twice.
RefsAfterDoubleClose(n, out) ==
    IF out \in {"reject", "ok"} THEN refs[n] + 1
    ELSE IF out \in {"nosym", "nocfgsym"} THEN refs[n] - 1 ELSE refs[n]

\* Seeded fault: the library is closed after registering its factory.
RefsAfterClosing(n, out) ==
    IF out = "reject" THEN refs[n] + 1 ELSE refs[n]

\* dlopen's reference count after load_driver: raised by dlopen (line
\* 23) unless it failed, lowered again by dlclose on a missing symbol
\* (lines 28, 34), but not when the configuration is rejected (line 39).
RefsAfter(n, out) ==
    IF out \in {"reject", "ok"} THEN refs[n] + 1 ELSE refs[n]

\* load_driver(name, base_path, opt).
LoadDriver(n) ==
    /\ ncalls < MaxCalls
    /\ ncalls' = ncalls + 1
    /\ UNCHANGED lastGet
    /\ \/ /\ IsLoaded(n)
          /\ UNCHANGED <<driver_names, driver_calls, refs, loads>>
       \/ /\ ~IsLoaded(n)
          /\ \E opt \in BOOLEAN :
             \E out \in IF opt THEN LoadOutcomes ELSE LoadOutcomes \ {"nocfgsym", "reject"} :
                /\ refs' = [refs EXCEPT ![n] = RefsAfter(n, out)]
                /\ IF out = "ok"
                      THEN /\ Insert(n)
                           /\ loads' = Append(loads, n)
                      ELSE UNCHANGED <<driver_names, driver_calls, loads>>

\* Seeded fault: the id is compared as a signed int, so a negative id
\* reaches driver_calls.at(id), which throws std::out_of_range.
IdRejectedSigned(id) == id >= Len(driver_calls)

\* Line 53: (unsigned)id >= driver_calls.size().  The cast maps a negative
\* id to 2^32 + id, which is at least 2^31 and so above any size the
\* registry reaches.
IdRejected(id) == id < 0 \/ id >= Len(driver_calls)

\* driver_calls.at(id): the factory, or std::out_of_range thrown.
At(id) ==
    IF id \in 0..(Len(driver_calls) - 1) THEN driver_calls[id + 1] ELSE "out_of_range"

\* get(id, external_option): the range test, the factory call through
\* driver_calls.at(id), and the null test of the camera it returns.
Get(id) ==
    /\ ncalls < MaxCalls
    /\ ncalls' = ncalls + 1
    /\ \/ /\ IdRejected(id)
          /\ lastGet' = [id |-> id, res |-> "invalid"]
       \/ /\ ~IdRejected(id)
          /\ \E made \in BOOLEAN :
                lastGet' = [id |-> id,
                            res |-> IF At(id) = "out_of_range" \/ made THEN At(id)
                                    ELSE "nullcam"]
    /\ UNCHANGED <<driver_names, driver_calls, refs, loads>>

Init ==
    /\ driver_names = <<>>
    /\ driver_calls = <<>>
    /\ refs = [n \in Names |-> 0]
    /\ loads = <<>>
    /\ lastGet = [id |-> 0, res |-> "none"]
    /\ ncalls = 0

Next ==
    \/ \E n \in Names : LoadDriver(n)
    \/ \E id \in -1..MaxId : Get(id)

Spec == Init /\ [][Next]_vars

-----------------------------------------------------------------------------
TypeOK ==
    /\ driver_names \in Seq(Names)
    /\ driver_calls \in Seq(Names)
    /\ refs \in [Names -> Nat]
    /\ loads \in Seq(Names)
    /\ lastGet \in [id : Int, res : GetResults]
    /\ ncalls \in Nat

\* Every id names one driver, once: the two vectors stay parallel (id i's
\* factory is the one loaded with name i), no name is registered twice
\* however often load_driver is called, and the library behind every
\* registered factory is still loaded, so calling it through get is safe.
RegistryConsistent ==
    /\ Len(driver_calls) = Len(driver_names)
    /\ \A i \in 1..Len(driver_names) :
          /\ driver_calls[i] = driver_names[i]
          /\ refs[driver_names[i]] >= 1
    /\ \A i, j \in 1..Len(driver_names) : i # j => driver_names[i] # driver_names[j]

\* Ids follow the load history, most recent first (specification, section
\* 3 and the example of section 8): id 0 is the last driver newly loaded,
\* and a reload leaves the order and the length alone.
IdsFollowLoadOrder ==
    /\ Len(driver_names) = Len(loads)
    /\ \A i \in 1..Len(loads) : driver_names[i] = loads[Len(loads) - i + 1]

\* A get runs the factory at exactly the requested id of drivers(), and
\* every id outside 0..size-1, negative ones included, fails with the
\* registry's own CamError before any factory runs.
GetRunsListedFactory ==
    [][lastGet' # lastGet =>
         IF lastGet'.id \in 0..(Len(driver_names) - 1)
            THEN lastGet'.res \in {driver_names[lastGet'.id + 1], "nullcam"}
            ELSE lastGet'.res = "invalid"]_vars

\* A library whose load failed keeps no dlopen reference: only registered
\* drivers' libraries stay loaded.
FailedLoadReleased ==
    \A n \in Names : n \notin Registered => refs[n] = 0
=============================================================================
