# OpenLiveStacker: TLA+ models of the frame pipeline, its queue and its camera registry

This directory holds TLA+ models of OpenLiveStacker's frame pipeline, the TLC
configurations that model-check them, and TLAPS proofs about them. Each
definition is translated from the C++ under `src/`. `PROJECT.json` maps every
modelled definition to the source lines it stands for.

## 1. The system

OpenLiveStacker takes frames from a camera and stacks them live. It is steered
over HTTP. The parts in this repository are:

| Part | Source | Role |
|---|---|---|
| `sync_queue<T>` | `src/include/sync_queue.h` | An unbounded FIFO of messages with a mutex and a condition variable. `push` appends and notifies one waiter. `pop` waits while the queue is empty and then takes the front. |
| `VideoGenerator` | `src/src/video_generator.cpp` | The dispatch stage. It runs on its own thread (`start_generator`) and pops the converter queue. It handles three message kinds: `ShutDownData`, `StackerControl` and `CameraFrame`. |
| `StackerControlApp` | `src/include/stacker_ctl_app.h` | The HTTP handlers `start`, `control`, `stretch` and `status`. Each runs on a web-server thread, keeps `status_`, and pushes `StackerControl` messages to the same queue. |
| `StackerStatsNotification` | `src/include/stacker_ctl_app.h` | Formats stacking statistics and errors as JSON for server-sent events. |
| Camera driver registry | `src/src/camera.cpp` 14-59 | `load_driver`, `drivers` and `get` over two parallel global vectors of dlopen-ed drivers. |
| Format and option taxonomy | `src/src/camera.cpp` 60-186 | String encodings of stream types, Bayer patterns, option ids and option types. |
| `CameraInterface` | `src/include/camera_iface.h` | A pure virtual interface with no implementation here. |
| `OpenLiveStacker` | `src/include/ols.h` | A declaration of the queues and the data flow. |

### How the parts interact

- The camera thread pushes `CameraFrame`s into the converter queue.
- HTTP threads push `StackerControl` messages (init, pause, resume, save,
  cancel, update) into the same queue.
- `stop()` pushes one `ShutDownData` sentinel.
- The `VideoGenerator` pops the queue in FIFO order and keeps a three-flag
  session: `stacking_active_`, `stacking_in_process_` and `debug_active_`.
  - It forwards every control message and the sentinel to the live, stack and
    debug outputs.
  - It runs each frame through `process_frame`. That function has a
    bytes-per-pixel table, a length check and one branch per format (decode,
    convert or wrap). It then fans the frame out:
    - live always;
    - stack while stacking is active;
    - debug while active and debug;
    - plate solver when one is attached and no session is in process.
- Downstream consumer threads (stacker, debug saver, live video, plate solver)
  pop their own queues. They are not in this repository.

### What is hard here

- **Two producers, one queue.** A control request must take effect exactly
  between the frames enqueued before and after it.
- **Per-consumer ordering.** Each consumer must see its messages in input
  order.
- **Shutdown.** The one sentinel must reach every consumer, and nothing may
  follow it.
- **Per-frame failures.** A bad buffer, a decode failure or a missing Bayer
  pattern must not kill the dispatcher or hand a consumer an empty image.
- **`status_` and the session.** The HTTP status must agree with the
  dispatcher's session once the queue is drained.

## 2. Modules

### `Pipeline.tla`

Covers `sync_queue`, `VideoGenerator`, `StackerControlApp`, and the producers
and consumers around them.

**State**

| Variable | Meaning |
|---|---|
| `inq` | The converter queue, a sequence of messages. |
| `sess` | The dispatcher's three flags. |
| `vgpc` | `run`, `done` (after the `break`), or `crashed` (an exception left `run()`, and the process terminates). |
| `out[o]` | The four output queues: live, stack, debug, plate. |
| `done[o]` | Consumer `o` has taken its sentinel. |
| `status` | `StackerControlApp::status_`. |
| `nframes`, `nctl`, `stopSent` | Producer bounds. |
| `nsent`, `tailSess`, `log` | Ghost state for the proofs. Each message is stamped with its position (`seq`) and with the session the specification's transition table gives at its push (`pre`). `log` records the routes of every frame the dispatcher handled. |

**Actions**

| Action | Code |
|---|---|
| `CameraFrame` | The camera callback. |
| `Start` | `StackerControlApp::start`. It sets `status_`, then pushes `ctl_init`. Its error paths throw before any assignment and change nothing. |
| `Control` | `StackerControlApp::control`, with `ControlStatus`. |
| `Stretch` | `StackerControlApp::stretch`. |
| `Shutdown` | `OpenLiveStacker::stop`, one sentinel. |
| `VGStop`, `VGControl`, `VGFrame` | The three branches of `run()`. `VGFrame` covers the whole of `process_frame`: `Processed`, `Kept` and `FanOut`. |
| `Consume(o)` | A consumer thread. |

`Processed` gives one result per branch of `process_frame`:

- the frame is dropped when the bytes-per-pixel table rejects its format or
  the length check fails;
- for mjpeg, `cv::imdecode` has three outcomes (the constant `DecodeResults`):
  an image, an empty matrix, or an exception, which is caught and the frame
  dropped;
- a raw frame with no Bayer pattern ends in an uncaught exception;
- otherwise the frame is forwarded, and the work matrix records which buffer
  it is: none, freshly converted, the camera's source buffer (rgb48,
  `copy=false`), or empty.

Pixel contents, colour conversion and JPEG encoding are abstracted to this.

### `MC_Pipeline.tla`

Gives the model values for the constants:

- four formats, one per branch shape: mjpeg, raw8, rgb48, and `error`;
- Bayer sets with and without `NA`;
- decode outcomes with and without the empty matrix.

### `PipelineProofs.tla`, `PipelineOutputProofs.tla`

Hold the TLAPS proofs for the pipeline (section 4). `PipelineOutputProofs`
extends `PipelineProofs` and reuses its type invariant.

### `sync_queue.h` as written

The header does not compile: `push` calls `push_back` on a `std::queue`, and
`pop` uses an undeclared `queue_`. Both queue models follow the evident intent:
a deque under a lock, where `push` appends and `pop` takes the front.

### `QueueSpec.tla` and `SyncQueue.tla`: the queue at two levels

`QueueSpec` is what a `sync_queue` promises. It is a FIFO `q` that producers
`Put` into and consumers `Take` from. It has weak fairness on delivery: a
message in the queue is eventually taken. Each producer numbers its messages
(`sent`), and each consumer records what it received (`got`).

`SyncQueue` is the code under the lock:

| Code | Model |
|---|---|
| `push`: lock, `push_back`, `notify_one` (lines 11-16) | `Push(p)`: append, and if some consumer sleeps, move one of them (any one) to `woken` |
| `pop`, loop test true: `cond_.wait` (lines 21-22) | `PopWait(c)`: `pc[c]` goes to `wait` |
| spurious return of `cond_.wait` | `Spurious(c)`: `wait` to `woken` |
| `pop`, loop test false: `front`, `pop_front` (lines 21, 24-26) | `PopTake(c)`: takes the head, back to `call` |

Each critical section is one atomic step, so the mutex is implicit. A woken
thread re-acquires the guard and re-tests the loop condition: that is
`PopWait` or `PopTake` from `woken`. The refinement mapping is the identity on
`data`, `got` and `sent` (`AQ == INSTANCE QueueSpec WITH q <- data, ...`).
Sleeping and waking are stutter steps of `QueueSpec`.

Fairness is weak fairness of each consumer's `PopWait \/ PopTake`. A consumer is
a dedicated thread: once it is runnable it gets the mutex, which others hold
only for a bounded step. Producers and spurious wake-ups are not obliged to
happen.

### `DriverRegistry.tla`: `camera.cpp` 14-59

State:

- `driver_names` and `driver_calls` are the two global vectors. A factory is
  written as the name of the driver it came from, so "parallel" can be stated.
- `refs[n]` is the dlopen reference count of `libols_driver_<n>.so`.
- `loads` is a history variable: the names newly registered, in order.
- `lastGet` is the id and the outcome of the latest `get`.
- `ncalls` counts calls up to the bound `MaxCalls`.

`LoadDriver(n)` is the whole of `load_driver`:

- the duplicate check returns early;
- the outcome is chosen among dlopen failing, the generator symbol missing,
  the config symbol missing, the config function rejecting, and success;
- `RefsAfter` gives the reference count each path leaves: +1 when the path
  reaches line 38 without `dlclose`;
- `Insert` puts the factory and the name at the front of their vectors.

`Get(id)` is `get`:

- the `(unsigned)id >= size()` test (`IdRejected`);
- `driver_calls.at(id)` (`At`);
- the null test of the camera the factory returns.

Ids range over `-1..MaxId` so that negative ids occur.

### `Taxonomy.tla`: `camera.cpp` 77-186

The to-string and from-string functions, written as CASE expressions and
table lookups over the code's own literals. An enumerator is its C++ name
(`"stream_raw16"`), and an option id or type is its integer value.

- `InTable` is the bounds test. The conversion to `size_t` or `unsigned` makes
  a negative id fail it.
- `Lookup` is the indexing after that test.
- `Search` is the first-match `for` loop.
- A thrown `CamError` is the constant `CamError`. It is a model value, neither
  a string nor an integer (`CamErrorAssumption`).

`MC_Taxonomy` has one variable, `probe`. It ranges over ids `-1..17`, 37 probe
strings and every enumerator. The strings are every stream, Bayer and type
encoding, some option ids, near misses (`"RG"`, `"raw"`, `"RAW8"`, `"gain "`, a
display name used as an id) and the empty string. The theorems of
`TaxonomyProofs` cover every string and every integer.

### `SyncQueueProofs.tla`, `RegistryProofs.tla`, `TaxonomyProofs.tla`

Hold the TLAPS proofs for those modules (section 4).

## 3. Runs

### Pipeline runs

These runs use module `MC_Pipeline`. The common settings are:

- a 2x1 frame geometry, enough to tell a right length from a wrong one;
- a plate solver attached;
- `CHECK_DEADLOCK FALSE`, because the producers are bounded and the pipeline
  really stops after shutdown: the dispatcher breaks out of `run()` and the
  consumers end.

The constant `Consumers` names the consumers whose thread runs. The others stay
stalled, as a slow consumer may.

| Run | cfg | Checks | Result |
|---|---|---|---|
| `dispatch_order` | `MC_Pipeline.cfg` | `TypeOK`, `FanOutFollowsOrder`, `OutputsInOrder`, `FramesKeepMatrix` | pass, about 4.0M states |
| `shutdown` | `MC_Shutdown.cfg` | `StopIsLast`, `ShutdownReachesConsumers` | pass |
| `plate_solver_shutdown` | `MC_PlateShutdown.cfg` | `ShutdownReachesPlateSolver` | violated |
| `mjpeg_empty_decode` | `MC_DecodeEmpty.cfg` | `ConsumersGetPixels` | violated |
| `raw_without_bayer` | `MC_BayerNA.cfg` | `DispatchAlive` | violated |
| `status_after_save` | `MC_Status.cfg` | `StatusReflectsSession` | violated |

**`dispatch_order`** has no running consumers, so each output queue keeps
everything ever pushed to it. That makes it the strongest setting for the
history properties. It allows two frames, three control requests and one
shutdown, in every interleaving. Three controls are enough to go from init to
pause to resume, or init to save to resume, in front of and between frames.
Every `cv::imdecode` outcome is allowed, the empty matrix included.
`FramesKeepMatrix` says that every frame on the stack or plate queue carries
the working matrix `handle_jpeg_stack` kept. The retention test
(`stacking_active_ || plate_solving_out_`) must cover every output the fan-out
sends such a frame to. The matrix may be empty: that is `ConsumersGetPixels`,
which the violation run `mjpeg_empty_decode` refutes.

**`shutdown`** runs all four consumers with one frame and two controls. This
run checks the liveness property. Fairness is weak fairness of the dispatcher
step and of each running consumer. These are dedicated threads that are blocked
in `pop()` only while their queue is empty. The producers (camera, HTTP
clients, `stop()`) are under no obligation to act.

The violation runs record four findings, listed in `PROJECT.json`:

1. **`plate_solver_shutdown`.** `run()` never forwards the sentinel to
   `plate_solving_out_`, so a plate-solving consumer blocked in `pop()` never
   terminates. Sections 5 and 8 of the specification say every stage
   receives a sentinel. Section 4.3 lists only live, stack and debug, so the
   specification is inconsistent here, and the code follows 4.3.
2. **`mjpeg_empty_decode`.** `cv::imdecode` signals a corrupt buffer by
   returning an empty matrix, not by throwing. The frame therefore reaches the
   stacker (while stacking is active) or the plate solver (idle session,
   solver attached) with no pixels. The specification says a
   decode failure drops the frame.
3. **`raw_without_bayer`.** A raw frame with no Bayer pattern leaves `rgb`
   empty. `cv::imencode` then throws inside `handle_jpeg_stack`, and nothing
   catches the exception on the thread, so the process terminates.
4. **`status_after_save`.** `control("save")` does not update `status_`.
   After start then save, `status` reports "stacking" while the dispatcher's
   session is over.

Every property of a passing run has a mutant in `PROJECT.json`. A mutant is a
plausible bug in the mapped code, and TLC finds the property violated under the
same cfg:

| Property | Mutant |
|---|---|
| `TypeOK` | save reports an unknown status. |
| `FanOutFollowsOrder` | pause leaves `stacking_active_` set. |
| `OutputsInOrder` | pop takes the back of the queue. |
| `FramesKeepMatrix` | pixels are kept only for the stacker. |
| `StopIsLast` | the loop continues after the sentinel. |
| `ShutdownReachesConsumers` | the sentinel is not sent to debug. |

### Queue, registry and taxonomy runs

| Run | Module, cfg | Checks | Result |
|---|---|---|---|
| `sync_queue` | `MC_SyncQueue`, `MC_SyncQueue.cfg` | `TypeOK`, `NoLostWakeup`, `RefinesQueueSpec` | pass, 15,827 states |
| `driver_registry` | `MC_DriverRegistry`, `MC_DriverRegistry.cfg` | `TypeOK`, `RegistryConsistent`, `IdsFollowLoadOrder`, `GetRunsListedFactory` | pass, 3,041 states |
| `driver_config_reject_leak` | `MC_DriverRegistry`, `MC_DriverLeak.cfg` | `FailedLoadReleased` | violated |
| `taxonomy` | `MC_Taxonomy`, `MC_Taxonomy.cfg` | `EnumsRoundTrip`, `StringsRoundTrip`, `TablesRoundTrip`, `OptionNamesParallel` | pass, 9,842 states |

**`sync_queue`** has two producers, two consumers and three pushes per
producer. Two consumers are the smallest case in which a wake-up can be
"stolen": one consumer is notified while another, arriving at `pop`, takes the
message first. Three pushes let the queue hold several messages while
consumers sleep. Deadlock is checked: once the producers are done, the
consumers sleep in `wait`, and a spurious wake-up is always possible, as it is
in the code.

- `NoLostWakeup`: while a consumer sleeps, the queue holds no more messages
  than there are woken consumers. Without it, a message could sit in the queue
  while every consumer sleeps.
- `RefinesQueueSpec` is `QueueSpec`'s specification, fairness included. It
  says the queue delivers in FIFO order to some consumer. It also says that no
  message is stranded while consumers are running.

**`driver_registry`** has three driver names and five calls in any order. That
is enough for three loads, reloads, and failed loads followed by a successful
retry, with `get` for ids `-1..3`. `CHECK_DEADLOCK FALSE`: the registry is
passive. It is called during set-up and may see no further calls, which is
where each behaviour ends once `MaxCalls` is spent.

- `RegistryConsistent`: the vectors stay parallel and without duplicates, and
  every registered library is still loaded.
- `IdsFollowLoadOrder`: id `i` is the `i`-th most recent new load. This is
  why an id taken from `drivers()` before another load names a different driver
  afterwards.
- `GetRunsListedFactory` is an action property: a `get` runs exactly the
  factory listed at the id. Negative ids and ids past the end fail the
  registry's own test, before `.at()` can throw `out_of_range`.

**`driver_config_reject_leak`** records a fifth finding. When the config
function rejects the options, `load_driver` throws at line 39 without
`dlclose`. Its two missing-symbol paths do close the library. The library
stays loaded, unregistered, and each retry adds a reference. The
specification promises the release only for the missing-symbol failures, so
this is a gap in it rather than a contradiction.

**`taxonomy`** evaluates every property on every probe (a state per probe).

Mutants for these runs:

| Property | Mutant |
|---|---|
| `NoLostWakeup` | `push` does not notify. |
| `TypeOK` (queue) | `pop` uses `if` for `while` and takes from an empty deque. |
| `RefinesQueueSpec` | `pop` takes the back. |
| `RegistryConsistent` | the factory is appended at the back, the name at the front. |
| `IdsFollowLoadOrder` | both are appended at the back. |
| `TypeOK` (registry) | the missing-symbol paths close the library twice. |
| `GetRunsListedFactory` | the id is compared as a signed int. |
| `EnumsRoundTrip` | the raw16 test is a copy of the raw8 one. |
| `StringsRoundTrip` | the two-letter Bayer names are accepted. |
| `TablesRoundTrip` | the search returns a one-based index. |
| `OptionNamesParallel` | the display-name table lost its last entry. |

## 4. Proofs

### The pipeline: `PipelineProofs.tla`

`PipelineProofs.tla` proves two theorems for all values of the constants:

- `TypeCorrect`: `Spec => []TypeOK`;
- `FanOutFollowsOrderHolds`: `Spec => []FanOutFollowsOrder`.

The assumption used is `PipelineAssumption`: the formats, Bayer sets and decode
results are subsets of the code's enumerations, and the bounds and
the geometry are naturals.

`FanOutFollowsOrder` is not inductive on its own. Its inductive strengthening
`IInv` adds:

- `TypeOK`, plus well-formed control operations in the queue;
- **`HeadInSync`**: the head of the queue was stamped with the dispatcher's
  current session;
- **`StampChain`**: each later message was stamped with the session its
  predecessor leaves, under the specification's table;
- **`TailInSync`**: `tailSess` is the session the last message leaves, or the
  dispatcher's session when the queue is empty.

Why this is enough:

- A push stamps with `tailSess`, so the chain is extended.
- A pop moves the dispatcher to the session of the next stamp. Lemma
  `ApplyCtlIsSpecApply` shows that `run()`'s switch is the table.
- So the frame at the head is always processed in the session it was stamped
  with. Lemma `FanOutIsSpecFanOut` then shows that its routes are the table's
  routes.

The lemmas are:

- `PushSync` and `PopSync`: the chain under append and tail;
- `ProcessedType` and `PushToType`: typing.

Each temporal theorem ends with `PTL DEF Spec`.

### The output queues: `PipelineOutputProofs.tla`

Three more theorems about `Pipeline`, for all values of the constants:

- `OutputsInOrderHolds`: `Spec => []OutputsInOrder`;
- `StopIsLastHolds`: `Spec => []StopIsLast`;
- `FramesKeepMatrixHolds`: `Spec => []FramesKeepMatrix`, for every decode
  outcome.

The stronger `ConsumersGetPixels` (the kept matrix is not empty) is false in
the code, as `mjpeg_empty_decode` shows, so no theorem states it.

None of the three properties is inductive alone. Each has its own
strengthening, and TLC checked each strengthening as an invariant of
`MC_Pipeline` before the proof was written.

- **`OInv`** = `TypeInv /\ SeqOrder /\ OutputsInOrder`. `SeqOrder` says:
  - the input queue's sequence numbers increase;
  - all of them are at most `nsent`;
  - every output message is numbered at most `nsent` and below every message
    still in the input queue.

  Without the last clause, nothing stops a pop from appending a message that
  is older than one already on an output queue.
- **`SInv`** = `TypeInv /\ StopSeen /\ StopIsLast`. `StopSeen` says that an
  output queue holding the sentinel, or a consumer that took it, implies that
  `run()` has left its loop (`vgpc = "done"`). So nothing is appended after
  the sentinel.
- **`PInv`** = `TypeInv /\ FramesKeepMatrix`. This one is inductive once
  lemma `FrameWork` is proved. It says that a frame process_frame forwards
  to stack or plate was processed with `NeedPixels` true, because
  `stacking_active_` and `plate_solving_out_` each imply the retention
  test.

The proof of each step has one case per action. The producers push message
`nsent + 1` (lemmas `ProducerPush`, `PushOrder`). The three `run()` branches
pop the front and append it to some outputs (`PopOrder`, `NonStopStep`,
`PushKeepsMatrix`). A consumer takes the front of its queue (`ConsumeOrder`,
`ConsumeStop`). Lemmas `PushToElems` and `ConsumeElems` give the elements of
an output queue after an append or a pop.

### The queue: `SyncQueueProofs.tla`

Assumption `SyncQueueAssumption`: the set of consumers is finite and
`MaxPush` is a natural. Theorems:

- `TypeCorrect`: `Spec => []TypeOK`;
- `NoLostWakeupHolds`: `Spec => []NoLostWakeup`;
- `RefinesQueueSafety`: `Spec => AQ!QSafety`. This is the safety part of the
  refinement: every step of `SyncQueue` is a `QueueSpec` step or a stutter.

`NoLostWakeup` is inductive together with `TypeOK`. The cases are:

- A push adds a message. If a consumer sleeps, it also wakes one, which adds a
  woken consumer.
- `PopWait` makes a consumer sleep only when the queue is empty.
- `PopTake` by a woken consumer removes one message and one woken consumer.
  By any other consumer it only removes a message.

The proof counts the woken set through `FS_AddElement` and `FS_RemoveElement`.
It uses lemma `StateSetUpdate` for how a `pc` update changes a state's set.

### The registry: `RegistryProofs.tla`

Theorems, for any set of names and any bounds (`DriverRegistryAssumption`):

- `TypeCorrect`;
- `RegistryConsistentHolds`;
- `IdsFollowLoadOrderHolds`;
- `GetRunsListedFactoryHolds`: the action property.

The inductive invariant is `TypeOK /\ RegistryConsistent /\
IdsFollowLoadOrder`; each conjunct is preserved given the others. A new name
goes in only when it is not registered, which keeps the names distinct, and
the reference count it gains keeps every registered library loaded. Lemma
`ConsProperties` gives the indices of `<<x>> \o s` from `ConcatProperties`.
`InsertPreserves` shows that the front insertion keeps both vectors aligned
and both in step with the reversed load history. `GetRunsListedFactory`
follows from `RegistryConsistent` in the pre-state, because `get` changes
neither vector.

### The taxonomy: `TaxonomyProofs.tla`

These theorems quantify over every value, not only the probes:

- `EnumRoundTripHolds`: `\A e : EnumRoundTrip(e)`;
- `StringRoundTripHolds`: `\A s : StringRoundTrip(s)`;
- `TableRoundTripHolds`: `\A id \in Int, s : TableRoundTrip(id, s)`;
- `NamesParallelHolds`: `\A id \in Int : NamesParallel(id)`.

Lemma `SearchInverts` holds for any table without duplicates. It says the
first-match search inverts indexing, and whatever it returns indexes the string
looked for. `TablesDistinct` and `TableFacts` discharge its hypotheses for the
two searched tables.

The module extends `MC_Taxonomy`. It states the four invariants of the
`taxonomy` run as theorems about its specification: `EnumsRoundTripHolds`,
`StringsRoundTripHolds`, `TablesRoundTripHolds` and `OptionNamesParallelHolds`.
Each one instantiates the matching universal theorem at the probe. Lemma
`ProbeIdInt` supplies the fact that the probe id is always an integer.

`CamErrorAssumption` says both that `CamError` is not a string and, explicitly,
that it is no table entry. The provers do not know that a string literal is a
member of `STRING`, so the second part is what the proofs use.

### Only model-checked

These stay with TLC:

- **Liveness** (`ShutdownReachesConsumers`, and the fairness half of
  `RefinesQueueSpec`). TLAPS does not handle fairness or ENABLED here.

## 5. Not modelled, and the plan

- **`StackerStatsNotification`.** JSON formatting and transport only.
- **`CameraInterface`.** An interface with no code in this repository.
- **`operator<<` for `CamStreamFormat`** (`camera.cpp` 60-75). Text formatting
  only.
- **Frame size arithmetic.** Planned as module `FrameSize`. The length check at
  `video_generator.cpp:71` multiplies in 32-bit `int`. The module would model
  that with wrap-around and compare it with the true product.
- **Session discipline.** A property that stack-queue frames always follow an
  `init` (the code accepts `resume` without one).
- **More proofs.** Every safety invariant of a passing run is proved; only
  liveness is left to TLC.
