# rtc-media-server in TLA+

A model of the realtime media server in `src/`: its media pipelines, its
sessions and replies, the WebSocket connections and the two registries that
tie them together, the reference path into the enhancement stage, what the
stages do to a frame, and the life of the process from its start to its end.
Runs of TLC check small instances; TLAPS proves the safety invariants and the
refinements for every instance.

## 1. Inventory

One client connection is one goroutine (`readStream`). It feeds audio into the
*uplink* pipeline and handles text messages itself. The service side answers
with *generations*, goroutines that write text and push audio into the
*downlink* pipeline. `Session` binds connection, pipelines, service side and
`Controller` together; `session.Manager` and `websocket.Server` each keep a
registry by client id, joined by the callbacks in `main.go`.

| Component | State | Operations | Talks to | Hard behaviour | Correct when |
|---|---|---|---|---|---|
| Queue pipeline, `pipeline/queue.go` | one bounded channel and goroutine per stage, closed flag, `done`, counters | `Push`, `Process`, `SendAudio`, `Close`, `Stats` | stages, output, the Session's error handler | backpressure over several hops; `select` picks at random; Close from inside a node; four error strategies | frames keep their order, none is lost without a trace or counted twice, nothing blocks for ever |
| Service connector, `application/mock.go` | newest response id, its cancel function | request, cancel, Close, the goroutine of a generation | Session | requests from two goroutines, late endings, requests after Close | a cancel reaches whatever still runs; every generation ends |
| Session, `session/session.go` | response flag, RTT, `once` | client, service and stage messages, Close | all of them | flag and message are not one step; Close in the middle of everything | turns are balanced, Close disconnects |
| Registries, `websocket/server.go`, `session/session.go` | `clients`, `sessions` | reserve, handshake, attach, unregister, remove, Shutdown | callbacks of `main.go` | two mutexes, lookups by id, reconnects | no connection or Session is confused with another or forgotten |
| Client connection, `websocket/server.go` | `writeMu`, stream, ping | read, reply, write, ping, close | uplink, VAD stage, rtt loop | Ping holds the lock while it waits for the reader | nobody waits for ever, no write after the other |
| Controller and enhancement stage, `controller.go`, `reference_tap.go`, `audioenhancement/mock.go` | reference queue, stage mutex, open PCM files | offer, dispatch, save, close | downlink, uplink | disk writes under the mutex; Close against a running stage | the downlink never waits, references in order, files released |
| VAD stage, `vad/mock.go` | whether speech was reported | speech events on the first frame, silence timeout | Controller | writes to the client from inside the uplink | as part of the connection and of the turns |
| Chains of stages, `NewSession`, `stages/*.go`, `g711/alaw.go` | per frame: payload, codec, rate, channels | base64, A-law, save, report speech; normalize, tap, A-law, base64 | the queue pipeline, both connectors, Controller | chains put together by hand; ends of int16, segment table; lengths that do not divide; a failed save half way | no stage refuses what its predecessor made; duration and time are kept; the reference is what the client plays; it is G.711 |
| Process, `main.go`, `Start` and `Shutdown` | certificate and key file, logger, listener | load, log, certificate, listen, signal, shut down | operator, operating system, clients | a crash between two writes of a pair; restarts; clients that come during the end | a usable pair survives, no start wedges the next, it ends when asked and cuts nobody off unannounced |
| JSON messages, rules and defaults of the configuration, log formats | - | - | - | - | not modelled, or only their outcome |

`PROJECT.json` lists every component with its status and every hazard with its
line and the properties aimed at it.

## 2. Modules

| Module | Models | Uses |
|---|---|---|
| `FrameConduit` | abstract: a lossy, ordered, at-most-once conduit that can be shut; strict, or weaker with late calls (`LateSpec`) | |
| `QueuePipeline` | one pipeline, any number of stages | implements `FrameConduit` |
| `ResponseTurn` | requests, generations, response flag, what the client sees | composed with `FrameConduit` as its downlink |
| `ConnRegistry` | connection attempts of one client id, both registries, Shutdown | |
| `StreamChannel` | the goroutines around one `writeMu` | |
| `ReferencePath` | tap, reference queue, dispatcher, stage mutex and file, Close | implements `FrameConduit`, with late calls |
| `ALaw`, `PcmNormalizer` | the algorithms on samples, as operators | |
| `MediaStages` | one frame on its way through either chain | `ALaw`, `PcmNormalizer` |
| `ServerProcess` | main, the certificate files, signal, Shutdown, crash and restart | |
| `MCMediaStages` | the frames of its runs; the other runs give their constants in the `.cfg` | |
| `*_proofs` | theorems | the module they are named after, `TLAPS` |
| `QueueConduit_proofs` | conservation, counters and refinement of the pipeline | `QueuePipeline_proofs` |

How state and actions correspond to the code:

* **QueuePipeline.** `input[n]` is the channel of node `n`, `pc[n]` the place
  of its goroutine, `phase` the progress of the body of `once.Do` in `Close`
  (closed flag, cancel, `close(done)`), `stagesClosed` the loop over the
  stages. `PushCheck` reads the closed flag, `PushEnqueue`, `PushDone` and
  `PushCallerCancelled` are the cases of the later select. `StageOK`,
  `StageDrops`, `StageFails` are the results of `Process`; `StageCloses`,
  `StageContinues`, `StageSwallows` the branches of `handleError`;
  `SessionCancel` and `SessionCloseBegin` stand for `Session.Close`, which
  cancels the context well before it closes the pipelines. `accepted`, `fate`
  and `delivered` are history.
* **ResponseTurn.** `StartMockResponse`, `CancelMockResponse` and `Clear` are
  the critical sections of `MockConnector.mu`. `Ensure` ends at the unlock of
  `ensureResponseCreated`; `WriteCreated` is the message it sends afterwards.
  `WriteDone` and `Reset` are the two halves of `OnServiceMessage` for a done.
  The downlink pipeline is an instance of `FrameConduit`, which `QueuePipeline`
  implements: a Push of a generation is `Downlink!Call`, then `Downlink!Accept`
  or `Downlink!TurnAway`, and `Session.Close` is `Downlink!Shut`. What the
  conduit leaves open is added here: a full pipeline makes the Push wait. Every
  write, of a generation, of the reader or of the pipeline's output, may fail at
  any time: on a dead connection it always does, under a cancelled context it
  may, and on a live one it may, because the write timeout starts before the
  wait for `writeMu` (`server.go:568-575`). `StreamChannel` has that wait in
  detail; here the refusal is a choice.
* **ConnRegistry.** `pc[c]` follows `handleStream`, `readStream` and
  `unregisterClient` of one attempt; each critical section of `Server.mu` or
  `Manager.mu` is one action. Connectors and Sessions are named after the
  attempt that made them, so that `using[c]` and `target[c]` show when a lookup
  by id finds somebody else's. `SessionTimesOut` is `Controller.CloseSession`,
  which the silence timeout calls; the mock VAD stage has that event
  (`vad/mock.go:92`), but the timer that is to raise it is not written yet, so
  the step may come at any time.
* **StreamChannel.** `Acquire` takes `writeMu` for any goroutine; the actions
  that end a critical section release it. `ping` follows the ping on the wire.
  `toSend` counts what `OnStageEvent` has to write for the first frame. The
  client's messages are kinds only: `append`, `reply` (the reader answers),
  `silent`, `pong`.
* **ReferencePath.** `OfferAccepted` and `OfferRefused` are the select of
  `OnDownlinkReference`, which looks at `done` and the queue at once, so that
  a reference offered after `Controller.Close` may still be accepted; `closing`
  has the steps of `Session.Close` that matter here. A frame is PCM and not empty; anything else takes no lock.
* **ALaw, PcmNormalizer.** The functions of the code, named as there, with
  int16 wrap-around in the decoder and truncating division in the mixer.
* **MediaStages.** `stage` is the stage the frame waits for, `Refuses` the
  error that stage returns for it; each other action is one `Process` that
  succeeds. `given` keeps what the connector pushed, `references` and `saved`
  what left the chain sideways. How frames follow one another is
  `QueuePipeline`'s matter, locking `ReferencePath`'s.
* **ServerProcess.** `step` is the place of `main`; a file write is two steps,
  for `os.WriteFile` truncates first. `cert` and `key` outlive the process,
  `ending` tells where the last one ended, `found` what the last start or the
  operator left. `closing` is the snapshot of `Shutdown`.

An operator marked *Fault* differs from the action after it by one plausible
mistake. It is not part of any specification; substituted for that action it
violates the property `PROJECT.json` names, which shows that the property
depends on the action being right.

## 3. Runs

| Run | Shows | Bounds | States |
|---|---|---|---|
| `QP_frames` | order, conservation, counters, refinement of `FrameConduit`; frames settle, Push returns, Close ends every goroutine | 2 stages and the output, queues of 1, 3 frames, 1 producer, 3 strategies | 196,265 |
| `RT_turns` | cancel reaches the live generation; turns balanced; text before audio; every generation ends; writes may be refused at any time | 2 requests, 1 cancel, downlink of 1 | 555,768 |
| `RT_text_outside_turn` | *violated:* text without a preceding created | 2 requests, no cancel | |
| `CR_registries` | the entry is the handler's own; no Session is forgotten; Sessions of dead connections close, handlers return | 3 attempts of one id | 76,582 |
| `CR_reconnect_race` | *violated:* a reconnected client without a Session | 2 attempts | |
| `CR_shutdown_misses` | *violated:* a connection survives Shutdown | 1 attempt | |
| `SC_connection` | mutual exclusion; closed means disconnected; whoever of `Crew` waits for `writeMu` gets it, the reader and Close get on | 1 sender, uplink of 1, 1 message under way | 66,120 |
| `RP_references` | order, at most once, also for a late call; the downlink never blocks; references arrive, Close gets through | queue of 2, 4 frames | 3,072 |
| `RP_file_reopened` | *violated:* a file open after Close | queue of 1, 1 frame | |
| `MS_chains` | no refusal inside a chain; duration, timing, mixing; the reference is what the client plays; the service gets what was saved; the codec is symmetric | up to 5 samples, 7 rates and 4 channel counts with 0; every sample and every byte | 691,934 |
| `MS_standard` | *violated:* the codec is not G.711 | some samples | |
| `SP_restarts` | usable files survive, what wedges a start; no connection of before the signal outlives Shutdown; it ends when asked | 3 starts, 2 clients | 21,757 |

Safety and liveness of a component share a run: with the fairness stated in the
module the reachable states are the same, and these instances are small enough
for both.

Why these bounds are enough:

* A queue of one frame is full as often as possible, and the next goroutine up
  is blocked at once. Two stages make a hop between stages that is neither first
  nor last; with three frames both stages hold one, the next is in a queue or
  waits for a place in it, and so Push and every forward get to wait.
* One producer in `QP_frames`: producers touch nothing of each other's, and all
  that several of them can influence is which frame is accepted next. The frames
  have no content, so one producer already sees every order of acceptance, and
  safety and refinement are proved for any set of producers. What one producer
  does not show is a Push that waits while another one is served; the FIFO of
  waiting senders (below) is what decides that.
* Two generations are the shortest overlap, and the safety properties are proved
  for any number.
* Three attempts of one id let one leave, one take its place and one be
  rejected. The safety properties are proved for any number.
* In `SC_connection` the roles matter, and there is one of each: the reader, the
  VAD stage, ping, Close by the Session, Close by Shutdown, and a generation
  that sends. A second sender would be one more waiter for `writeMu`. The
  message under way after the one the reader handles is what lets a pong be
  stuck behind a message whose audio does not fit into the uplink.
* In the normalizer only ratios count: a target of 3 with rates below, equal
  to, above and prime to it has every kind of remainder, and 5 samples leave one
  over for 2 channels and two for 3. The codec works sample by sample, so one frame
  for each of the 65,536 samples and the 256 bytes is all of it.
* The third start in `SP_restarts` meets what two earlier ones left, each of
  which may have ended anywhere: a start only sees the two files, and which
  contents they may have the second start already shows. Two clients are one in
  the snapshot of `Shutdown` and one that comes after it.

The bounds in the guards are `MaxFrames`, `MaxGen`, `MaxCancel`, `InboxSize`,
`Conns`, `MaxSamples` and `MaxStarts`; the other constants are parameters of the
program or the sets of inputs.

Deadlock checking is off: every one of these systems may stop (a closed
Session, a finished frame, a process that is not started again), and that it does not stop too early is what the
liveness properties say.

**Fairness.** Goroutines run, timers fire, and the calls that leave the
program return because their contexts carry a timeout
(`server.go:242`, `457`, `569`): weak fairness of each goroutine. Strong
fairness is assumed in two places. `sync.Mutex` hands itself to a waiter after a
millisecond: in `StreamChannel` this is assumed for the reader, the VAD stage
and the two that close (`Crew`), whose progress the properties speak of; the
senders need no such promise and get none. Senders of a Go channel wait in a
FIFO. No client is assumed to answer, to leave or to speak, and nobody to close
anything. The disk is not assumed to work either: `SavePCM` has no fairness in
`ReferencePath`, `TapNeverBlocks` holds although a write may hang for ever, and
`ReferencesArrive` and `CloseEndsLoop`, which cannot, name it as their
hypothesis (`DiskReturns`). In `ServerProcess` only the steps of `Shutdown` and
the return of `main` are fair: nobody has to start, signal or kill the process,
and clients come and go as they like.

## 4. What disagrees with the documentation

Five runs are expected to fail. Each checks one sentence of a comment or of
`docs/Architecture.md`; `PROJECT.json` quotes it under `findings`.

1. `ensureResponseCreated` marks the reply as started before it is
   (`session.go:452-461`), so text may come outside a turn. A created that is
   refused leaves the mark, too, and the next reply has no start.
2. A reconnect between the two registries gets no Session (`session.go:94`).
3. Shutdown misses handshakes that are under way when it takes its snapshot, or
   that begin after it (`server.go:169`).
4. A late frame reopens the PCM file (`audioenhancement/mock.go:136`).
5. The codec is not the G.711 its comments name. The decoder inverts the sign
   (`alaw.go:59`), which the trace of `MS_standard` shows; besides, the encoder
   searches the segment with an unshifted sample (`alaw.go:79, 89`), so that the
   second conjunct of `FollowsStandard` fails by itself as well. The theorems
   `DecodesInverted` and `OnlyQuietByStandard` say how far both go: every byte is
   decoded to minus its standard value, and the samples -256 .. 255 are encoded by
   the standard and no others. `stages/alaw_test.go:28` pins the inverted sign
   (0xD5 to -8, 0x55 to 8) and has to change with the code.

More that the models contain and no property forbids, for nothing in the
repository rules it out in so many words, or no run could say more than a look
at the line:

* A Push that has read the closed flag before `Close` may enqueue afterwards
  (`queue.go:110-113`), which is why `FrameConduit` lets a shut conduit still
  take a frame that was offered earlier.
* `TestControllerDropsReferenceAfterClose` (`controller_test.go:98`) is named after
  a promise the code does not give: a reference offered after
  `Controller.Close` meets a select (`controller.go:106-110`) in which the
  closed `done` and a queue with room are both ready, and which may take it. The
  test asserts only that the call returns. The step is `FrameConduit!CallLate`, the
  one by which `ReferencePath` falls short of the strict conduit; the loop may even
  hand such a frame on, if it has not looked at its cancelled context yet.
* Done is written directly while audio passes the pipeline, so that audio may
  reach the client after done (`mock.go:170-182`). A superseded generation may
  even open a turn after done that has no done of its own.
* `fatal` is to record the error (`main.go:171`), but before `log.Init` the
  logger panics (`logger.go:93-100`): `LoadFails` ends "panicked".
* `websocket.stream.sample_rate` describes the client's audio
  (`docs/Usage.md:92`), but `alaw_decode` overwrites it with 8000
  (`stages/alaw.go:33`) and nothing resamples. `DurationKept` therefore speaks of
  uplink frames in the target format only; the theorem `UplinkMislabels` says
  what happens to the others: at a higher rate, or in several channels at no
  lower one, every frame of more than one sample arrives longer than it was.
* Two windows leave a certificate and a key that do not fit and that no later
  start replaces (`WedgedOnlyInWindow`): a process that ends while it writes the
  key, and, if an old key had been left without its certificate, one that ends
  after it has begun to write the certificate.

## 5. Proofs

| Theorem | Module | Property |
|---|---|---|
| `TypeCorrect` | `QueuePipeline_proofs` | `TypeOK` |
| `OrderPreserved` | `QueuePipeline_proofs` | `FifoOrder` |
| `NothingLost` | `QueueConduit_proofs` | `Conservation` |
| `StatsAgree` | `QueueConduit_proofs` | `Accounting` |
| `PipelineIsConduit` | `QueueConduit_proofs` | `ConduitSpec`, a refinement |
| `TypeCorrect` | `ResponseTurn_proofs` | `TypeOK` |
| `CancelAlwaysReaches` | `ResponseTurn_proofs` | `CancelReachesLive` |
| `TurnsNeverPileUp` | `ResponseTurn_proofs` | `TurnsBalanced` |
| `TextLeads` | `ResponseTurn_proofs` | `TextBeforeAudio` |
| `RepliesHeardOnce` | `ResponseTurn_proofs` | `HeardOnce`, stated there |
| `TypeCorrect` | `ConnRegistry_proofs` | `TypeOK` |
| `SingleOwner` | `ConnRegistry_proofs` | `HandlerOwnsEntry` |
| `NoForgottenSession` | `ConnRegistry_proofs` | `RegisteredHasRemover` |
| `TypeCorrect` | `StreamChannel_proofs` | `TypeOK`, with mutual exclusion |
| `CloseDisconnects` | `StreamChannel_proofs` | `ClosedMeansDisconnected` |
| `TypeCorrect` | `ReferencePath_proofs` | `TypeOK`, with mutual exclusion |
| `ReferencesAreConduit` | `ReferencePath_proofs` | `ConduitSpec`, a refinement of the weaker `LateSpec` |
| `ReferencesInOrder` | `ReferencePath_proofs` | `AddedInOrder`, stated there |
| `TypeCorrect` | `MediaStages_proofs` | `TypeOK`, no sample or code out of its width |
| `ChainsFit` | `MediaStages_proofs` | `RefusedAtEdge` |
| `SavedBeforeService` | `MediaStages_proofs` | `ServiceGetsSaved` |
| `ReferenceInTime` | `MediaStages_proofs` | `SamplesInTime` |
| `ReferenceIsHeard` | `MediaStages_proofs` | `ClientHearsReference` |
| `DurationIsKept` | `MediaStages_proofs` | `DurationKept` |
| `UplinkMislabels` | `MediaStages_proofs` | `StreamMislabelled`, stated there |
| `MixIsFair` | `MediaStages_proofs` | `MixUnbiased` |
| `SignsMirror` | `MediaStages_proofs` | `CodecMirrors` |
| `DecodesInverted` | `MediaStages_proofs` | `InverseOfStandard`, stated there |
| `OnlyQuietByStandard` | `MediaStages_proofs` | `QuietByStandard`, stated there |
| `TypeCorrect` | `ServerProcess_proofs` | `TypeOK` |
| `FilesAreSafe` | `ServerProcess_proofs` | `FilesSurvive` |
| `Drained` | `ServerProcess_proofs` | `DrainedBeforeExit` |

They hold for every value of the constants that satisfies the `ASSUME` of the
module (`QPAssumption`, `RTAssumption`, `CRAssumption`, `SCAssumption`,
`RPAssumption`, `MSAssumption`, `SPAssumption`): any number of stages,
producers, requests, attempts, senders, starts and clients, any queue size, and
frames of any length and claim. Every safety property of the passing runs,
invariant or refinement, is the property of one of these theorems.

The arguments, component by component:

**Pipeline.**

* `FifoOrder` is inductive together with `TypeOK`: delivered frames are older
  than those in flight, frames downstream older than those upstream, the frame
  a node works on older than its queue, and a queue is sorted. No part is
  inductive alone: that `Forward` appends the youngest frame of the next queue
  needs that everything downstream is older, and that `SendOK` keeps
  `delivered` sorted needs that it is older than everything in flight.
* `Conservation` is inductive with both (`QInv`). A node that ends a frame takes
  it out of the pipeline only if the frame is nowhere else, and that is what the
  order gives: a frame younger than itself cannot be itself (`OnePlace`).
* For `Accounting` the numbers are tied to sets (`AccountInv`). Under "continue" a
  frame may fail again at each node, so `errors` is bounded by the pairs of a
  frame and a node that has been tried with it (`Tried`), one new pair for each
  failure; there are no more pairs than accepted frames times nodes.
* `PipelineIsConduit` maps each step to a step of the conduit or a stutter:
  `PushEnqueue` accepts, `SendOK` delivers the oldest pending frame because of
  `FifoOrder`, a frame that gets a fate is lost, and the closed flag shuts.

**Replies.**

* `CancelReachesLive` needs only part of the types and that a generation not
  yet born has a number above `responseID`.
* `TurnsBalanced` follows from an account (`TurnsInv`): every "created" that is
  out or owed, and every "done" whose reset of the flag is still to come, is paid
  for by a "done" that is out or by the flag.
* `TextBeforeAudio` is strengthened upstream (`TextInv`): whoever is past its
  text, and every frame it pushed, has its text with the client.
* That the replies use the downlink as a conduit holds by construction, their
  actions being composed of its actions, and is no theorem of its own.
* `HeardOnce` joins the two sides. By the conduit's steps frames are delivered in
  the order of their pushes and before all that still waits (`HeardInOrder`); and
  whoever has pushed a frame is past the push for good (`PushedOnce`), cancelled
  or not, so that no two frames are of one reply.

**Registries.** Both theorems share one invariant with `TypeOK`. That a
registered Session keeps its Remove rests on `HandlerOwnsEntry`: while its
handler is in the registry nobody else gets through `unregisterClient`.

**Connection.**

* `TypeOK` says that `writeMu` is held by exactly the goroutine inside a
  critical section (`LockInv`), and when a pong is on the wire. The second is
  inductive only with the fact that there is at most one pong (`WireInv`): else
  the reader could take one and leave another behind.
* `ClosedMeansDisconnected` is strengthened by two facts: a reader that has
  left its loop left a dead connection behind, and only such a reader takes the
  stream from the connector. So when `Session.Close` finds no stream to close,
  there is nothing left to close.

**Reference path.** `TypeOK` has the mutex of the stage (`MutexHeld`) beside the
types. The refinement is of the weaker promise: references in order, each at most
once, and the conduit shut at most once (`ShutOnce`), but a call that begins after
that is a late call, which the strict conduit forbids. It needs `QueueOrder`: the queue is sorted and everything in
it younger than the frame in the hands of the loop. `AddedInOrder` says of the
history alone what the refinement promises; it is inductive once everything
handed over is known to be older than everything on its way (`AddedFirst`).

**Frames and samples.**

* `RefusedAtEdge` is strengthened to the codec each stage hands on, `CodecInv`;
  `ServiceGetsSaved` to what has been saved at each stage of the uplink,
  `SavedInv`.
* `SamplesInv` says of what each stage gets how it was computed from the frame
  that came in (`Decoded`, `Resampled`, `Encoded`). The properties of the samples
  are then facts about the operators, proved as lemmas for all inputs:
  `ResampleTimes` (how many samples come out, and which one each is),
  `EncoderMirrors`, `DecoderMirrors` (no wrap in any of the eight segments) and
  `QuietRoundTrip`.
* `TypeOK` and `MixUnbiased` rest on the sum over the channels, a fold over a set.
  What it computes is shown by induction over the subsets of the channels, ordered
  by strict inclusion (`FiniteInduction`, on the well-foundedness of that order).
  First that the fold has a value at all: the equation that defines it has a
  solution, the sum counted as the number of elements of a set (`Total`,
  `SomethingAdds`). Then what the value is worth: a sum of n samples lies between n
  times any bounds of theirs, and the sum of the inverses is the inverse of the sum
  (`SumBetween`, `SumInverse`). Go's division rounds towards zero, which is the
  same for both signs and does not leave the bounds (`Mean`, `MeanBetween`); so
  the mean of 16-bit samples is one, and its conversion to `int16` changes nothing.
* `OnlyQuiet`: for a magnitude from 256 to 4095 the search ends three segments too
  high (`LoudCode`), beyond that it spills over into the sign bit (`LoudestCode`),
  and what such a code stands for is off by more than half a step; below 256 both
  tables begin with segment 0, and the code is the standard's.

**Process.**

* `FilesInv` says what the two files hold at each step of `main`, relative to
  what it found, and that a dead process left what they held where it ended.
  Both halves of `FilesSurvive` follow from it.
* `DrainInv` says that while Shutdown works a connection is late or still in
  the rest of the snapshot. It also says at which steps there are connections
  at all, which the last conjunct of `TypeOK` needs.

Checked by TLC only:

* all liveness, which is out of reach of the prover: `EverySettled`,
  `PushReturns`, `CloseEndsGoroutines`, `EveryGenerationEnds`, `SessionsEnd`,
  `HandlersReturn`, `WritersGetTheirTurn`, `ReaderReturns`,
  `CloseEndsConnection`, `TapNeverBlocks`, `ReferencesArrive`, `CloseEndsLoop`,
  `EndsWhenAsked`.

## 6. Not modelled

* The packing and parsing of JSON, the encoding of base64 (a text stands for
  its bytes), the rules and defaults of `config.go` and the formats of `log/`:
  no state, or only their success or failure matters.
* The payloads in `QueuePipeline`: what a stage does to a frame is there a free
  choice between its possible results; `MediaStages` has the frame without the
  queues.
* The contents of certificates, file permissions and a full disk, other than as
  the failure of a step.
* RTT: measured and stored, read only for a log line; that it may reach the
  Session of a later connection, or that of an earlier one, is listed as a
  hazard; no promise about it holds that could be checked.
* `Manager.Close` and `MockStage.CloseSession`, which the program never calls.

## 7. Plan

Done, in this order: pipeline and its conduit, turns, registries, connection,
reference path, algorithms; the chains of stages, the process; the turns
composed with the conduit; type correctness and the safety invariants of each
module as theorems, and its refinement where it has one.

Next, on the model:

1. An abstract registry ("one connection, one Session") and what weaker promise
   `ConnRegistry` does implement; the PCM files of two Sessions of one id.
2. The VAD silence timer, once the stage has one, in the place of a free step.

Next, on the proofs: the new model parts as they come. What is left of the
properties of the runs is liveness.
