# Talking Quill: a TLA+ model

Talking Quill is a dictation application. The user holds a shortcut and speaks;
a native process, the *keyboard owner*, alone holds the system-wide keyboard hook
and the right to paste; an Electron application leases capture from it through a
*helper* process, records, transcribes with a local worker process or a provider,
and has the text pasted. A mistake swallows a user's keystrokes, leaves a key
pressed, pastes what was cancelled, keeps the microphone open, changes a
model's files under the worker that reads them, leaves the application without
its helper, or deletes a profile that nobody asked to delete. This directory models the
six parts in which such a mistake would be made, checks them with TLC, and
proves with TLAPS the central invariants of the owner and of the capture reconciler,
and every safety property of the whisper client and of the data reset.

## 1. Inventory

| Component (source) | State | Operations | What is hard | Modelled |
|---|---|---|---|---|
| **Lifecycle reducer** of the owner (`helper/keyboard-owner/src/state.rs`, `state/`) | `KeyboardOwnerState`: controller, native ownership, paste phase, health, exit, admission gate, pending tokens, close and dependent plans, readiness, reconciliation, maintenance, predecessor | some 50 methods: startup, observe, acquire/release, configure, enable/disable, paste, maintenance, rollback, confirm/fail of each token | confirmations after what they confirm was revoked; failures between two steps; plans merged by later requests; stop, seal and rollback at any time | `Owner*` |
| **Protocol server** of the owner (`protocol_server.rs`, `protocol_server/`) | the reducer, connections with bounded queues, the admitted effects, event scopes, deferred close | decode and dispatch a request, drive actions, admit observations, flush effects, offer terminal events, disconnect | nested drives, back pressure, a close deferred between drives, loss of a connection inside a drive | as fairness only |
| **Key engine** (`helper/keyboard-core/src/transactional/`) and the **hook thread** around it (`helper/keyboard-owner/src/platform/windows/hook/`) | matcher, journal, candidate, committed activation, cleanup after a replay; the adapter's view of the keyboard, the turn under way, the gate | key event, cancel, replay, neutralize, reconcile, reconfigure, shut down; callbacks that come in while an effect is under way | effects accepted in part, edges that are missed or race an effect, a journal at its limit, AltGr | `Key*` |
| Adapter, executor, gate, runtime (`adapter.rs`, `platform_adapter.rs`, `executor.rs`, `capture_gate.rs`, `runtime.rs`, `macos/`) | threads, event broker, deadlines | perform a token, report a snapshot, bounded shutdown | threads, a broken stream, a stop that does not answer | at the other end of `Owner*` and `Key*` |
| **Echo session** (`app/src/main/echo/`) with the helper's RPC (`app/src/main/helper/helper-rpc-*.ts`), the recorder and the insertion service | phase, submit intent, outcome, effect chain, audio pipeline, capture reconciler; native capture, requests and answers on the pipe, microphone, model, stream, paste | reducer events, effects, teardown, reset, shutdown | the submit that arrives before readiness, cancel racing the paste, late answers of an earlier session, loss of the helper | `Echo*`, `Capture*` |
| **Whisper worker client** (`app/src/main/transcription/`) | requests, generations of the worker process, termination, quarantine, restart; the lease on the model's files; the streaming session | transcribe, verify, stream, cancel, push, close, worker exit | a worker that cannot be killed, a late answer of an earlier generation, a lease returned while its work goes on | `Whisper*`, `Model*` |
| **Helper supervision** (`app/src/main/helper/`) | process and channel, requests, launch, health refresh, termination, stop, resets, failures in the window, circuit, restart timer, readiness; the activation wanted, blocked, applied | start, stop, reset, configure; launch, health check, terminate, record a failure, restart; answer, expiry, malformed frame, exit | each of a dozen promise chains may find the process, the owner, the intent or the channel changed when it goes on; a stop, a termination and a reset of the same process | `Helper*` |
| **Data reset** (`app/src/main/data/`, `app/application-reset.ts`, `helper/src/owned_tree.rs`) | the profile's directory under three names, the journal beside it, a native remover; what of this is on the medium | prepare, cancel, time out, recover, retry; remove natively; start, crash, lose power | a crash between any two steps, a remover that outlives its parent, a cancellation that fails, a directory replaced between look and rename | `ResetDisk`, `DataReset` |
| Keyboard data (`helper/keyboard-core/src/`), owner protocol (`helper/owner-protocol/src/`) | none | normalise, match; encode, decode | pure | no |
| Gateway helper (`helper/src/`) | platform handles | foreground, secure input, clipboard, paste | platform I/O | no |
| Persistence, providers, history, security, shell, renderer, shared contracts, installer, scripts | see `PROJECT.json` | | I/O, presentation and data | no |

### How the parts interact

The owner's protocol server owns one `KeyboardOwnerState` and calls it
synchronously. A call returns a decision and leaves *tokens* in `pending_actions`.
The server executes each token against the adapter and calls back the confirmation
for its kind, or the failure. The adapter and the event broker report native
snapshots, paste claims, effects and readiness unasked. A connection is a controller
(observer, disabled or enabled capture lease, maintenance) or nothing; losing it
revokes it. A capture lease that ends leaves a *predecessor*, to be told
`Revoked` and then how its native ownership ended.

The application's client of the helper supervises it: one request is at the helper at
a time, a heartbeat reads its health, a failure ends it and schedules the next, and the
shortcuts the application wants are configured anew in every process and for every
keyboard owner, disabled first. Its *readiness* is what the rest of the application
sees of it.

The hook thread feeds every keyboard edge to the key engine and carries out what
the engine asks, before it answers the system whether the edge passes. Activations
reach the application, through the helper, as `ActivationDown` and `ActivationUp`,
which the echo session reads as presses. The session asks the helper for a *capture
mode* (off, session keys, terminal) through the capture reconciler; it holds the
microphone, a lease on the model from the whisper client, a stream of audio to it,
and in the end one request to paste. The whisper client serialises its requests to
one worker process at a time; the model manager takes the exclusive lease to
change the files.

What makes each part correct:

* reducer: an enabled lease keeps every prerequisite; nothing is applied to a
  lease that did not ask for it; no key, paste or effect is forgotten by a close,
  a seal or a stop; uncertainty never turns back into permission; every close,
  cancellation, seal and retirement comes to an end;
* key engine: each key taken from the system is released or replayed; the
  application sees modifiers balanced; an activation told is ended;
* echo session: one outcome, told truly and recorded once; nothing held when it
  is over; the session, the shutdown and the capture of keys come to an end;
* whisper client: files never change under a worker that reads them for a caller,
  given up or not, or for a verification under way; each request is settled once, for
  its own reason; no process and no lease is forgotten;
* helper supervision: the shortcuts enabled are those wanted and allowed; a helper that
  is wanted comes back, but not in a tight loop; one that is stopped does not;
* data reset: only the directory whose reset was asked for is deleted; one that was
  renamed is always found again; what was reported complete does not come back, unless a
  loss of power on Windows brings it back; the application never runs on a profile that
  the next start will delete.

The hazards behind these are listed with their lines in `PROJECT.json`.

## 2. Modules

| Module | Content |
|---|---|
| `OwnerTypes` | the fields of `KeyboardOwnerState` as the set of records `State`; `NewOwner` |
| `OwnerReducer` | the private helpers, each an operator from the state a `&mut self` method finds to the state it leaves |
| `OwnerState` | the specification: one action per public method that can change the state |
| `OwnerProperties` | type invariant, safety invariants, action properties |
| `OwnerDocumented` | statements of `docs/` that the code does not keep |
| `OwnerLiveness` | fairness of the server and the adapter, liveness properties |
| `OwnerInvariant` | the inductive invariants: of the leases, and of the work behind the gate |
| `OwnerProofs` | every private helper preserves the core of the invariant, every action the invariant; every helper and action latches; the theorems about leases and pastes |
| `OwnerWorkProofs` | every action keeps the work behind the gate in order; the theorems about the plan, the close and the neutral dispositions |
| `ModelAccess` | the writer-preferring lease on a model's files |
| `WhisperClient` | requests, worker generations, termination, quarantine and restart |
| `WhisperSession` | their callers: transcriptions, verifications, mutations, the streaming session |
| `ModelUse` | abstract: what serves a call reads, what changes excludes it |
| `WhisperProperties` | the properties, and the refinement of `ModelUse` |
| `WhisperInvariant` | the inductive invariant, as operators on a state |
| `WhisperProofs` | what each operation keeps; what each action keeps, and the theorems |
| `KeyMatcher`, `KeyJournal` | bindings and edges; the journal, its batches and cleanup |
| `KeyEngine` | the transactional engine: each input gives engine, turn and disposition |
| `KeyCallbacks` | the hook thread: callbacks, deferred turns, controls, what the application sees |
| `KeyProperties` | its properties |
| `CaptureReconciler` | the session's view of the capture mode: asked, applied, certain |
| `CaptureHelper` | abstract: the reconciler against a helper that is slow, is lost and comes back |
| `CaptureProofs` | what the reconciler's operations and the pipe keep of each other, and how a turn of the session is a chain of them |
| `CaptureHelperProofs` | the reconciler never believes the capture off when it is not |
| `EchoReducer` | `session-reducer.ts`: the phases and the effects of an event |
| `EchoSession` | the session with its effects, and everything at its other end |
| `HelperChannel` | the request channel, and the queue of continuations behind the promises |
| `HelperActivation` | the reconciler of the activation shortcuts |
| `HelperClient` | the supervision: launch, health, failure, termination, stop, reset |
| `HelperProperties` | its properties |
| `HelperProofs` | its inductive invariant, operator by operator, and the theorems |
| `EchoProperties`, `EchoLiveness` | its properties, the refinement of `CaptureHelper`, its fairness |
| `EchoProofs` | every step of the session is one of `CaptureHelper`; the session's own inductive invariant; what is held, and what is told of the paste |
| `ResetDisk` | directories with identities, the journal, and what a loss of power may take back |
| `DataReset` | preparation, cancellation, recovery and removal, by two processes and their removers |
| `ResetProperties` | its properties |
| `ResetProofs` | its inductive invariant, and the theorems |
| `MC*` | instances for TLC |

### The owner against the code

The whole struct is one variable `owner`, a record with the struct's field
names in short. A Rust method runs to its end and keeps what it changed also when it
returns an error, so a method is one action, with every trailing
`issue_next_dependent` and `maybe_begin_degraded_exit` inside it. A call that is
refused and changes nothing is a stuttering step.

Abstractions, all of data:
* a `ControllerCapability` (epoch, nonce, sequence) is its epoch; a command with the
  wrong capability or sequence is `ProtocolFault`;
* a token is the slot of `pending_actions` it occupies. The code's action number
  is never reused; here a slot is reused only after its token was consumed, and a
  confirmation of a consumed token is `StaleConfirmation`. The counter itself is the
  Boolean `idsLeft`, which `ActionIdsExhausted` may clear at any time;
* bindings are determined by (epoch, revision), a maintenance request with its
  operation is a model value, the two drain counters are one;
* timers have no clock: expiry is `ControllerLost`, which may happen at any time.

The protocol server answers every token within the drive that issued it, except
a close, which it may defer. The model lets any token be answered at any later
time, in any order, with anything in between. So the model has every behaviour
of the program and more: an invariant that holds here holds there, and a
violation is reported as a finding only when its trace needs no reordering that
the reducer's own interface and documents exclude. The reducer is written and
documented as tolerating that asynchrony (its confirmations re-check the state
and supersede), which is what the runs exercise.

### The whisper client against the code

The client is single-threaded JavaScript: an action is the code from one await to
the next, and the worker, timers and callers move in between. The state is one
record `w`; a method that others call is an operator on it. A generation's process
is alive until it is killed or exits. `kill()` that returns true is the process
dead; a forced kill by process number confirms nothing. What happens in a behaviour
(which callers call, pushes, `close()`, a slow health answer) is chosen at the start
from the constant `Casts`, which bounds it. A spawn that fails counts a generation,
up to `MaxGeneration`. Audio, timings and the result's text are abstracted;
`memoryPressure` is the request `unload` is, and the sharing of a verification by
two callers is left out.

### The key engine against the code

The engine is a record and each input returns the engine it leaves, the turn it
asks of the adapter and the edge the foreground receives. `KeyCallbacks` is the
Windows hook thread: `real` is the keyboard, `tracked` the adapter's snapshot of it,
`seen` what the foreground was shown, `told` the activation the controller was told
of. A neutralization or replay is a deferred turn that drops the engine's final
disposition, as `process_deferred_callback_replay` does. A callback may come in while either
is under way, one at a time and no auto-repeat: it is tracked, and passes, but for a menu
release, which is kept back, and a letter the engine owned before a neutralization. When
the effect is over the engine is told what was tracked. `MaxLapses` bounds the edges
the hook misses and those that come in during a replay, together. `lost` are the letters
of which an edge was missed and the keys of which an edge overtook their replay: the application may be
left with a wrong idea of them, and `NoStuckLetter`, `NothingSwallowed` and
`ModifiersFollow` except them by that name (run `key_overtaken`). A letter pressed
again during a neutralization is swallowed by the code without the engine's knowing
(`hidden`), and `NothingSwallowed` excepts it.

A callback samples no modifiers: `callback.rs:71` passes none, so the reconciliation of
`event.rs:89` never runs. A letter is therefore judged under the modifiers that were
tracked, stale ones after a missed edge included, until the poll (`ReconcileNative`)
corrects them in the middle of whatever was begun. A release that was kept back is
injected when the neutralization is over; the system may take some and refuse
others, and then the gate closes. `ReconcileGap` is the recovery of the macOS event tap.
`JournalCapacity` is 6: the code's `2 * ACTIVATION_KEY_CAPACITY + 2` for the two letters of
the instance.

### The echo session against the code

`c` is the application's side: the reducer's state, the effect chain with its
program counter, the reconciler and the flags of `EchoSessionContext`. The other
variables are what is at its other end: the helper (its native capture mode, the
presses, answers and notices on its pipe, the requests it was sent), the microphone,
the model's lease and the stream of each session, the paste, and what may still
happen. An effect is a step per await; the reducer runs within the step that raises
its event, as `dispatch` does. Session keys, silence and the cap on duration are
`Cancel` and `SubmitSession`, which may come at any time. `faults`, `presses` and
`sessions` bound a behaviour, and the *plan* drawn at the start says which of the
optional events are in it: the plans pair what may race.

The answers and limits of the environment are those of the code: requests of a lost
helper reject before its successor is ready; a reset always moves the revision,
since the readiness handler marks what was applied unknown; the controller's
deadline (5 s) is longer than dispatch (3.5 s) and settling (1 s) together and the
helper's own timeout is 3 s, so a request without an answer is a helper that is
lost. An activation that the session refuses (test of the shortcut, shortcut being
recorded, missing prerequisite, unknown profile) is the refusal branch at idle.

### The helper's supervision against the code

`h` is the client, the fields of `HelperClientRuntime`, `HelperRpcRuntime` and
`HelperActivationReconciler` in one record, with the program counters of the promise
chains (`launching`, `health`, `termination`, `stop`, `reset`, `running`). The client is
single-threaded. What a settled promise sets off is *not* run at once: the continuation
is appended to `h.jobs`, and runs in turn before any other event (`Idle`), as the
microtask queue has it; the code between two awaits is one step. `native` is whether the
helper has the shortcuts enabled, `owner` whether its keyboard owner is the one the
client knows. A request is named after the chain that awaits it, and the permissions and
the ping of a health snapshot, always asked for together, are one request.

The reasons of a readiness are kept as what the supervision does about them (`Classes`:
retried, not retried, an owner that hands over) and the outcomes of a snapshot it tells
apart (`Snapshots`). `launching`, `health` and the rest are put back to their first value
when a chain is over, so that dead state does not count. Times have no clock: a timer
that is armed may fire, and of the failures in the window any that are oldest may have
left it (`kept`). An acknowledgement of another configuration than was asked is the
malformed frame it is reported as. `h.unclean` is not in the code: it remembers that a
stop threw since the last launch, for the properties to say so.

### The data reset against the code

A directory keeps its identity (`fileIdentity`) wherever it is renamed to; `disk` says
where each is, how much of it is left, and what the journal holds. Each action is the
code of `recoverReset`, `prepareReset` or `cancelPreparedReset` between two awaits that
touch the disk; `proc[p].at` names the next one. The application and the uninstaller's
reset are two processes with the same code; each may start the native remover
(`remover`), which goes on as `"orphan"` when its parent dies, and answers a parent that
lives. A step whose promise rejects is `Reject`: a start fails, the uninstaller tries
once more, a preparation is cancelled, and after the deadline nothing follows.
`late` is a preparation or cancellation whose deadline has passed: it may still
take effect until the process has gone.

`survivors` holds every state the disk has had since the last synchronisation. A loss of
power, on either platform, leaves one of them: the changes are of directory entries, which NTFS and APFS
journal in their order, and a file's content is synchronised before it is renamed into
place. `syncDirectory` empties the set on macOS and does nothing on Windows, as its
comment says; the remover's own flush works on both. `asked`, `completed` and `revived` are not
in the code: what was asked for and not cancelled, what was reported complete, and
the directories that a loss of power on Windows has brought back to a reset
that was over (`Returned`). On Windows the application renames the directory that the browser
has open (`bootstrap.ts:72`): `RootHeldOpen` is the refusal, possible at every start, and
not counted as a fault. `Foreign`
directories stand for one that somebody else puts at a path of the reset, at any moment.
The nonce of a reset is its number, so that its paths are its own.

## 3. Runs

| Run | Instance | Properties |
|---|---|---|
| `capture` | one connection, one paste with a candidate beside it, two revisions (the second closes an open gate), both failures, two faults of which one exhausts the counter | `TypeOK`, `EnabledSound`, `AppliedBelongsToLease`, `CloseAssured`, `PasteOwnershipAgrees`, `DependentsInOrder`, `FailClosed`, `CancelledPasteNeverClaims` |
| `maintenance` | two interchangeable connections (symmetry), two epochs, one transaction, which may begin while a configuration is applied; session-key capture, one effect; drain, cleanup and conservative snapshots; an action that fails without effect; a stream out of step | `SealedNeverCaptures`, `NeutralIsTrue` |
| `live_seal` | a transaction, a candidate, a drained key, one readiness dimension, failures, stale confirmations | `SealingEnds`, `PredecessorTold`, `ClosingEnds` |
| `whisper` | two transcribers, a verifier, a mutator, the streaming session, in seven casts of two to four; two generations, one restart | `UseCoversWork`, `SharingIsFair`, `NothingForgotten`, `FilesNeverChangeUnderUse`, `NoStartAfterClose` |
| `key` | two letters, two alt keys of which one may be AltGr, `alt+a`, `alt+a+b`, then `alt+b`; one edge that is missed or comes in during a replay | `NoStuckLetter`, `NothingSwallowed`, `ModifiersFollow`, `ActivationPaired`, `BeliefsAreTrue`, `TerminalNeverCaptures` |
| `echo` | seven plans of one or two sessions, one or two presses, one fault | `CaptureOffIsTrue`, `IdleHoldsNothing`, `HistoryIsTrue`, `CaptureImplemented` |
| `echo_live` | four plans of one session | `SessionEnds`, `ShutdownEnds`, `CaptureReleased` |
| `helper` | one caller of resets, a circuit that opens at the second failure, any number of launches, failures, configurations and owners | `NativeFollowsIntent`, `NeverAbandoned`, `CircuitHolds`, `ShutdownIsLast` |
| `reset` | two resets, two faults, a profile, the root made after its reset and a directory of somebody else, journals of versions 2 and 3 to begin with, a browser that may make the root; both platforms | `OnlyAskedIsDeleted`, `NothingLeftBehind`, `CompletedStaysGone`, `RunningIsNotDoomed`, `ResetEnds` |
| `claimed_paste`, `key_overtaken`, `helper_ready` | section 4 | one each, violated |

The type invariant of a component is a conjunct of one of its properties
(`NothingForgotten`, `BeliefsAreTrue`, `HistoryIsTrue`, `CircuitHolds`, `NothingLeftBehind`);
the owner's is `TypeOK`.

**Owner.** The instances have four token slots for the code's eight (three for
liveness); `CloseAssured` says among other things that they are not filled, so fewer
slots hide nothing. `EpochLimit` bounds the leases granted and the transactions
begun; two of a kind are needed for a successor to follow a predecessor or a
transaction to be reacquired, and the `maintenance` run has them. `MaxDrain = 1` and
`MaxCleanup = 1` tell "some key to release" from "none", which is all the reducer
asks. Whatever order confirmations, failures, faults, rollback and losses take, an
enabled lease keeps what enabling demanded; the cancel steps precede what depends on
them and are neither forgotten nor stranded (`DependentsInOrder`); a gate that is not
closed has a close on its way and a token for it (`CloseAssured`); a stop happens
only over drained native state, and a neutral disposition told to a predecessor stays
true, both as long as native state is known (`NeutralIsTrue`).

**Whisper.** The files of a model never change under a worker that reads them for a
caller, given up or not, or for a verification that is under way
(`FilesNeverChangeUnderUse` is the refinement of `ModelUse`, `ReadsFor` says what reads); the
check that goes on after its verification was cancelled is not covered by the code
(section 4). It holds because a lease moves to
the generation that outlives its caller (`UseCoversWork`) and leaves with it
(`NothingForgotten`, which also has every live process watched or quarantined). `SharingIsFair`:
one request is at the worker, and a caller is told of a cancellation only if it was its
own. Two generations are enough for an answer, a kill or a restart to be
about the earlier one, and a quarantined worker beside a live one. A quarantined
worker that never dies keeps its lease, and later mutations wait: that is what the
code chooses.

**Helper.** Nothing bounds a behaviour but the application, which starts and stops its
client once: failures, restarts, health checks, resets, configurations and changes of
the owner go on for ever, and the run covers their 1.9 million states. `FailureLimit` is
2 for the code's 5, the least for which a failure may leave the window or open the
circuit. `Printed` is what the helper may say on its error output of a launch that fails:
here only that its owner is busy, which changes the class of a failure that would be
retried; the other classes reach the same code as answers. `NativeFollowsIntent` relates
the helper's shortcuts to what is wanted and allowed, across late expiries, owners that
change and refreshes that overlap a configuration. `NeverAbandoned` says that a helper
that is wanted comes back, `CircuitHolds` that it does not come back in a loop,
`ShutdownIsLast` that a helper being ended hears only that, and that a client that says
it stopped starts nothing. That resets and stops come to an end was checked on a smaller
instance (no configurations, `FailureLimit` 1) and is not a run, for its cost.

**Key.** Two letters and a shortcut that is a prefix of another reach every state of
the engine: prefix, exact, exact with longer, commitment, drain. The second
configuration makes a replacement in the middle of a candidate. The journal reaches
its limit by auto-repeat. Callbacks may race a neutralization any number of times; one
lapse, an edge that is missed or one that comes in during a replay, is enough for the
owner's picture of the keyboard, or the application's, to go wrong and be put
right again, and a second multiplies the states beyond the run. The lapse comes while the
engine may still capture (`MayLapse`): afterwards every press passes, and there is nothing
to believe wrongly. Of the ways to end the work from outside, a gate that is closed, a shutdown and a
terminal cancellation, an execution with a lapse has at most one (`MayEnd`); without a
lapse they come in any order and number.

**Echo.** Two sessions are needed for an answer to be about an earlier one, two
presses for one that no session reads. `HistoryIsTrue`: the outcome that is recorded is
what happened to the paste, and is recorded once. `CaptureImplemented` says that every step of
the session is one of `CaptureHelper`, for which `CaptureOffIsTrue` is proved.

**Data reset.** Two resets are needed for a remover or a write of the first to meet the
second; two faults for a failure during the recovery from one. A fault is a crash, a
loss of power, a rejected operation, or a failed remover; `SomebodyReplaces` and
`RootHeldOpen` are not counted. The safety properties were also checked with three faults.
The two directories of our own are a profile and the root that is made after its reset, by the
application or by the browser. `OnlyAskedIsDeleted` covers the foreign directory, the new
profile and the one whose reset was cancelled, but for what is `revived`;
`NothingLeftBehind` speaks of what any loss of power would leave, on both platforms, not only
of what is on the disk; so does `CompletedStaysGone` on macOS, where nothing is ever `revived`
(`ResetTypeOK`). `ResetEnds`: a reset interrupted anywhere, and by whatever, is completed or
cancelled in the end, unless another directory, somebody else's or a new root, stands at
one of its paths (`InTheWay`), or Windows does not let the root be renamed (`HeldOpen`).

Every run says `CHECK_DEADLOCK FALSE`: the owner's purpose includes exiting; the
callers of the whisper client call once; the keyboard's gate closes for good at a
failure; the application ends, and stops its helper; the number of resets is bounded.

Every property is paired in `PROJECT.json` with a mutant: a definition of the
model changed as a plausible mistake in the code would change it, for which the
same run finds the property violated. The mutants are kept next to what they
mutate ("Mutant of ...").

### Fairness

The owner's `FairSpec` assumes only what the server's loops provide:
* some outstanding token is answered, again and again
  (`drive_actions_and_offer` runs until nothing is ready). Not each token: the
  code promises no order;
* a close that stays due is now and then carried out rather than failing for
  ever (`drive_close_iteratively` and the deferred close retry it);
* admitted effects are written or dropped with their connection;
* behind a closed gate the keys are let go and reported, a claimed paste is
  completed, and the predecessor is offered what is true, after every drive.

Nothing is assumed of the controller, of readiness or of faults. The first two
fairness conditions are written with their enabling conditions spelled out
(`AnswerDue`, `CloseDue`): TLC takes very long to evaluate ENABLED of them.

The echo session's `FairSpec` is one weak fairness condition on `Progress`: what the
application, the recorder, the worker, the helper and the pipe do of themselves. An
effect goes on (the promise chain), a timer fires, a request is answered or its
helper is taken for lost, a lost helper is started anew. The user's steps, the timers
that end a recording and the faults are not in it; nor is, in the plans with
`"stop"`, that a microphone which was told to stop does. One condition over the whole
disjunction is weaker than one for each, and is enough: what a session waits for is
finite. That a reset of the helper ends, which it takes for granted, is the supervision's
part of it (see above).

The data reset's `FairSpec` has one weak fairness condition for each process and one for
each remover: a process that has something to do (`ProcessDue`) goes on to its next await by some
step or other, a remover that has begun does too (`RemoverDue`), a process that is quitting ends
(`requestQuit` has a deadline), and the application is started
again after every crash. The last is the user's, or `app.relaunch`'s; without it nothing is
recovered. The conditions are ENABLED spelled out. A new journal and a new root are not asked for, as their
bounds may prevent them. Faults are finite by their bound, which stands for "not at every start". The refusal to
rename the root on Windows is not a fault: it may come at every start, and `ResetEnds`
excepts it.

The whisper client, the key engine and the supervision have no
liveness property.

## 4. Findings

Three statements of the repository are not kept by its code, each shown by a run:

| Run | The code | The document |
|---|---|---|
| `claimed_paste` | a paste claimed while the candidate is being cancelled is overwritten with `Cancelling` (`state/admission.rs:244`) | `keyboard-owner-state-machine.md:172`, a claimed paste is completed or indeterminate |
| `key_overtaken` | the release of a letter that comes in while its press is being replayed passes first (`callback/event.rs:41`, `transaction/deferred.rs:74`); the press is injected behind it, and an engine that is idle has no cleanup for it | `keyboard-shortcut-event-semantics.md:269`, each down that the foreground sees has one up; `keyboard-owner-state-machine.md:239` |
| `helper_ready` | a reset whose stop ends uncleanly leaves the readiness `ready` with no process and no restart scheduled (`helper-client-supervision.ts:92`, `helper-client-shutdown.ts:249`) | `helper-readiness.ts:101`, `ready` means the transport, owner protocol, hook and message pump are available |

In `helper_ready` the process is stopped for a reset (the system woke, or the helper refused
to turn its capture off), and the stop throws: the exit code is not 0, the shutdown is
refused or expires, or the process has to be killed. `handleClose` leaves everything to
the stop, the stop publishes nothing when it throws, and its restart timer was cleared.
The wake revalidator swallows the error (`helper-wake-revalidator.ts:48`), so the
application believes its helper ready and has no shortcuts until the next wake or reset.

`key_overtaken` needs no failure, only that the user lets go of the letter while the owner
thread injects its press: the letter stays down in the foreground application until it
is pressed again.

Nine more statements of the repository are written down in `OwnerDocumented`,
`OwnerLiveness` and the modules of properties. TLC finds each violated when it is named as an
invariant or property of a configuration of its component, the last four in the
instances of the `key`, `whisper` and `reset` runs (`InterruptedResetEnds` with `Foreign = {}`);
no run of the project does.

| Statement | The code | The document |
|---|---|---|
| `UnknownNeverExits` | `confirm_native_stopped` exits although native ownership became unknown while the stop was under way | `keyboard-owner-state-machine.md:190` forbids clean exit |
| `DegradedOwnerExits` | `maybe_begin_degraded_exit` is not tried again when the predecessor has been told, nor when the stop failed; the runtime's bounded shutdown (`runtime.rs:603`) ends the process by other means | `:73`, degraded recovery ends in exit |
| `AbandonedSealIsReacquirable` | rollback removes the maintenance controller and leaves the phase `Exclusive`, which `acquire_maintenance` never grants again | `keyboard-owner-lifecycle.md:117`, the transaction may be reacquired |
| `SealedNeutralIsReady` | rollback during persistence plans a drain that `confirm_maintenance_persisted` does not continue; the sealed owner never becomes quiescent | `:229`, it is ready |
| `RollbackSupersedesConfiguration` | rollback clears the configuration planned, not the one merged into the close, and it is applied as current | `keyboard-owner-wire-reducer-mapping.md:33`, it is superseded |
| `ModifiersBalanced` | a modifier release that ends a candidate is withheld; when the replay fails, the engine's late `PassCurrent` is dropped (`transaction/deferred.rs:63`), and the application never sees the release | `keyboard-shortcut-event-semantics.md:275`, modifier sides stay balanced across success, failure, shutdown and recovery |
| `LeaseCoversVerification` | a verification that is cancelled returns its lease in a `finally` although its worker could not be killed and goes on checking, and a waiting mutation then changes the files (`model-manager-verification.ts:91`) | `model-access-coordinator.ts:25`, use leases cover verification |
| `CancelledIsNeverDeleted` | on Windows `syncDirectory` does nothing, so the removal of a cancelled journal is not durable when the application relaunches (`data-lifecycle-service.ts:248`); a loss of power brings it back with the root it names, which no validation finds ambiguous, and the next start deletes the profile | `reset-preparation.ts:76`, relaunch is safe only after the journal is definitely absent; `atomic-json.ts:32`, callers fail closed |
| `InterruptedResetEnds` | after a crash that follows the first rename of a recovery the browser, which has the directory as its own before the recovery runs (`bootstrap.ts:72`, `:141`), may make the root again; `recoverReset` finds a live root beside the tombstone, or beside the phase `disposal-pending`, and throws at every start (`reset-recovery.ts:39`) | `data-lifecycle-service.test.ts:149`, each such crash is recovered from; `application-startup-foundation.ts:58`, a missing root is created only after the recovery |

More observations, which no run shows:

* a paste cancellation that fails while the gate is open leaves it `Unknown` with no
  close requested (`state/confirmation.rs:288`; this is why `CloseAssured` and
  `ClosingEnds` speak of states that are not poisoned);
* a transaction that begins over unknown native state plans no persistence and stays
  `Sealing` (`state/admission.rs:194`; `SealingEnds` speaks of known native state);
* the count of effects may grow again while the gate is `Unknown`
  (`state/controller_loss.rs:60`);
* `stop({requireNeutral: true})` that joins a stop under way does not get what it
  requires (`helper-client-shutdown.ts:117`);
* a helper that could not be killed in a stop for a reset, and exits later, exits with
  its planned exit `shutdown`, which no restart follows (`NeverAbandoned` names it), and
  a stop that overlaps a termination nearly always counts as unclean, because the
  termination's shutdown was answered first and the stop's never is;
* a configuration that finds a health refresh under way succeeds without having been
  applied (`helper-activation-reconciler.ts:278`): the refresh applies it, or the
  helper is ended;
* the uninstaller's reset asks for the single-instance lock under a user-data directory
  of its own (`bootstrap.ts:72-81`), where the comment at `:99` takes the lock to tell of
  an application on the target. `DataReset` takes for granted that the two do not run
  together;
* `reconcileCopiedProfile` removes `tmp` and `runtime` of whatever is at the root before
  its marker is read (`data/data-lifecycle-service.ts:108`).

## 5. Proofs

### The owner

`OwnerProofs` proves, for every set of connections, pastes, requests and
revisions, any number of tokens, any snapshots the adapter may report and any
failures:

* `OwnerInvariantHolds`: `Spec => []InductiveInvariant`, the strengthening on which the
  next ones rest;
* `OwnerTypeCorrect`, `EnabledIsSound`, `AppliedConfigurationIsCurrent`,
  `SealAndCaptureExclude`: the invariants `TypeOK`, `EnabledSound`,
  `AppliedBelongsToLease` and `SealedNeverCaptures` of the runs;
* `RollbackIsFinal`: the invariant `RollbackRetiresCapture`, that no capture lease and
  no configuration survives rollback;
* `OwnerFailsClosed`, `PasteRecordsAgree`, `CancelledPasteStaysCancelled`: the action
  properties `FailClosed` and `CancelledPasteNeverClaims`, and the invariant
  `PasteOwnershipAgrees`;

and `OwnerWorkProofs`:

* `OwnerWorkHolds`: `Spec => []WorkInvariant`, on which the next ones rest;
* `OwnerDependentsInOrder`, `OwnerNeutralIsTrue`: the invariants `DependentsInOrder` and
  `NeutralIsTrue`;
* `OwnerCloseAssured`: the invariant `CloseAssured`, for a finite table of more than four
  tokens. The code's has eight (`OWNER_ADMITTED_EFFECT_CAPACITY`, `state.rs:17`).

With them every safety property of the owner's runs is a theorem.

The assumptions are those on the constants: `None` is no identifier or value
(`NoneAssumption`, `OptionAssumption`), counts are numbers
(`BoundsAssumption`), snapshots are well typed (`ObservationsAssumption`).
`EpochLimit` and the faults only restrict the actions; the theorems hold for
every value of them.

### The argument

`EnabledSound` is not inductive. An enabled lease must not be caught with a
configuration that fails later (its failure clears `applied`), so no configuration
may be planned or under way while the gate opens or is open
(`GateHoldsConfiguration`). A stop that fails puts the owner back to `Running`, so
there must be one stop only, and no lease while it lasts (`StopsOnce`). A seal that
fails to persist needs its transaction (`PersistsTransaction`). With the exclusion
of capture by seal and rollback, and `ReconciledForLease`, these make `Core`.

The private helpers call one another in states where an enabled lease has
already lost what it was enabled for, and is about to be demoted. So the
invariant is split: `Core(s)`, which *every helper* preserves, and
`EnabledStays(s)`, which every *public method* preserves. `OwnerProofs`
shows for each helper from `s` to `t` that `Core(t)` holds and that `t` has no
enabled lease, or everything the lease stands on is as it was in `s`
(`EnabledKept(s, t)`). Most helpers only *retreat* (`Retreats`: no new work, gate
no wider, lease as it was or gone), and `RetreatsCore` settles them at once. The
others, which issue tokens (`IssueCore`, `BeginNativeStopCore`) or add to the plan
(`AddDependentsCore`), are shown from the condition their kind demands.
Then it chains them along each action.

`OwnerProofs` follows a second relation, `Latches(s, t)`, the same way: nothing
that was latched is released, the gate is not moved towards open, the two records of a
paste do not part unless native state becomes unknown, and a paste withdrawn does not
become claimable. It composes, and each helper has a lemma for it that needs nothing of the
state it is called in. Of the actions only `Enable`, `ConfirmAdmissionOpened` and
`BeginPaste` do not latch unconditionally: they rest on their guards. So the three
theorems need no strengthened invariant, and say of every path through the helpers what
the runs say of the paths of a small instance.

`OwnerWorkProofs` needs a second invariant, `WorkInvariant`, since what the plan may hold
depends on who will continue it. A table of tokens cannot fill up because of each class
one is outstanding (`OneOfAClass`): a command issues its token when nothing is pending, the
plan issues a dependent token when none is, and a close merges into the one under way; so there
are four at most, and the theorem is the pigeonhole. Planned work is not stranded because
behind a closed gate the plan is empty unless something is pending whose confirmation
continues it (`PlanContinues`). This holds only because the persistence of a seal, whose
confirmation does not continue the plan, is the last step (`PersistIsLast`), because a
gate that is not closed has nothing planned but the cancellation of a paste
(`WorkWaitsForGate`), and because an admission that ends leaves its paste cancelled or planned
(`AdmissionPends`, `CancellationUnderway`). A neutral disposition stays true because nothing
can begin while a predecessor is being told (`SuccessorWaits`, `NeutralStays`,
`StoppedIsDrained`). Nothing of this holds once native state is unknown, and the code does not
claim it: the invariant then keeps the tokens, the close (`CloseUnderway`) and that
doubt is never taken back silently (`DoubtIsUnknown`, `PoisonStops`).

The helpers call one another in states where it does not hold, so its parts come in grades.
`Tidy(s)` is what every helper finds and leaves. `Planned(s)` adds what must hold when the plan
is dispatched, with a candidate planned behind a closed gate first. `Settled(s)` adds that
it has been, and every public method ends settled. What a helper does to the fields the
invariant does not speak of is left out with one relation (`Alike`).

### The capture reconciler

`CaptureHelperProofs` proves `Spec => []CaptureOffIsTrue` for the abstract helper, for
any notices, and any number of presses, requests, answers, losses and resets: the
reconciler holds the capture to be off only if the helper's native mode is off or a
press that is still on the pipe has armed it. By itself that is not inductive: an
answer on the pipe will be believed when it is read. The invariant adds that the pipe
holds at most the one answer of the call in flight (`OneAnswer`), that a fresh
acknowledgement on it is true unless a press on it has armed the capture again
(`AckIsTrue`), and what the reconciler's fields say of each other (`Sound`: a fresh
call is about the mode desired, and the capture is not held off while anything else is
desired or asked for). Each operator of `CaptureReconciler` has a lemma: it keeps
`Sound`, and what it leaves `Follows` what it found, that is, it issues calls and makes
them stale, and neither answers them nor comes to believe the capture off. These lemmas know no
variables, and serve the session too.

### The echo session

`EchoProofs` proves every safety property of the `echo` run, for any
number of sessions, presses and faults and any plans:

* `SessionImplementsCapture`: the refinement `CaptureImplemented`, and with it
  `SessionCaptureOff`, the invariant `CaptureOffIsTrue` of the whole session;
* `SessionIdleHoldsNothing`: the invariant `IdleHoldsNothing`;
* `SessionHistory`: the invariant `HistoryIsTrue`, with the session's type.

The assumptions are on the constants: sessions are numbered (`MaxSessionsAssumption`) and a plan
names happenings and counts (`PlansAssumption`).

*The refinement.* A step of the session calls the reconciler in the course of a dozen other
things. Every operation is therefore classed by what it may do to it: `Keeps`, `Asks` (it may have asked
for a mode), `Notes` (it may besides have begun a generation for a new session, or shut down). These compose,
and `CaptureProofs` shows that whatever they compose to and then the
reconciliation that ends the step is one `Turn` of `CaptureHelper` (`Turned`). The invariant that the mapping needs is
that of the abstract module, `Agree`, with that the reconciler is at rest
between two steps and that a session that is disposed has shut it down. `SessionCaptureOff` follows
from the same invariant.

*What is held and told.* A microphone, a lease or a stream can arrive at any time, in any phase, also
after its session. That none is held when the session is idle rests on who asked for it: the session
that owns the capture, before it was told to stop (`Held`), and a session that is idle,
torn down or over owns none (`Owned`). So the invariant has to follow ownership through the effect
chain: which effects may still be to come in a phase, in what order, and with which fields
(`InOrder`, `Shaped`). The order is what excludes that a capture is opened behind its own
teardown. What is told of the paste rests on the wire: while a paste is out, the insertion that waits
for it is at the head of the chain, and the notices on the pipe are those of this paste, a
commitment at most followed by its end (`Pasting`); so a commitment read belongs to the session
that reads it, and no later transition takes back what it wrote (`Written`). A dispatched
transition is taken apart once (`Led`), and each reducer event is shown to give a context that is `Orderly`
and `Serves` the former: resources are heard of, proofs kept, the wait not abandoned. An
action then has to show only what it does to the microphone, the wire or the paste.

### The whisper client

`WhisperProofs` proves every property of the `whisper` run, for any transcribers,
verifiers, mutators and casts, and any number of generations and restarts:

* `ClientKeepsInvariant`: `Spec => []WhisperInvariantHolds`, on which the others rest;
* `WorkIsCovered`, `NothingIsForgotten`, `WorkerIsSharedFairly`: the invariants
  `UseCoversWork`, `NothingForgotten` (with the type invariant) and `SharingIsFair`;
* `CloseIsTheEnd`: the action property `NoStartAfterClose`;
* `ClientImplementsModelUse`: the refinement `FilesNeverChangeUnderUse`.

What reads, in both `UseCoversWork` and `ModelUse`, is a worker with a request of a caller
that has a use lease, be it answered, cancelled or given up, or with the check of a verification under way
(`ReadsFor`). The check of a verification that was cancelled is outside: there the code is
wrong (section 4).

The assumptions are on the constants: the callers of each kind are apart from one
another and from the names of the session's requests (`CallersAssumption`,
`DistinctAssumption`), `Nobody` is no caller (`NobodyAssumption`), the bounds are
numbers (`BoundsAssumption`).

`UseCoversWork` says that a worker that reads has its caller's lease. The lease is
returned at four places, each of which must know that no worker reads any more, so the
invariant has to say who will return it. A reading job is that of a call under
way which has captured this generation, or of one that is over and has left its lease
with it (`JobsCovered`); a lease is left with one generation, which is quarantined or being
terminated (`LeasesOwed`, `NoneLeaked`); and what is alive is the current process or a
quarantined one (`ProcessesKnown`), which is declared dead only when it is
(`TerminationIsCurrent`). An answer is believed when it is that of the request that is sent,
hence what a worker does was sent to it and is not answered (`JobIsSent`), the chain
is the requests that wait, once each, the sent one first (`ChainSound`), and a request
belongs to a call under way (`RequestsOwned`). The streaming session returns its lease when
it is told that its stream was dropped. That is sound because it asks only when it can send
nothing more that reads (`Risk`, `SessionSound`), and its requests go to the
generation it began with (`SessionStays`); until then it has the lease
(`SessionCovered`). The lease itself excludes mutation from use, and nobody waits twice
(`LockOK`, `CallersHold`): its queue admits every use in front of a mutation at once,
which takes the least index at which a mutation waits.

An action of the client is a chain of its methods, so each part is an operator on a
state and a lemma says of each method which parts its result has and what it
leaves alone: `Quiet(s, t)`, nothing takes up work, and `Calms(s, t)`, nothing changes but
that work ends. The lease's operations are proved on the lock alone (`Serves`, `Yields`). What a
method leaves may break a part that its caller restores: `JobsCovered` between an answer and
the return of its lease, for one. Such lemmas name what they require. It is then shown for each action from `s` to `t`
that `Sound(s, t)`: the invariant, that the step is one of `ModelUse` or none, and that
nothing starts under `close()`. The three kinds of theorem are read off it.

### The helper's supervision

`HelperProofs` proves three of the four invariants of the `helper` run, for every failure limit
above 0, every set of classes the helper may print, and any finite set of callers of resets:

* `HelperInvariant`: `Spec => []HelperSound`, on which the others rest;
* `HelperNeverAbandoned`, `HelperCircuitHolds`, `HelperShutdownIsLast`: the invariants
  `NeverAbandoned`, `CircuitHolds` (with the type invariant) and `ShutdownIsLast`.

The assumptions are on the constants: `FailureLimitAssumption`, `PrintedAssumption`
(what is printed has a class) and `ResettersAssumption` (callers of resets are finitely many,
and not named like the client's own chains).

None of the three is anywhere near inductive: whether a restart will come depends on what the
promise chains in flight will do, a dozen of them, on one queue of microtasks. What makes it
tractable is that a chain waits in one place at a time. A chain has a name, and its name is at the
helper or in its queue (`Asking`), among the microtasks (`Told`), with the reconciler of the
shortcuts (`Ops`), or waits for the error output (`Waiting`), once (`Plumbed`). `LaunchSound`,
`HealthSound`, `ReconcilerSound`, `StopSound` and `ResetSound` say for each program counter which
names are alive, and for a name what it may find when it goes on. The same parts are stated with
a set `X` of names *in hand*, that are nowhere because the microtask that runs has
taken them out (`Base(c, X)`), so that each operator of the model can have a lemma of its own:
`Settle` takes a name out of `X`, `Finish` and `EndLaunch` take those whom they tell, a
microtask begins with its own name and must end with none (`TailSound`, `ContinueSound`).
Operations of the channel only move names (`Moves`), those of the reconciler change only
fields nothing else depends on (`Quieter`).

`Held` is what the theorems are about: of a client without a stop, whose helper is gone and
that launches nothing, that the circuit's window or a restart is scheduled, or the failure is one
no restart repairs. It is the one part that an operator may break: a reset
whose stop has ended finds no helper and no timer, and keeps the promise only because its own
microtask, queued behind those of the other resets (`Returning`), will launch again. The queue's
order matters for the same reason: behind the microtask of a stop there may be no resetter that was told of an
earlier one (`JobsSound`). A client that says it has stopped has nothing to start one
(`CircuitSound`) since only a stop that ended cleanly says so, of a client that
wants no helper, and the stop has cleared the timer and let no launch begin meanwhile.

### The data reset

`ResetProofs` proves every safety property of the `reset` run, for any directories, of which
any may be somebody else's, any number of resets and of faults, and any inherited journal:

* `ResetKeepsInvariant`: `Spec => []ResetInvariantHolds`, on which the others rest;
* `NothingElseIsDeleted`, `RecoveryFindsWhatWasRenamed`, `CompletionIsFinal`,
  `RunningIsSafe`: the invariants `OnlyAskedIsDeleted`, `NothingLeftBehind` (with the type
  invariant), `CompletedStaysGone` and `RunningIsNotDoomed`.

There is no hypothesis: power may be lost at any time, on both platforms. The statements
except by name what a loss of power on Windows has brought back, which is `revived`; that on
macOS nothing is, is part of the first. The assumptions on the constants are that
`0` is no directory (`DirsAssumption`) and that an inherited journal of version 3 has a nonce
(`ResetsAssumption`).

What holds of a disk must hold of each that a loss of power may leave, so `DiskOK` is about
all `survivors`, on both platforms: no two directories share a path, what was renamed is named
by the journal (`Named`), and what has lost something is gone or named by it
(`LostIsCondemned`). That the reset a journal names is one that was asked for, and that what
was reported complete is gone, holds of all survivors on macOS, and on Windows of the disk as
it is (`Outcomes`): a loss of power there may bring back another, whose directory is then
revived, and may be deleted like one that was asked for (`Doomed`). `DiskOK` is
not inductive over the removals: one whose parent has died may go on erasing when its
directory was already found missing and the journal dropped. So `RemoverOK` and `AskedFor` say that
what is being removed was asked for, and is *gone* or still named by the journal. Gone is
for good, which no other place is. A journal may therefore be dropped in two ways only:
its directory is gone, or nothing was touched (`Untouched`), which is what a cancellation
rests on, and what lets it take back what was asked for. A process knows the journal
from the time it has read it (`Knows`) to when it drops it (`Clear`), and between finding that
the three paths are free and dropping it relies on the directory being gone: that holds because a
directory can leave the three paths only by being removed, or by being replaced by one that then
is there (`Names`).

Every action that writes the disk is shown to leave one that `Follows` what was: it is `DiskOK`,
nothing that is gone returns, nothing is lost but what is being removed, and the journal is
dropped in one of the two ways. `BecomeKeeps` gets the whole of `DiskPart` from that, for the
disk and for what may survive; `KeepKeeps` for the steps that leave the disk or synchronise it.
What a process relies on (`ProcOK`) is shown for the one that moves, as the other is off
(`Apart`), and for both when a removal or somebody else moves (`ProcStays`).

TLC checked these inductive invariants, and the owner's `WorkInvariant`, on the instances of
the runs before they were proved, that of the reset also with two directories of somebody
else, and they can be named as invariants of those configurations with `WhisperInvariant`,
`ResetProofs`, `HelperProofs` or `OwnerInvariant` extended.

### Model-checked only

All of the key engine, whose cleanup is built with sequence folds: its invariants are about what a
replay of the journal gives, which needs induction over the journal. Of the supervision
`NativeFollowsIntent`: it needs, besides `HelperSound`, what each of the reconciler's requests
asked for against what has changed since, and has not been worked out. All liveness (`ResetEnds`, the echo
session's, the owner's): it is out of the prover's reach.

## 6. Not modelled

* The **protocol server** but for its fairness: in particular `flush_admitted_events`
  may report success under back pressure (`protocol_server/events.rs:286`), which in
  the model is a close confirmed over effects that are still queued.
* The **macOS** side of the owner: its endpoint, identity and maintenance are platform
  code; its tap recovery (`retire_released_owned_letters`, which ends an activation
  without delivering its release, `macos/event_tap/tap_recovery.rs:124`) is a
  different driver of the same engine.
* Of the **key engine**: revision mismatches and effect counts no adapter can report,
  metrics, native key data, timestamps; two callbacks that race the same effect; a modifier
  that is pressed again while its release is being injected (`transaction/deferred.rs:79`);
  the auto-repeat of modifiers.
* Of the **echo session**: levels, wording, screenshots, the dictation mode, the smart
  provider's own session, history settings, helpers without session-key capture, an
  activation while the helper is not ready (its pipe is then empty).
* Of the **helper's supervision**: `restart()`, which nothing calls; `prepareOwnerMaintenance`
  (the macOS updater); the physical observation; requests that are not supervision (the
  session's are in `EchoSession`), the capacity of the channel, back pressure and abort
  signals; builds without capture; the pairing of activation events and their replay
  behind a health refresh; diagnostics.
* Of the **data reset**: copied profiles, symbolic links and canonical paths, the drains
  of the stores, the acknowledgement by the renderer, the uninstaller's challenge; two
  `lstat`s of one `Promise.all` are one look; an inode that the system gives
  again to a new directory.
* **Persistence**, settings and their migrations, vocabulary, history: serialised
  writes and data conversions. **Providers**: HTTP clients. **Codec, schemas, renderer,
  preload, IPC, shell, installer, scripts**: data, presentation, platform I/O.

## 7. What would come next

1. The protocol server over `OwnerState`: requests to reducer calls, drives, the effect
   queue, event scopes, the deferred close, with the lease as its controller sees it
   as the abstract specification.
2. A proof of `NativeFollowsIntent` of the supervision, on top of `HelperSound`.
3. The macOS tap recovery as a second driver of `KeyEngine`; the activation events of
   `HelperChannel`, and with them one helper for `HelperClient` and `EchoSession`.
