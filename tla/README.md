# TLA+ specification of the coding agent kernel

This directory holds a formal model of the kernel under `src/src/coding_agent`:
TLA+ modules, the TLC configurations that check them on small instances, and
proofs checked by TLAPS that some of their properties hold for every value of
the parameters.

Source paths below are relative to `src/src/coding_agent/`.

## 1. The system

A Host (the CLI, the SWE-bench evaluator, an embedding program) builds an
`AgentKernel` from a Provider, tools, a permission policy, extensions and an
optional Session, and asks it for one `AgentRun` per user prompt. Everything
runs in one asyncio event loop: one callback at a time, interleaved wherever the
code awaits something that is not ready. Each run has a worker task
(`AgentRun._drive`) that pulls events out of the kernel's async generator
(`AgentKernel._agent_events`), records what has to be recorded and puts the
events on the run's queue. A tool batch is a further task, and each parallel
tool call one more. Cancellation is `Task.cancel`: an exception raised where the
task waits.

| Component | State | Operations | Hard behaviour |
|---|---|---|---|
| `AgentRun`, `RunControl` (`run.py`, `control.py`) | state, cancel flag, steering and follow-up queues, pending permission future, event queue | `steer`, `follow_up`, `cancel`, `aclose`, `resolve_permission`, `result`, event iteration | Host calls between any two steps of the loop; delivery of a cancellation; one terminal state |
| Agent loop (`kernel.py`) | turn, attempt, message list, permission decisions, completion order | context, provider attempt, retry, permission evaluation, batch, injection, settlement | retry against cancellation, recorded order against call order, turn limit |
| `ToolRuntime` (`tool_runtime.py`) | per-batch arrival and completion order | validation, last permission gate, parallel or sequential execution | a decision used later than it was taken, cancellation with tools still running |
| `PermissionPolicy` (`permissions.py`) | none (pure) | operation intents, decision, binding | the matrix of modes, binding against the call at execution |
| Provider boundary (`provider.py`, `events.py`) | child task, accumulator of one message | isolate factory, stream and close; accumulate deltas | cancellation against a late answer; a stream opened and never closed |
| `Session` (`session.py`) | entry tree, Active Branch, compactions in progress | append entries, fork, close, resume, project messages | two runs on one branch; calls left unanswered by a cancelled batch |
| `SessionStore` (`session.py`) | JSONL file | append, append batch, load | crash between writes, torn tail, failing rollback |
| Context and compaction (`context.py`, `compaction.py`) | checkpoints, lineage, budgets | measure, select, validate plan, commit | a plan made from a branch that has moved on |
| Extensions (`extensions.py`) | registry, per-run runtime | before/after hooks, context and compaction overrides, settled hooks | failures before and after a commit, hooks that run once |
| `LocalCodingEnvironment` (`environment.py`) | files, processes | read, list, search, write, edit, run command | read-modify-write races, timeout against exit |
| SWE-bench evaluator (`swebench.py`) | stages of an attempt | prepare, run agent, close, evaluate | one stage failing or interrupted while the next starts |
| CLI, DeepSeek provider, JSON helpers | - | argument parsing, HTTP/SSE parsing, snapshots | not concurrent, or pure I/O |

What makes each correct:

- **Run and loop**: one terminal state; no message lost, doubled or reordered;
  steering before follow-ups, follow-ups only where the run would have settled;
  one decision per call; no effect without an approval on record; a request a
  provider accepts; nothing left running or open at the end; every run ends and
  a cancelled one ends as cancelled.
- **Tool gate**: a tool runs only with the approval given to this very
  operation; a batch with a sequential tool is sequential.
- **Session and store**: what a load finds is a prefix of what was appended,
  never part of a batch; the Active Branch is one path; a fork shares its past.
- **Context**: a checkpoint covers what it replaces and nothing newer; a commit
  names a branch that still is the one it was planned on.
- **Provider boundary**: every stream that was opened is closed; a message
  is authoritative at most once.
- **Extensions**: order of hooks; a settled run's result is not rewritten.
- **Environment**: an edit is applied to the content it was computed from; a
  cancelled write leaves old or new content.
- **Evaluator**: no stage works on a workspace another one still changes.

## 2. Plan

In order of importance.

1. `RunContract`, `AgentRun`: the run, its loop and its Host (done).
2. `SessionStore`, `JsonlSessionStore`, `Session`: the log with errors,
   interrupts and crashes anywhere, what it promises, and the tree and the
   handles above it (done).
3. `ContextWindow`: what a request stands for while the branch is compacted,
   injected into and moved by others (done).
4. `ToolExecution`: policy, binding, scheduling and the files (done).
5. `Evaluation`: the stages of a SWE-bench evaluation (done).
6. Proofs. Every safety property of `AgentRun`, `Session`, `ContextWindow`,
   `ToolExecution` and `Evaluation` is proved.
7. Open: the accumulator's protocol inside one attempt and the identity of
   streams (`ProviderStream`), the order of hooks (`ExtensionDispatch`).

## 3. Modules

| Module | Content |
|---|---|
| `RunContract` | what a Host may rely on, without the loop |
| `AgentRun` | one run: Host, worker, provider attempt, permission, batch, Session entries; properties; the refinement mapping `Promise` |
| `SessionStore` | what a store promises a Session, without lines or bytes |
| `JsonlSessionStore` | the JSONL file: repair, write, fsync, rollback, crash and scan |
| `Session` | EXTENDS `JsonlSessionStore`: handles, the entry tree, replay; properties; the refinement mapping `Promise` of the store |
| `ContextWindow` | the runs of a kernel on one Active Branch: requests, compaction, checkpoints, injection, moves by others |
| `ToolExecution` | one batch of calls: `PermissionPolicy`, last gate, scheduling, files and processes |
| `Evaluation` | one evaluation: docker, agent, patch, Harness, cleanup, interrupts |
| `MC...` | one per component, for TLC; values are in the `.cfg` files |
| `AgentRun_proofs` | types, messages, quiescence and the contract: lemmas and theorems |
| `AgentRunDecisions_proofs` | Permission Decisions and the effects they authorise: lemmas and theorems |
| `AgentRunConversation_proofs` | where the Host's messages are told, and where never; the shape of requests, Session and history: three invariants and seven theorems |
| `JsonlSessionStore_proofs` | induction over the naturals; what a scan finds of a file that is cut, torn, repaired or written to: lemmas |
| `Session_proofs` | the store's promise, the log and the handles: three invariants and seven theorems |
| `ContextWindow_proofs` | filtering by recursion; coverage, turns and branches: one invariant and five theorems |
| `Evaluation_proofs` | the safety of an evaluation: one invariant and four theorems |
| `ToolExecution_proofs` | the policy's tables, what a batch does to the files: two invariants and seven theorems |

How they fit: each module describes one side of an interface and leaves the
other as a choice. `AgentRun` records messages and decisions in a Session that
never fails; `Session` is what may happen to that record. `AgentRun` takes the
building of a context and the verdict of the policy as choices; `ContextWindow`
and `ToolExecution` are what lies behind them. `Evaluation` is a Host around a
run of which it knows only that it may not stop. A product of two of them has
too many states for TLC and no property that is not a property of one.

Modules also hold definitions headed "Fault:". Each is a plausible bug in
the definition below it, used to see that a property notices it; none is part of
the specification.

### 3.1 State of `AgentRun`

| Variable | Code |
|---|---|
| `pc` | where the worker is suspended (table below) |
| `state`, `cancelRequested` | `AgentRun._state`, `_cancel_requested` and the control's cancel event, which are set together |
| `interrupt` | a `Task.cancel` not yet delivered to the worker |
| `queue` | `RunControl._steering`, `_follow_up` |
| `accepted`, `injected`, `dropped` | the messages of the events that tell the Host queued, injected, dropped |
| `pending` | `RunControl._pending_permission`; `answer` is the state of its future |
| `turn`, `attempt`, `reply` | `turn_number`, `attempt`, and what the stream of the attempt has shown: nothing, `done`, a failure or a cancellation |
| `calls`, `grant`, `tool`, `completion`, `batchMode` | the batch: class of each call, `permission_decisions`, progress, `completion_order`, scheduling mode |
| `session`, `audit` | the model messages and the Permission Decisions the run appended to the Session |
| `history`, `request` | the loop's in-memory list; the messages of the last `ProviderRequest` |

| `pc` | The worker waits in |
|---|---|
| `created` | the ready queue of the event loop, before its first step |
| `compacting` | the compaction engine, inside `_build_context` |
| `opening` | `provider.stream` |
| `reading` | the next stream event |
| `closing` | `aclose` of the stream |
| `retrying` | `_wait_for_retry` |
| `permission` | the future of a Permission Request |
| `batch` | the queue of batch events |
| `joining` | the cancelled batch, until its tools have ended |
| `abandoning` | `aclose` of the compaction engine's stream, after its failure |
| `done`, `dead` | nothing: finished, or cancelled before its first step |

An action is what the code does from one suspension to the next. Host calls
(`Enqueue`, `Cancel`, `Resolve`) run under the run's terminal lock, whose bodies
never suspend, and are one action each. A step may cover a lot of code: `Closed`
takes an authoritative message from the end of its stream through the recording
of the message, the evaluation of its calls up to the first that needs a
question, or the settlement, or the drain and the building of the next request,
because nothing in between suspends.

### 3.2 Abstractions and assumptions

- A message is a model value; an assistant message is the sequence of the classes
  of its calls. `rejected` calls get their error result before the batch
  (an Extension refused them or the policy could not be evaluated); `invalid`
  calls (unknown tool, malformed arguments) reach the batch and fail there;
  `allow`, `ask` and `deny` are the policy's verdict. Any message over
  `CallClasses` may come in any turn.
- The last gate before a tool evaluates the call again; what that yields depends
  on a workspace the model does not have, so `ToolBegin` may refuse any call.
- `ToolEnd` may end a tool with success, with an error, or as cancelled once the
  run is cancelled; this covers what an Extension makes of the result.
- Building a context may fail or, with a Session, wait for a compaction. A
  summary stands for the messages it covers; `request` lists the messages
  themselves.
- A run may have no turn limit (`max_turns=None`, as the evaluator's): its turns
  are then counted without end (`kernel.py:432`). `TurnLimited` says which;
  without a limit `MaxTurns` only bounds how far a run is looked at. The runs
  have it TRUE: up to that bound every behaviour without a limit is one with it,
  so what a run shows of safety it shows of both. The proofs are for both. That
  a run ends (`RunEnds`) is claimed of a run with a limit only: one without may
  ask for tools for ever.
- Providers and tools pass a `CancelledError` on. One that swallows it is not
  modelled (hazard at `provider.py:101`). A provider may raise a cancellation of
  its own.
- The kernel has a tool runtime. Without one (`kernel.py:701`) it takes an
  assistant message as the end of a turn whatever calls it holds; that
  configuration is not modelled.
- `session` holds the entries of this run only: one run per Session at a time.
  Several runs are the subject of `ContextWindow`.
- A write to the Session succeeds. A failing store is the subject of `Session`.
- With a positive `delay_seconds` a retry looks at the cancel event, with zero it
  does not: `RetryDelay` selects. Both values are checked.
- The event queue is unbounded and only ever written by the run, so the events
  themselves are left out; the three message logs stand for those the properties
  are about.

### 3.3 `JsonlSessionStore` and `Session`

| Variable | Code |
|---|---|
| `file`, `durable` | the lines of the file, and how many of them are fsynced |
| `phase` | where an append stands: `repair` (truncating an interrupted tail), `write`, `sync`, `rollback`, then how it ended: `returned`, `raised`, or `unsure` when a rollback failed or an exception that is no `Exception` came through |
| `payload`, `size` | the encoded lines, `previous_size` |
| `mem` | per handle: `_entries`, `_active_leaf`, `_next_sequence`, `_closed` |
| `call` | the record or batch a handle is adding |
| `doubted`, `spoilt` | observers: handles whose last append ended `unsure`, and whether one went on all the same |

A call of a handle is synchronous, so one call runs at a time; a crash may come
after any effect on the file. A crash leaves the fsynced lines and any part of
the rest, whole lines or the beginning of one; a truncation that was seen is
taken to survive it. A batch frame's digest stands for the records themselves.
An entry is its kind, its parent and, for a compaction, how many messages it
covers; payloads are left out.

### 3.4 `ContextWindow`

`branch` is the Active Branch as a list of entries, `job` what a build works
from: for a request after an injection (`fixed`) that is the branch of before
the injection and the messages injected. `request` is what the request stands
for: message ids under the summary, shown, and injected. Sizes are units: a
message is 1, a tool result that was not shed `BigOutput`, a summary any of
`Summaries`, whatever was planned for it. Reused call ids (`CallIds`) make a
cut unsafe. A build is one step but for the wait for the compaction engine, as
in the code. Others fork to an earlier entry of the branch or append to it, at
most `MaxMoves` times; a fork to an entry of another branch is left out.

### 3.5 `ToolExecution`

One file inside the workspace, one outside, and a link that leads to one of
them, to nothing (a loop), or is moved by a command or by others. `did` is the
file a call has changed, `temporary` and `process` what it has not yet given
back. Every batch of up to `MaxCalls` calls, in every Permission Mode, is an
initial state. An action is what the code does between two awaits: `Prepare`
resolves the path, `WriteTemporary` is the thread that writes, `Replace` looks
at the cancel event and replaces. An edit waits between reading and writing.
The content of a file is the set of calls whose change it shows.

Commands are taken to leave no child behind that holds their output. Where one
does, `_terminate_process_tree` finds the shell gone and kills nothing, and the
child goes on after the timeout; the same is true of a process inside a
container when its `docker exec` is killed (`swebench.py:528`).

The policy expands a leading `~` (`permissions.py:413`), the environment takes
it literally: the path `"home"`. The decision is then about another file than
the effect, so `EffectAsDecided` excepts it; `Contained` holds of it.

### 3.6 `Evaluation`

`at` is the await the evaluator stands at; an action is what it does from there
to the next, in one of the ways the awaited call may end. `why` is the status it
will report once `stop_agent` is through. The agent is `run` (its state),
`consumer` (the task that reads its events) and `session`; a run may end by
itself, as cancelled too. `containers` are those that exist, and `troubled` an
observer: a `docker create` or `rm` has failed, timed out or was cut off. A
`docker start` is an await of its own: where it fails or is interrupted the
container exists, nothing is troubled, and it has to be removed. `recorded` is
`cleanup_failures.jsonl`, `official` what the Harness left behind.

What an interrupt does depends on where it arrives (`asyncio.Runner`):

- The first cancels the main task: the await at hand ends with `CancelledError`
  (`Interrupt`).
- A later one is a KeyboardInterrupt. Out of the event loop, it makes
  `asyncio.run` cancel every task (`Interrupt` again, with `teardown`). In a
  step of the evaluator, no `except` clause takes it (`swebench.py:1525`,
  `:1567`): only the `finally` clauses run (`Abort`, `why = "aborted"`), and what
  the step did before is done or not.
- In the teardown the default handler is back, and one more ends the program
  with the evaluator where it stands (`Kill`), or after its `finally` clause if
  it came in a step of it.

In each case but the first the CLI reports an interruption whatever the evaluator
then finds: a completed manifest is replaced by `cancelled`, in agreement with
the exit code. After the first interrupt the evaluator only cleans up, so an
`Abort` meets it there. Left out is a first and a second interrupt within one
step, between two awaits: the KeyboardInterrupt would then come out of a step of
the work itself, and between the return of `prepare` and its assignment
(`swebench.py:1622`) it would leave the container.

Writing an artifact is taken to succeed. `docker rm` has its exit code ignored
(`swebench.py:969`), a `docker create` that fails may have created: both leave
containers, and `LeftoverExplained` says only then, and where the program was
killed before it closed the workspace it had prepared. `ReleasedOrRecorded`
claims nothing of a killed program, and of an aborted cleanup only that the
workspace is closed.

### 3.7 Fairness

`FairSpec` is weak fairness of the worker, of each call's begin and end and of
the Host's answer. The event loop runs every ready callback, so a worker that can
go on does. That a stream, an opening or a tool ends is an assumption on
providers and tools (commands have a timeout); that a Host answers a question it
was asked is one on the Host. Nothing is assumed of the Host's other calls: it
may never cancel. Weak fairness is enough because an enabled worker step stays
enabled until one is taken: a Host call may turn it into another worker step
(cancelling turns an answer into an unwinding), which is why fairness is on their
disjunction.

`Evaluation` has weak fairness of the evaluator's own steps from the dataset on:
each of those awaits has a timeout (`asyncio.wait_for`, the runner's
`timeout_seconds`, the waits of `stop_agent`), so that each of them ends. The
load of the dataset in a thread (`swebench.py:622`) has none: `loading` may last
for ever, and `Returns` is about what is after it. Nothing is assumed of the agent, of
its consumer or of the user. The other modules state no liveness.

## 4. Runs

No cfg uses symmetry. All but the two `session_*` say `CHECK_DEADLOCK FALSE`: a
run, a batch and an evaluation stop when they have ended, a run also in the two
stranded states below, and a `ContextWindow` when its entries are used up. The
process of a Session may always die, so there a deadlock is checked for.

| Run | Question | Instance | Distinct states |
|---|---|---|---|
| `agent_messages` | what becomes of every message, and does the run implement `RunContract` | 2 steering, 2 follow-ups, 4 turns, 2 attempts, 1 call that is allowed, Session, retry delay | 550,250 |
| `agent_tools` | who authorised an effect, what is on record, shape of every request | 1 steering, 2 turns, 2 calls of all five classes, both modes, Session | 976,617 |
| `agent_liveness` | does a run end, and is a cancellation honoured | 1 steering, 1 follow-up, 3 turns, 2 attempts, 1 call (ask or allow), Session, zero delay | 59,344 |
| `session_log` | does the store keep its promise, does every log replay, do handles agree with it | 2 handles, 3 entries, 5 records | 59,127 |
| `context_window` | is a request the whole conversation, do checkpoints replay, do summaries end | budget 3, summaries of 1 or 2, 8 entries, 2 call ids, 2 moves | 961,231 |
| `tool_execution` | what a batch does to the files, against its results and decisions | 2 calls, all modes, interference | 1,264,912 |
| `evaluation` | what is judged, reported and left behind, and does it return | 4 interrupts | 29,987 |
| `agent_cancel_unstarted` | "await settlement" of a cancellation | as `agent_liveness` | violated |
| `agent_cancel_swallowed` | cancellation propagates to provider and retry | 2 attempts, zero delay | violated |
| `agent_result_order` | results are written back in call order | 2 allowed calls, parallel | violated |
| `session_doubt` | a Session that closes can be resumed | 1 handle, 2 entries, 4 records | violated |
| `context_injection` | an injected message can be sent with a compaction | as `context_window`, nobody else on the branch | violated |

Why the bounds are enough. Two messages per queue show order, batching in one
drain and a drain between two messages; four turns let both queues be drained
separately, with a batch before, and still meet the turn limit. Two calls show
every pair of classes and every order of beginning, ending, asking and
interrupting; the second turn shows what becomes of the first batch in a request.
Two attempts show a retry and an exhausted budget. No action compares a number
with anything but the bounds themselves.

Five records are a create, an append, a close and a resume with one more append,
or a batch of two after a torn one; two handles are an old and a new one. Eight
entries are two compactions of one branch, the second after an injection, with
a batch before; two moves are a fork and an append under one summary. Two calls
are every pair of an edit with anything that may disturb it. Four
interrupts are a cancellation, a teardown or an abort, and two that meet what
those have begun.

What they show:

- `MessagesConserved`, `SettledServed`, `CancelDiscardsMessages`,
  `FollowUpsAtBoundary`, `SteeringReachesNextTurn`: a message the Host was told
  is queued is delivered once and in order, at the right kind of boundary, or
  dropped and never sent; a settled run has answered all it took. What the run
  does *not* promise is also visible: a run that fails leaves its queues as they
  are, neither injected nor dropped, and `RunContract` says so.
- `RequestWellFormed`, `SessionFollowsHistory`: no request has an unanswered or
  doubly answered call; the Session and the loop's list differ at most in the
  order of one batch's results.
- `OneDecisionPerCall`, `EffectsAuthorised`: answer, cancellation and policy
  never decide twice, and no tool runs without an approval on record.
- `TerminalQuiescent`: nothing runs or asks after the end.
- `WorkShrinks`: within a turn no step of the worker or of a tool can be repeated
  for ever, whatever the Host does and whatever fails: the limit on attempts, the
  number of calls and the order of the questions bound the turn, and the next one
  begins only after the first context, a batch or a delivered message. A turn
  limit bounds the run as well.
- `RunEnds`, `CancelHonoured`: every run with a turn limit ends unless it is
  `Stranded`; an interrupt that reaches a started worker ends the run as cancelled
  unless the stream of a failed attempt (finding 2) or of a failed compaction is
  being closed. The stranded states are in findings 1 and 2.

- `StorePromise`, `LoadsAccepted`: a batch is in the log whole or not at all,
  what was returned stays, and no tail makes a load fail. `StorePromise` is the
  refinement of `SessionStore`.
- `Recoverable`, `HandleFollowsLog`, `SingleWriter`: as long as no handle goes
  on after an append of unknown outcome, the log replays, handles hold what it
  says, and at most one is open. Finding 4 is what happens otherwise.
- `RequestComplete`, `CheckpointsReplay`, `SummariesBounded`: nothing is lost
  between summary, tail and injection, a Session accepts every checkpoint on
  replay, and a build asks for a summary at most once per turn it may cover.
- `SequentialEffect`, `ResultTellsEffect`, `NothingLeftBehind`: no edit of a
  batch is lost, results tell the truth about the files, and nothing of a batch
  is left. `edit_text` resolves its path for the read and again for the write,
  so with others moving the link it may put one file's content into another;
  `SequentialEffect` is about batches nobody disturbs.
- `EffectAsDecided`, `PlanChangesNothing`, `Contained`, `DecisionsReplay`: the
  binding voids a decision whose path has come to lead elsewhere, plan mode
  changes nothing, only full mode leaves the workspace, and the Session never
  refuses a decision the kernel took.
- `JudgedAtRest`, `ExitTellsManifest`, `LeftoverExplained`,
  `ReleasedOrRecorded`, `Returns`: only settled work is judged, the manifest and
  the program agree, and what is left has a reason or a record.

### Findings

1. **A run cancelled before its first step never ends** (`run.py:67`). The worker
   task is cancelled before `_drive` has begun, so its `finally` never runs,
   `state` stays `active` and `cancel()` waits forever.
2. **A cancellation is lost while a failed attempt's stream is closed**
   (`kernel.py:602`). The close's `CancelledError` is kept as a cleanup failure;
   with zero retry delay the provider is asked again and the run may settle, or
   ask a question (`kernel.py:762`) nobody can answer, for `resolve_permission`
   refuses a cancelled run and a second `cancel()` does nothing: the second
   stranded state.
3. **With a Session, results reach the model in completion order**
   (`kernel.py:883`), while the documents promise call order; the loop's own list
   has it.
4. **An interrupted append may stay in the log** (`session.py:179`), although it
   raised: `except Exception` rolls nothing back for a KeyboardInterrupt. The
   Session goes on, writes its next record under the same number, closes, and can
   never be resumed.
5. **A compaction right after an injection ends the run** (`kernel.py:1159`). The
   plan is made from the branch of before the injection; the Session validates it
   against the branch with it and refuses; the run fails with `kernel_exception`.

All five were reproduced against the Python code, with small scripted providers
and, for 4, an fsync that is interrupted once.

Smaller things met on the way, without a run: a compaction that is cancelled has
no end event, though `docs/design/context-compaction-v2.md:314` says every one
has; the budget for a summary counts raw characters, the request JSON-escaped
ones (`context.py:591`), which costs further rounds of the engine; a write
whose temporary file cannot replace its target leaves it (`environment.py:131`);
an interrupt in the close before the Harness, or a `docker create` cut off,
leaves a container without a cleanup record (`swebench.py:1582`, `:1041`); a
cancellation that arrives while the compaction engine closes the stream of a
failed summary is dropped (`context.py:283`) and the run ends as failed; a
provider that uses the id of a covered call again makes the Session refuse a
plan, and the run fails as in finding 5, because the pipeline looks for parted
calls among the messages not covered yet (`context.py:625`) and the Session among
all of them (`session.py:394`). `RefusalsAreExplained` has this, finding 5 and a
branch somebody moved as the only causes.

## 5. Proofs

The three `AgentRun..._proofs` modules prove, for every value of the
constants that satisfies `RunAssumption` (disjoint message sets, positive limits, call classes and modes
among those the code knows):

| Theorem | Statement | Argument |
|---|---|---|
| `TypeCorrect` | `Spec => []TypeOK` | `TypeInv` adds `Placement`: what the worker's position says of `turn`, `attempt`, `pending` and `tool`. Without it `Retry` might exceed the budget and `Answered` might index a call that is not there. |
| `MessagesAreConserved` | `Spec => []MessagesConserved` | `QueueInv` adds the two regimes of a run: nothing is dropped before the cancellation, nothing waits after it. Without the first an append would land before what was dropped. `QueueSteps` reduces the actions to the four things that can happen to the queues. |
| `EndedRunsAreQuiet` | `Spec => []TerminalQuiescent` | `QuietInv`: a run has ended exactly where its worker has; tools run only in `batch` and `joining`; a question is open only in `permission`, and none is while an interrupt is on its way. |
| `RunKeepsContract` | `Spec => Contract` | step simulation under `Promise`: Host actions map to `Accept`, `Withdraw`, `Answer`; a worker step to `Advance`; tools stutter. `QuietInv` gives that the run is active and no question is open when the worker moves. |
| `DecisionsAreUnique` | `Spec => []OneDecisionPerCall` | `DecisionInv` adds where decisions can be: none of this turn before its message is authoritative, none beyond the call that is asked about. So what a step records is always beyond what is on record. |
| `TurnsAreBounded` | `Spec => WorkShrinks` | `TurnWork` is what the position in the turn can still cost in attempts, questions and tools: a number that every step of the worker and of a tool makes smaller, or else begins the next turn, and no step of the Host larger. `WorkBounds` has it stay within `PerTurn`; `WorkerLessens` has a lemma for attempts, one for questions and one for tools; `DrainTells` shows that a turn after an answer without calls delivers a message. With or without a turn limit. |
| `CancelStopsRequests` | `RetryDelay` implies `Spec => NoRequestAfterCancel` and `[](Stranded => pc = "dead")` | `CancelInv`: after the cancellation the interrupt is on its way, or the worker is where it can only end. Where a close of a failed attempt eats the interrupt, `retrying` races its delay against the cancel event. Without a delay it does not: finding 2. |
| `EffectsAreAuthorised` | `Spec => []EffectsAuthorised` | `AuthorityInv` is the chain of authority: a question is asked only where the policy asks; a granted call was allowed, or asked about and approved on record; a tool that runs or has succeeded was granted; so was every success in the Session. That a whole batch is on record (`AscendingCovers`) needs that an injection of a finite set into one of its size is onto. |
| `SettledRunsServedAll` | `Spec => []SettledServed` | `ConversationInv`: messages are taken once; no log says more than the prompt and what was injected; history and Session say all of that, and between its opening and its end so does the request of the turn. A run settles where nothing could be drained, so what its last request said is all there is. |
| `CancelDiscards` | `Spec => []CancelDiscardsMessages` | by `QueueInv` what was accepted is what was injected, then what was dropped; as messages are taken once no dropped one was injected, and by `ConversationInv` no log says it. |
| `FollowUpsWait` | `Spec => []FollowUpsAtBoundary` | `AtBoundary` is kept for history, Session and request: follow-ups are appended behind a message without calls, and only in the order they wait. |
| `SteeringIsPrompt` | `Spec => SteeringReachesNextTurn` | every step that raises `turn` beyond 1 drains the steering queue, or drains follow-ups because no steering waits. |
| `RequestsAreWellFormed` | `Spec => []RequestWellFormed` | `TranscriptInv`: between turns every log answers its calls right behind them, within a turn but for the last message (`AwaitsResults`). The order of completion, with the rejected calls, is a permutation of the calls, for each call that ended is in it once; so the results of a batch answer each of its calls. |
| `SessionTellsHistory` | `Spec => []SessionFollowsHistory` | `Follows` in `TranscriptInv`: both logs get the same entries in a step but for the results of a batch, which are a permutation of each other. |
| `ResultsInOrderWithoutSession` | `~WithSession` implies `Spec => []ResultsKeepCallOrder` | `OrderInv`: the results the history has of a turn stand in the order of its calls (`Ascends`), and it has none of the turn at hand before the batch is over; without a Session the history is what a request is made from. With one finding 3 has the run that breaks it. |

`Session_proofs`, with the lemmas of `JsonlSessionStore_proofs`, proves for any
number of handles, entries and records:

| Theorem | Statement | Argument |
|---|---|---|
| `TypeCorrect` | `Spec => [](TypeInv /\ StoreInv)` | `StoreInv`: the file is `Sane` (torn at its end only, frames in pairs), and while an append writes it is one of the `Cuts` of what was stored followed by the whole payload. A cut of a sane file is sane (`CutSane`); what `SafeLength` keeps is `Clean` (`SafeIsClean`), and a batch behind clean lines is exposed by its last line and by none before (`BatchIsWhole`). |
| `AlwaysLoads` | `Spec => []LoadsAccepted` | a sane file is not corrupt (`SaneAccepted`). |
| `KeepsPromise` | `Spec => StorePromise` | step simulation: each of repair, write, fsync, rollback and interrupt has one of four effects on what a load would find (`StepEffect`); a crash leaves what begins the known batches and holds the safe ones (`CrashEffect`, by `ExposedGrows`). |
| `MemCorrect` | `Spec => []MemInv` | unless `spoilt`: wherever the log is cut between its batches it replays to a tree with its leaf in it (`LogInv`); the one open handle that knows what it stored is where the log is (`HandleInv`); the call in progress starts there, and a replay takes its records as the call means them (`CallInv`). Each of the seven calls is `Legal`: its guard makes `ReplayRecord` agree with `Applied`. |
| `AlwaysRecoverable` | `Spec => []Recoverable` | in the middle of a write the log is that of before or that with the batch (`CutShows`), and `BatchGood` has both replay. |
| `AlwaysFollowsLog` | `Spec => []HandleFollowsLog` | `HandleInv` between calls. |
| `AlwaysSingleWriter` | `Spec => []SingleWriter` | `HandleInv`: create needs an empty log and resume a closed one, and either would contradict another open handle. |

What a scan or a replay computes is defined by recursive functions. The prover
knows such a function only as a choice among those that satisfy its equation, so
`ExposedDef`, `ReplaysDef` and `FlatsDef` first show that there is one, and the
lemmas on them go by induction over the length. Induction itself is a lemma
(`Induction`), for sets of naturals, from the library's theorem that the order
of the naturals is well founded.

`ContextWindow_proofs` proves, for any sizes, budgets, summaries and call ids, any
number of entries and of moves by others:

| Theorem | Statement | Argument |
|---|---|---|
| `WindowInvariant` | `Spec => []WindowInv` | `BranchInv`: the branch, and the older one a build may work from, is `Valid`: ids are its own, and each checkpoint was accepted after what is before it; the prompt is on no branch until it is sent. `RequestInv`: what a build still has to record is what it was given to inject. `AsksInv`: below. The heart is `ViewFacts`: on a valid branch the projection, which looks for the first kept entry, and the coverage, which looks for ids, leave the same messages, namely those after the covered ones. That needs both that ids are unique and what `Accepts` says of the kept entry. |
| `RequestsAreComplete` | `Spec => []RequestComplete` | what a checkpoint covers and what is projected beside it are the messages of the view (`CoversAll`); by `RequestInv` the view with the injected messages is the branch that is recorded. A plan adds no message to it. |
| `CheckpointsAreReplayed` | `Spec => []CheckpointsReplay` | `Valid` is kept by every prefix (`ValidPrefix`: forks), and by every entry with a new id that is accepted on the branch of that moment (`ValidAppend`). Without the check against the current branch the plan would be valid for an older one. |
| `SummariesAreBounded` | `Spec => []SummariesBounded` | `AsksInv`: each summary asked for has cost one of the turns `Spent`, which are between the first and the oldest still retained; `NextFacts` has a next turn where one is left, and the first is never spent. |
| `RefusalsAreExplained` | `Spec => RefusalsExplained` | where nobody moved the branch and what is injected is the prompt, `RequestInv` has the branch equal to the one the plan was made from, and there `PlanAccepted`: a plan that covers more than before and parts no call from its result meets every clause of `Accepts`. `AsksInv` has the engine asked only to cover something, and only where no call that is not covered yet is parted from its result. |

`Among`, the filter behind `Messages` and `Uncovered`, is a recursive function
too: `UpToDef` shows that it exists, `SeqInduction` that what the empty sequence
has and `Append` hands on every sequence has.

`Evaluation_proofs` proves, for any number of interrupts:

| Theorem | Statement | Argument |
|---|---|---|
| `EvaluationInvariant` | `Spec => []EvaluationInv` | what the evaluator holds at each await: where the agent is known (`AgentKnown`), where it has been stopped or its survival recorded (`AgentStopped`), which containers are in use (`Containers`), when the manifest is written (`Told`), and that after an interrupt it only cleans up, in the teardown past the two removals of `prepare` (`CleansUp`). One lemma per group of actions. |
| `OnlySettledWorkIsJudged` | `Spec => []JudgedAtRest` | `AgentReturns` is the only way to a patch; no status but that of `Verdict` is `success`, for `why` never is. |
| `ManifestTellsOutcome` | `Spec => []ExitTellsManifest` | both are written by `Finish` and `Interruption`, and together; an abort, which may leave one without the other, is followed by an `Interruption`. |
| `LeftoversAreExplained` | `Spec => []LeftoverExplained` | untroubled, the containers are those `InUse` at each await, one that does not start until `remove_agent` is through; `prepared` is given up before the end, and only a kill comes before that. |
| `NothingIsLeftUnrecorded` | `Spec => []ReleasedOrRecorded` | every way out of `cancelling` but an abort has an ended run or a record; an open Session passes `stop_session`; an abort, too, passes `final_close`. |

`ToolExecution_proofs` proves, for batches of any length, with interference or
without (`Spec` lets others write files and move the link at any time if
`Interference` is TRUE):

| Theorem | Statement | Argument |
|---|---|---|
| `ToolInvariant` | `Spec => []ToolInv` | `Progress` says how far a call can have come, by its tool and the stage; `Effects`, that a write changes its file as it succeeds and that only full mode stands outside; `Planned`, that in plan mode only reads begin; `OneByOne`, the order of a sequential batch; `Bound`, the binding of every decision. |
| `PlanModeIsReadOnly` | `Spec => []PlanChangesNothing` | `Actions` denies everything but reads, a denied call never begins. |
| `WorkspaceContains` | `Spec => []Contained` | a path is resolved, and refused, in the step that begins the write. |
| `ResultsTellEffects` | `Spec => []ResultTellsEffect` | nothing can end a write between `replace` and its return. |
| `EffectsAreAsDecided` | `Spec => []EffectAsDecided` | the gate compares the binding with the intent of this moment. Between the gate and the replace the link must not move, and it does not: only a command moves it, a batch with a command is sequential, and by `OneByOne` no write is then under way. |
| `BatchCleansUp` | `Spec => []NothingLeftBehind` | a process belongs to a running command, a temporary file to a write under way or one told to fail; when a batch is over every call has ended. |
| `DecisionsAreReplayable` | `Spec => []DecisionsReplay` | `DecisionValid`: by cases over the policy's tables, what `Decide` makes `ValidRecord` takes. |
| `BatchesAreSerial` | `Spec => []SequentialEffect` | a second invariant, `SerialInv`: what an edit has read is still in the file it is about to replace, and each file shows the calls that have changed it so far. One sequential call makes the whole batch sequential, so by `OneByOne` the call that changes a file is the last to do so (`LastChange`) and no other edit is between its read and its write. |

TLC checks the inductive invariants on the instances above too: `QueueInv`,
`TypeInv`, `QuietInv`, `DecisionInv`, `AuthorityInv`, `ConversationInv` and
`TranscriptInv` hold in every state of `agent_messages` and `agent_tools`
(`AwaitsResults` written with `SubSeq` for TLC), `OrderInv` in
every state of `agent_tools` with a Session and without, `StoreInv` and `MemInv` in every
state of `session_log` (`Accepted` written with the records' indices),
`WindowInv` in every state of `context_window`, `EvaluationInv` in every state of `evaluation`, `ToolInv` and `SerialInv` in every state
of `tool_execution` (section 7).

The assumptions on the constants are `RunAssumption`, `SessionAssumption`,
`WindowAssumption`, `InterruptAssumption` and `ExecutionAssumption`; TLC evaluates them in each run.

Only model-checked: `RunEnds`, `CancelHonoured` and `Returns`, for liveness under
fairness is out of reach of the prover, as is ENABLED. Of `RunEnds` the half that
needs neither is proved: by `WorkShrinks` a turn, and by the limit on turns
(`TypeCorrect`) a run, runs out of steps to take,
and only that it takes them, and is stuck nowhere but where it is `Stranded`,
rests on the run. No module declares a RECURSIVE operator. The library's
induction theorems take an operator as a parameter, which the backends cannot
instantiate; `Induction` stands in for them where a proof needs it.

## 6. Not modelled

- Extensions, but for what a hook can do to a run (refuse a message or a call),
  to a compaction (move its cut, fail) and to a result. Hooks are synchronous
  and run in registration order; registration, snapshots and `agent_settled` are
  left out.
- The accumulator's protocol within one attempt (`events.py`): an attempt's
  outcome is a choice. Streams have no identity, so a stream that a cancellation
  drops unclosed (`kernel.py:506`) does not show.
- The DeepSeek client (HTTP and SSE parsing), the JSON helpers and the demos:
  I/O or pure. The CLI but for interrupts of an evaluation: its Host calls are
  the Host actions of `AgentRun`.
- In the components that are modelled: contents of events, the event iterator,
  usage accounting, argument checks; the text of summaries and the prompt of the
  compaction engine; parsing of the dataset and of git output; the adapter for
  tools of the older protocol; `compaction_in_progress`, which chooses the kind
  of one event.
- A run over a store that fails (`run.py:131`): the composition of `AgentRun` and
  `Session` is out of TLC's reach with bounds at which both are interesting.

## 7. Running

    tlc -workers 2 -config agent_messages.cfg MCAgentRun
    tlapm AgentRun_proofs.tla
    tlapm AgentRunDecisions_proofs.tla
    tlapm AgentRunConversation_proofs.tla
    tlapm JsonlSessionStore_proofs.tla
    tlapm Session_proofs.tla
    tlapm ContextWindow_proofs.tla
    tlapm Evaluation_proofs.tla
    tlapm ToolExecution_proofs.tla

To check an inductive invariant with TLC, run a scratch module that EXTENDS
`MCAgentRun` and `AgentRunConversation_proofs` under one of the cfgs with that
invariant in place of its properties.
