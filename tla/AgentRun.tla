------------------------------ MODULE AgentRun ------------------------------
(***************************************************************************)
(* One AgentRun: its RunControl, the worker task that drives the agent     *)
(* loop, the provider attempt, the permission questions, the tool batch,   *)
(* and the Host that steers, answers and cancels it.                       *)
(*                                                                         *)
(* asyncio runs one callback at a time, so an action is what the code does *)
(* from one suspension to the next.  "pc" names where the worker is        *)
(* suspended.  The bodies under the run's terminal lock and the puts on    *)
(* its unbounded event queue never suspend, so each Host call is one       *)
(* action too.  "interrupt" is the cancellation that Task.cancel leaves    *)
(* for the worker's next resumption.                                       *)
(***************************************************************************)
EXTENDS Integers, Sequences, FiniteSets, SequencesExt

CONSTANTS
    Steering, FollowUps,   \* the messages the Host may send, by queue
    Prompt,                \* the user input the run starts with
    TurnLimited,           \* is max_turns of create_run a number, or None?
    MaxTurns,              \* max_turns; without one, a bound on the turns looked at
    MaxAttempts,           \* RetryPolicy.max_attempts
    MaxCalls,              \* bound on the tool calls of one assistant message
    CallClasses,           \* the classes of tool call the provider may ask for
    BatchModes,            \* the scheduling modes of the tools that may be called
    WithSession,           \* is the run recorded in a Session?
    RetryDelay             \* is RetryPolicy.delay_seconds positive?

(* What the permission policy and the extensions make of one tool call:    *)
(* "rejected" gets its error result before the batch, "invalid" is an      *)
(* unknown or malformed call that reaches the batch to be refused there.   *)
AllClasses == {"rejected", "invalid", "allow", "ask", "deny"}

ASSUME RunAssumption ==
    /\ Steering \cap FollowUps = {}
    /\ Prompt \notin Steering \cup FollowUps
    /\ TurnLimited \in BOOLEAN
    /\ MaxTurns \in Nat \ {0}
    /\ MaxAttempts \in Nat \ {0}
    /\ MaxCalls \in Nat
    /\ CallClasses \subseteq AllClasses
    /\ BatchModes \subseteq {"parallel", "sequential"}
    /\ WithSession \in BOOLEAN
    /\ RetryDelay \in BOOLEAN

VARIABLES
    pc,               \* where the worker task is suspended
    state,            \* AgentRun._state
    cancelRequested,  \* AgentRun._cancel_requested; control.cancel_event
    interrupt,        \* Task.cancel() not yet delivered to the worker
    queue,            \* RunControl._steering and _follow_up
    accepted,         \* messages told to the Host as queued, by queue
    injected,         \* messages told to the Host as injected, by queue
    dropped,          \* messages told to the Host as dropped, by queue
    pending,          \* RunControl._pending_permission and its future
    turn,             \* turn_number
    attempt,          \* attempt
    reply,            \* what the attempt's stream has shown so far
    calls,            \* message.tool_calls of the batch, by class
    grant,            \* permission_decisions, by call
    tool,             \* progress of each call's execution
    completion,       \* completion_order of the batch
    batchMode,        \* the batch's scheduling mode
    session,          \* the model messages this run appended to the Session
    audit,            \* the Permission Decisions it appended to the Session
    history,          \* the loop's in-memory message list
    request           \* messages of the last ProviderRequest

lifecycle == <<pc, state, cancelRequested, interrupt>>
messages == <<queue, accepted, injected, dropped>>
loop == <<turn, attempt, reply>>
batch == <<calls, grant, tool, completion, batchMode>>
transcript == <<session, audit, history, request>>
vars == <<lifecycle, messages, pending, loop, batch, transcript>>

Queues == {"steering", "follow_up"}
Texts == [steering |-> Steering, follow_up |-> FollowUps]
Empty == [q \in Queues |-> <<>>]
Terminal == {"settled", "cancelled", "failed"}
Failures == {"retryable", "fatal"}
NoRequest == [call |-> 0, answer |-> "none"]

User(text) == [role |-> "user", text |-> text]
Assistant(t, cs) == [role |-> "assistant", turn |-> t, calls |-> cs]
Result(t, k, s) == [role |-> "tool", turn |-> t, call |-> k, status |-> s]
Decision(t, k, ok) == [turn |-> t, call |-> k, approved |-> ok]

Recorded(log, entries) == IF WithSession THEN log \o entries ELSE log

(* The one sequence that lists a set of call numbers in ascending order, as *)
(* a set to choose it from.                                                 *)
Ascending(S) ==
    {list \in [1..Cardinality(S) -> S] :
        \A i, j \in 1..Cardinality(S) : i < j => list[i] < list[j]}

Users(q) == [n \in 1..Len(queue[q]) |-> User(queue[q][n])]

Init ==
    /\ pc = "created" /\ state = "active"
    /\ cancelRequested = FALSE /\ interrupt = FALSE
    /\ queue = Empty /\ accepted = Empty /\ injected = Empty /\ dropped = Empty
    /\ pending = NoRequest
    /\ turn = 0 /\ attempt = 0 /\ reply = "none"
    /\ calls = <<>> /\ grant = <<>> /\ tool = <<>> /\ completion = <<>>
    /\ batchMode = "none"
    /\ session = <<>> /\ audit = <<>> /\ history = <<User(Prompt)>> /\ request = <<>>

-----------------------------------------------------------------------------
(* The Host *)

Enqueue(q, m) ==
    /\ state = "active"
    /\ ~cancelRequested
    /\ m \notin ToSet(accepted[q])
    /\ queue' = [queue EXCEPT ![q] = Append(@, m)]
    /\ accepted' = [accepted EXCEPT ![q] = Append(@, m)]
    /\ UNCHANGED <<lifecycle, injected, dropped, pending, loop, batch, transcript>>

(* Fault: the queues are announced as dropped and never cleared. *)
CancelKeepsQueues ==
    /\ state = "active"
    /\ ~cancelRequested
    /\ cancelRequested' = TRUE
    /\ interrupt' = TRUE
    /\ audit' = IF pending.answer = "open"
                THEN Recorded(audit, <<Decision(turn, pending.call, FALSE)>>)
                ELSE audit
    /\ pending' = NoRequest
    /\ dropped' = [q \in Queues |-> dropped[q] \o queue[q]]
    /\ UNCHANGED <<pc, state, accepted, injected, queue, loop, batch, session, history, request>>

(* Fault: a question whose answer is on its way is denied once more. *)
CancelDeniesAnswered ==
    /\ state = "active"
    /\ ~cancelRequested
    /\ cancelRequested' = TRUE
    /\ interrupt' = TRUE
    /\ audit' = IF pending # NoRequest
                THEN Recorded(audit, <<Decision(turn, pending.call, FALSE)>>)
                ELSE audit
    /\ pending' = NoRequest
    /\ dropped' = [q \in Queues |-> dropped[q] \o queue[q]]
    /\ queue' = Empty
    /\ UNCHANGED <<pc, state, accepted, injected, loop, batch, session, history, request>>

(* _cancel and, on a disconnect, aclose: an unanswered question is recorded *)
(* as denied, what is queued is dropped, the worker is interrupted.         *)
Cancel ==
    /\ state = "active"
    /\ ~cancelRequested
    /\ cancelRequested' = TRUE
    /\ interrupt' = TRUE
    /\ audit' = IF pending.answer = "open"
                THEN Recorded(audit, <<Decision(turn, pending.call, FALSE)>>)
                ELSE audit
    /\ pending' = NoRequest
    /\ dropped' = [q \in Queues |-> dropped[q] \o queue[q]]
    /\ queue' = Empty
    /\ UNCHANGED <<pc, state, accepted, injected, loop, batch, session, history, request>>

Resolve(approved) ==
    /\ state = "active"
    /\ ~cancelRequested
    /\ pending.answer = "open"
    /\ audit' = Recorded(audit, <<Decision(turn, pending.call, approved)>>)
    /\ pending' = [pending EXCEPT !.answer = IF approved THEN "approved" ELSE "denied"]
    /\ UNCHANGED <<lifecycle, messages, loop, batch, session, history, request>>

-----------------------------------------------------------------------------
(* How a worker step ends: suspended again, or with the run's terminal state *)

Suspend(where) ==
    /\ pc' = where
    /\ UNCHANGED <<state, cancelRequested, interrupt>>

Finish(terminal) ==
    /\ pc' = "done"
    /\ state' = terminal
    /\ interrupt' = FALSE
    /\ pending' = NoRequest
    /\ UNCHANGED cancelRequested

(* _build_context makes the request, the conversation of the Active Branch,   *)
(* or fails.  "sent" is the Session once the request is made, "log" what it   *)
(* holds until then.  A summary stands for the messages it covers: compaction *)
(* is only a place to wait here.                                              *)
ContextBuilt(log, sent) ==
    \/ /\ Suspend("opening")
       /\ session' = sent
       /\ request' = IF WithSession THEN sent ELSE history'
       /\ attempt' = 1
       /\ reply' = "none"
       /\ UNCHANGED pending
    \/ /\ Finish("failed")
       /\ session' = log
       /\ UNCHANGED <<attempt, reply, request>>

(* ... or it suspends first, in the compaction engine. *)
BuildContext(log, sent) ==
    \/ ContextBuilt(log, sent)
    \/ /\ WithSession
       /\ Suspend("compacting")
       /\ session' = log
       /\ UNCHANGED <<pending, attempt, reply, request>>

(* Fault: one turn too many. *)
NextTurnPastLimit(log, past) ==
    /\ history' = past
    /\ \/ /\ turn <= MaxTurns
          /\ turn' = turn + 1
          /\ BuildContext(log, log)
       \/ /\ TurnLimited /\ turn > MaxTurns
          /\ Finish("failed")
          /\ session' = log
          /\ UNCHANGED <<loop, request>>

(* The head of the turn loop, and the turn limit after its last round. A run *)
(* without a limit counts on; MaxTurns then only bounds what is looked at.   *)
NextTurn(log, past) ==
    /\ history' = past
    /\ \/ /\ turn < MaxTurns
          /\ turn' = turn + 1
          /\ BuildContext(log, log)
       \/ /\ TurnLimited /\ turn = MaxTurns
          /\ Finish("failed")
          /\ session' = log
          /\ UNCHANGED <<loop, request>>

(* Fault: the queue is read and not cleared. *)
DrainByCopy(q) ==
    /\ injected' = [injected EXCEPT ![q] = @ \o queue[q]]
    /\ UNCHANGED <<queue, accepted, dropped>>

Drain(q) ==
    /\ injected' = [injected EXCEPT ![q] = @ \o queue[q]]
    /\ queue' = [queue EXCEPT ![q] = <<>>]
    /\ UNCHANGED <<accepted, dropped>>

(* Fault: follow-ups go before steering. *)
ConcludeFollowUpsFirst(log, past) ==
    \/ /\ queue["follow_up"] # <<>>
       /\ Drain("follow_up")
       /\ NextTurn(Recorded(log, Users("follow_up")), past \o Users("follow_up"))
    \/ /\ queue["follow_up"] = <<>>
       /\ queue["steering"] # <<>>
       /\ Drain("steering")
       /\ NextTurn(Recorded(log, Users("steering")), past \o Users("steering"))
    \/ /\ queue = Empty
       /\ Finish("settled")
       /\ session' = log
       /\ history' = past
       /\ UNCHANGED <<messages, loop, request>>

(* Fault: the run settles without a look at the follow-ups. *)
ConcludeTooEarly(log, past) ==
    \/ /\ queue["steering"] # <<>>
       /\ Drain("steering")
       /\ NextTurn(Recorded(log, Users("steering")), past \o Users("steering"))
    \/ /\ queue["steering"] = <<>>
       /\ Finish("settled")
       /\ session' = log
       /\ history' = past
       /\ UNCHANGED <<messages, loop, request>>

(* The end of a turn without tool calls: steering, else follow-ups, else the *)
(* run has settled.                                                          *)
Conclude(log, past) ==
    \/ /\ queue["steering"] # <<>>
       /\ Drain("steering")
       /\ NextTurn(Recorded(log, Users("steering")), past \o Users("steering"))
    \/ /\ queue["steering"] = <<>>
       /\ queue["follow_up"] # <<>>
       /\ Drain("follow_up")
       /\ NextTurn(Recorded(log, Users("follow_up")), past \o Users("follow_up"))
    \/ /\ queue = Empty
       /\ Finish("settled")
       /\ session' = log
       /\ history' = past
       /\ UNCHANGED <<messages, loop, request>>

-----------------------------------------------------------------------------
(* Permission: the calls are evaluated in order up to the next one to ask for *)

IsNextAsk(cs, first, next) ==
    /\ next \in DOMAIN cs => cs[next] = "ask"
    /\ \A k \in first..(next - 1) : cs[k] # "ask"

PolicyGrant(class) ==
    CASE class = "allow" -> "approved"
      [] class = "deny"  -> "denied"
      [] OTHER           -> "none"

Authorise(cs, first, granted, log) ==
    \E next \in first..(Len(cs) + 1) :
        /\ IsNextAsk(cs, first, next)
        /\ calls' = cs
        /\ grant' = [k \in 1..Len(cs) |->
                       IF k \in first..(next - 1) THEN PolicyGrant(cs[k]) ELSE granted[k]]
        /\ \E decided \in Ascending({k \in first..(next - 1) : cs[k] \in {"allow", "deny"}}) :
              audit' = Recorded(log, [n \in DOMAIN decided |->
                         Decision(turn, decided[n], cs[decided[n]] = "allow")])
        /\ completion' = <<>>
        /\ \/ /\ next \in DOMAIN cs
              /\ Suspend("permission")
              /\ pending' = [call |-> next, answer |-> "open"]
              /\ tool' = <<>>
              /\ batchMode' = "none"
           \/ /\ next = Len(cs) + 1
              /\ Suspend("batch")
              /\ pending' = NoRequest
              /\ tool' = [k \in 1..Len(cs) |->
                            IF cs[k] = "rejected" THEN "error" ELSE "waiting"]
              /\ batchMode' \in BatchModes

-----------------------------------------------------------------------------
(* The worker: context and provider attempt *)

Start ==
    /\ pc = "created"
    /\ ~interrupt
    /\ turn' = 1
    /\ UNCHANGED history
    /\ BuildContext(session, Recorded(session, <<User(Prompt)>>))
    /\ UNCHANGED <<messages, batch, audit>>

(* A task cancelled before its first step never enters _drive: nothing there *)
(* runs, its finally clause included.                                        *)
NeverStarted ==
    /\ pc = "created"
    /\ interrupt
    /\ pc' = "dead"
    /\ interrupt' = FALSE
    /\ UNCHANGED <<state, cancelRequested, messages, pending, loop, batch, transcript>>

(* Fault: the prompt is recorded only when the context did not wait. *)
CompactedWithoutPrompt ==
    /\ pc = "compacting"
    /\ ~interrupt
    /\ UNCHANGED <<turn, history, audit, messages, batch>>
    /\ ContextBuilt(session, session)

Compacted ==
    /\ pc = "compacting"
    /\ ~interrupt
    /\ UNCHANGED <<turn, history, audit, messages, batch>>
    /\ ContextBuilt(session, IF turn = 1 THEN Recorded(session, <<User(Prompt)>>)
                                         ELSE session)

(* The compaction engine fails, and waits while it closes its stream: an     *)
(* interrupt that arrives then is dropped for the failure (context.py:283).  *)
CompactionFails ==
    /\ pc = "compacting"
    /\ ~interrupt
    /\ Suspend("abandoning")
    /\ UNCHANGED <<messages, pending, loop, batch, transcript>>

CompactionAbandoned ==
    /\ pc = "abandoning"
    /\ Finish("failed")
    /\ UNCHANGED <<messages, loop, batch, transcript>>

(* A failed attempt is retried or ends the run.  An interrupt that arrived *)
(* while its stream was being closed is lost here.                         *)
AttemptFailed(kind) ==
    /\ IF kind = "retryable" /\ attempt < MaxAttempts
       THEN /\ pc' = "retrying"
            /\ interrupt' = FALSE
            /\ UNCHANGED <<state, cancelRequested, pending>>
       ELSE Finish("failed")
    /\ reply' = kind
    /\ UNCHANGED <<turn, attempt, messages, batch, transcript>>

(* Fault: the interrupt of a provider call is taken for a failure of it. *)
UnwindAsFailure ==
    /\ interrupt
    /\ \/ /\ pc \in {"compacting", "retrying", "permission"}
          /\ Finish("cancelled")
          /\ UNCHANGED <<messages, loop, batch, transcript>>
       \/ /\ pc = "opening"
          /\ AttemptFailed("retryable")

(* The interrupt is raised where the worker waits and unwinds to the run. *)
Unwind ==
    /\ pc \in {"compacting", "opening", "retrying", "permission"}
    /\ interrupt
    /\ Finish("cancelled")
    /\ UNCHANGED <<messages, loop, batch, transcript>>

Cancelled ==
    /\ Finish("cancelled")
    /\ UNCHANGED <<messages, loop, batch, transcript>>

(* provider.stream: a stream, an exception, or a cancellation of its own, *)
(* which is adopted only once the Host has cancelled the worker.          *)
Opened ==
    /\ pc = "opening"
    /\ ~interrupt
    /\ \/ /\ Suspend("reading")
          /\ UNCHANGED <<messages, pending, loop, batch, transcript>>
       \/ \E kind \in Failures : AttemptFailed(kind)
       \/ cancelRequested /\ Cancelled

CloseStream(shown) ==
    /\ pc' = "closing"
    /\ reply' = shown
    /\ interrupt' = FALSE
    /\ UNCHANGED <<state, cancelRequested, messages, pending, turn, attempt, batch,
                   transcript>>

ReadDone ==
    /\ pc = "reading"
    /\ ~interrupt
    /\ reply = "none"
    /\ reply' = "done"
    /\ UNCHANGED <<lifecycle, messages, pending, turn, attempt, batch, transcript>>

(* The stream ends, reports or raises a failure, or is cancelled. *)
ReadLast ==
    /\ pc = "reading"
    /\ \/ ~interrupt /\ CloseStream(reply)
       \/ ~interrupt /\ \E kind \in Failures : CloseStream(kind)
       \/ CloseStream("cancelled")

-----------------------------------------------------------------------------
(* The worker: an authoritative message and what follows it *)

NoBatch ==
    /\ calls' = <<>> /\ grant' = <<>> /\ tool' = <<>> /\ completion' = <<>>
    /\ batchMode' = "none"

Respond(cs) ==
    LET log == Recorded(session, <<Assistant(turn, cs)>>)
        past == Append(history, Assistant(turn, cs))
    IN  \/ /\ cs = <<>>
           /\ NoBatch
           /\ Conclude(log, past)
           /\ UNCHANGED audit
        \/ /\ cs # <<>>
           /\ Authorise(cs, 1, [k \in 1..Len(cs) |-> "none"], audit)
           /\ session' = log
           /\ history' = past
           /\ UNCHANGED <<messages, loop, request>>

(* The messages a provider may answer with, by the classes of their calls. *)
Replies == UNION {[1..n -> CallClasses] : n \in 0..MaxCalls}

(* The provider stream is closed.  A failure found before the close wins    *)
(* over whatever the close raises, the Host's interrupt included.  Without  *)
(* one, the close may fail, the stream may have ended without done, and an  *)
(* extension may refuse the message.                                        *)
Closed ==
    /\ pc = "closing"
    /\ \/ reply = "cancelled" /\ Cancelled
       \/ reply \in Failures /\ AttemptFailed(reply)
       \/ reply \in {"none", "done"} /\ cancelRequested /\ Cancelled
       \/ reply \in {"none", "done"} /\ ~interrupt /\ \E kind \in Failures : AttemptFailed(kind)
       \/ /\ reply = "done"
          /\ ~interrupt
          /\ Finish("failed")
          /\ UNCHANGED <<messages, loop, batch, transcript>>
       \/ reply = "done" /\ ~interrupt /\ \E cs \in Replies : Respond(cs)

(* Fault: the attempt is not counted. *)
RetryForever ==
    /\ pc = "retrying"
    /\ ~interrupt
    /\ \/ RetryDelay /\ cancelRequested /\ Cancelled
       \/ /\ ~(RetryDelay /\ cancelRequested)
          /\ Suspend("opening")
          /\ reply' = "none"
          /\ UNCHANGED <<attempt, messages, pending, turn, batch, transcript>>

(* A positive delay is raced against the cancel event, a zero delay is not. *)
Retry ==
    /\ pc = "retrying"
    /\ ~interrupt
    /\ \/ RetryDelay /\ cancelRequested /\ Cancelled
       \/ /\ ~(RetryDelay /\ cancelRequested)
          /\ Suspend("opening")
          /\ attempt' = attempt + 1
          /\ reply' = "none"
          /\ UNCHANGED <<messages, pending, turn, batch, transcript>>

Answered ==
    /\ pc = "permission"
    /\ ~interrupt
    /\ pending.answer \in {"approved", "denied"}
    /\ Authorise(calls, pending.call + 1, [grant EXCEPT ![pending.call] = pending.answer],
                 audit)
    /\ UNCHANGED <<messages, loop, session, history, request>>

-----------------------------------------------------------------------------
(* The tool batch, a task of its own, and the worker that waits for it *)

(* Fault: the gate lets through what nobody denied. *)
ToolBeginUnlessDenied(k) ==
    /\ pc = "batch"
    /\ k \in DOMAIN tool
    /\ tool[k] = "waiting"
    /\ IF calls[k] = "invalid" \/ grant[k] # "denied"
       THEN tool' = [tool EXCEPT ![k] = "running"] /\ UNCHANGED completion
       ELSE /\ tool' = [tool EXCEPT ![k] = "error"]
            /\ completion' = Append(completion, k)
    /\ UNCHANGED <<lifecycle, messages, pending, loop, calls, grant, batchMode, transcript>>

(* The last gate before a tool: it evaluates the call again and may refuse   *)
(* even an approved one; an invalid call and one without approval end in an  *)
(* error; and once the run is cancelled no tool is called.                   *)
ToolBegin(k) ==
    /\ pc = "batch"
    /\ k \in DOMAIN tool
    /\ tool[k] = "waiting"
    /\ batchMode = "sequential" => \A j \in 1..(k - 1) : tool[j] \notin {"waiting", "running"}
    /\ \/ /\ tool' = [tool EXCEPT ![k] = "error"]
          /\ completion' = Append(completion, k)
       \/ /\ cancelRequested
          /\ calls[k] = "invalid" \/ grant[k] = "approved"
          /\ tool' = [tool EXCEPT ![k] = "cancelled"]
          /\ completion' = Append(completion, k)
       \/ /\ ~cancelRequested
          /\ grant[k] = "approved"
          /\ tool' = [tool EXCEPT ![k] = "running"]
          /\ UNCHANGED completion
    /\ UNCHANGED <<lifecycle, messages, pending, loop, calls, grant, batchMode, transcript>>

ToolEnd(k) ==
    /\ pc \in {"batch", "joining"}
    /\ k \in DOMAIN tool
    /\ tool[k] = "running"
    /\ \E s \in {"success", "error", "cancelled"} :
          /\ s = "cancelled" => cancelRequested
          /\ tool' = [tool EXCEPT ![k] = s]
    /\ completion' = Append(completion, k)
    /\ UNCHANGED <<lifecycle, messages, pending, loop, calls, grant, batchMode, transcript>>

InOrderOf(ks) == [n \in 1..Len(ks) |-> Result(turn, ks[n], tool[ks[n]])]

(* Fault: the rejected calls get no result in the Session. *)
BatchDoneWithoutRejected ==
    LET log == Recorded(session, InOrderOf(completion))
        past == history \o InOrderOf([k \in 1..Len(calls) |-> k])
    IN  /\ pc = "batch"
        /\ ~interrupt
        /\ \A k \in DOMAIN tool : tool[k] \notin {"waiting", "running"}
        /\ NoBatch
        /\ Drain("steering")
        /\ NextTurn(Recorded(log, Users("steering")), past \o Users("steering"))
        /\ UNCHANGED audit

(* Fault: after a batch without steering the follow-ups are drained. *)
BatchDoneWithFollowUps ==
    LET q == IF queue["steering"] = <<>> THEN "follow_up" ELSE "steering"
        log == Recorded(session, InOrderOf(completion))
        past == history \o InOrderOf([k \in 1..Len(calls) |-> k])
    IN  /\ pc = "batch"
        /\ ~interrupt
        /\ \A k \in DOMAIN tool : tool[k] \notin {"waiting", "running"}
        /\ NoBatch
        /\ Drain(q)
        /\ NextTurn(Recorded(log, Users(q)), past \o Users(q))
        /\ UNCHANGED audit

(* Fault: steering waits for a turn without tool calls. *)
BatchDoneWithoutSteering ==
    LET log == Recorded(session, InOrderOf(completion))
        past == history \o InOrderOf([k \in 1..Len(calls) |-> k])
    IN  /\ pc = "batch"
        /\ ~interrupt
        /\ \A k \in DOMAIN tool : tool[k] \notin {"waiting", "running"}
        /\ NoBatch
        /\ NextTurn(log, past)
        /\ UNCHANGED <<audit, messages>>

(* Results are recorded as TOOL_EXECUTION_END is told: in completion order,  *)
(* then the rejected calls.  The in-memory list keeps the order of the calls. *)
BatchDone ==
    /\ pc = "batch"
    /\ ~interrupt
    /\ \A k \in DOMAIN tool : tool[k] \notin {"waiting", "running"}
    /\ NoBatch
    /\ Drain("steering")
    /\ \E rejected \in Ascending({k \in DOMAIN calls : calls[k] = "rejected"}) :
          LET log == Recorded(session, InOrderOf(completion \o rejected))
              past == history \o InOrderOf([k \in 1..Len(calls) |-> k])
          IN  NextTurn(Recorded(log, Users("steering")), past \o Users("steering"))
    /\ UNCHANGED audit

(* The interrupt cancels the batch and waits until no tool is running. *)
BatchInterrupted ==
    /\ pc = "batch"
    /\ interrupt
    /\ pc' = "joining"
    /\ interrupt' = FALSE
    /\ tool' = [k \in DOMAIN tool |-> IF tool[k] = "waiting" THEN "cancelled" ELSE tool[k]]
    /\ UNCHANGED <<state, cancelRequested, messages, pending, loop, calls, grant, completion,
                   batchMode, transcript>>

(* Fault: the run ends without waiting for its tools. *)
JoinedAtOnce ==
    /\ pc = "joining"
    /\ Cancelled

Joined ==
    /\ pc = "joining"
    /\ \A k \in DOMAIN tool : tool[k] # "running"
    /\ Cancelled

-----------------------------------------------------------------------------
Host ==
    \/ \E q \in Queues : \E m \in Texts[q] : Enqueue(q, m)
    \/ Cancel
    \/ \E approved \in BOOLEAN : Resolve(approved)

Worker ==
    \/ Start \/ NeverStarted \/ Compacted \/ CompactionFails \/ CompactionAbandoned \/ Unwind
    \/ Opened \/ ReadDone \/ ReadLast \/ Closed \/ Retry
    \/ Answered \/ BatchDone \/ BatchInterrupted \/ Joined

Tools == \E k \in 1..MaxCalls : ToolBegin(k) \/ ToolEnd(k)

Next == Host \/ Worker \/ Tools

Spec == Init /\ [][Next]_vars

(* The event loop runs what is ready; providers end their streams, tools end *)
(* (commands have a timeout), and a Host that is asked answers.              *)
FairSpec ==
    /\ Spec
    /\ WF_vars(Worker)
    /\ \A k \in 1..MaxCalls : WF_vars(ToolBegin(k)) /\ WF_vars(ToolEnd(k))
    /\ WF_vars(\E approved \in BOOLEAN : Resolve(approved))

-----------------------------------------------------------------------------
(* Safety *)

Entries ==
    {User(text) : text \in {Prompt} \cup Steering \cup FollowUps}
    \cup {Assistant(t, cs) : t \in 1..MaxTurns, cs \in Replies}
    \cup {Result(t, k, s) : t \in 1..MaxTurns, k \in 1..MaxCalls,
                            s \in {"success", "error", "cancelled"}}

Waiting == [Queues -> Seq(Steering \cup FollowUps)]

LifecycleOK ==
    /\ pc \in {"created", "dead", "compacting", "abandoning", "opening", "reading",
               "closing", "retrying", "permission", "batch", "joining", "done"}
    /\ state \in {"active"} \cup Terminal
    /\ cancelRequested \in BOOLEAN
    /\ interrupt \in BOOLEAN

MessagesOK ==
    /\ queue \in Waiting /\ accepted \in Waiting
    /\ injected \in Waiting /\ dropped \in Waiting

Questions == [call : 0..MaxCalls, answer : {"none", "open", "approved", "denied"}]

LoopOK ==
    /\ turn \in 0..MaxTurns
    /\ attempt \in 0..MaxAttempts
    /\ reply \in {"none", "done", "cancelled"} \cup Failures
    /\ pending \in Questions

BatchOK ==
    /\ calls \in Replies
    /\ grant \in [1..Len(calls) -> {"none", "approved", "denied"}]
    /\ \/ tool = <<>>
       \/ tool \in [1..Len(calls) ->
                    {"waiting", "running", "success", "error", "cancelled"}]
    /\ completion \in Seq(1..Len(calls))
    /\ batchMode \in {"none"} \cup BatchModes

Decisions == [turn : 1..MaxTurns, call : 1..MaxCalls, approved : BOOLEAN]

TranscriptOK ==
    /\ session \in Seq(Entries) /\ history \in Seq(Entries) /\ request \in Seq(Entries)
    /\ audit \in Seq(Decisions)

(* Every variable has its type; the turn limit and the retry budget hold. *)
TypeOK == LifecycleOK /\ MessagesOK /\ LoopOK /\ BatchOK /\ TranscriptOK

(* No queued message is lost, doubled or reordered, whatever mix of drains,  *)
(* cancellation and failures follows: what the Host was told is queued is    *)
(* what it was told is injected, then what still waits or was dropped.       *)
MessagesConserved ==
    \A q \in Queues : accepted[q] = injected[q] \o queue[q] \o dropped[q]

Says(log, m) == User(m) \in ToSet(log)

(* A settled run has answered everything it took: nothing waits, each        *)
(* injected message was in the last request, and the last word is an         *)
(* assistant message that asks for no tool.                                  *)
SettledServed ==
    state = "settled" =>
        /\ queue = Empty
        /\ \A q \in Queues : \A m \in ToSet(injected[q]) : Says(request, m)
        /\ Last(history) = Assistant(turn, <<>>)

(* Cancelling discards what was not injected: it is never queued, recorded,  *)
(* remembered or sent afterwards, even when the worker goes on for a while.  *)
CancelDiscardsMessages ==
    cancelRequested =>
        /\ queue = Empty
        /\ \A q \in Queues : \A m \in ToSet(dropped[q]) :
              ~Says(session, m) /\ ~Says(history, m) /\ ~Says(request, m)

(* Follow-ups are kept for the boundary where the run would have settled: in *)
(* a request they stand behind a call-less assistant message or each other.  *)
FollowUpsAtBoundary ==
    \A n \in DOMAIN request :
        request[n].role = "user" /\ request[n].text \in FollowUps =>
            /\ n > 1
            /\ \/ request[n - 1].role = "assistant" /\ request[n - 1].calls = <<>>
               \/ request[n - 1].role = "user" /\ request[n - 1].text \in FollowUps

(* Steering accepted during a turn is in the next one: no turn but the first *)
(* begins while a steering message waits.                                    *)
SteeringReachesNextTurn ==
    [][turn > 0 /\ turn' = turn + 1 => queue'["steering"] = <<>>]_vars

(* A request a provider would refuse is never sent: the results behind an    *)
(* assistant message of this run answer each of its calls exactly once, and  *)
(* no other message comes in between.  What an earlier, cancelled run of the *)
(* Session left unanswered is not part of it.                                *)
RequestWellFormed ==
    \A n \in DOMAIN request :
        /\ request[n].role = "assistant" =>
              LET size == Len(request[n].calls)
                  results == {m \in DOMAIN request \cap ((n + 1)..(n + size)) :
                                request[m].role = "tool" /\ request[m].turn = request[n].turn}
              IN  {request[m].call : m \in results} = 1..size
        /\ request[n].role = "tool" =>
              \E m \in 1..(n - 1) : /\ request[m].role = "assistant"
                                    /\ request[m].turn = request[n].turn
                                    /\ n - m <= Len(request[m].calls)

(* The Session and the loop's own list tell one conversation: they differ at *)
(* most in the order of one batch's results.                                 *)
SessionFollowsHistory ==
    WithSession /\ pc \in {"opening", "reading", "closing", "retrying", "permission", "batch"} =>
        /\ Len(session) = Len(history)
        /\ ToSet(session) = ToSet(history)
        /\ \A n \in DOMAIN session :
              \/ session[n] = history[n]
              \/ /\ session[n].role = "tool" /\ history[n].role = "tool"
                 /\ session[n].turn = history[n].turn

DecisionsOn(t, k) == {n \in DOMAIN audit : audit[n].turn = t /\ audit[n].call = k}

(* However an answer, a cancellation and the policy race, the Session holds  *)
(* at most one Permission Decision on a call.                                *)
OneDecisionPerCall ==
    \A t \in 1..MaxTurns : \A k \in 1..MaxCalls : Cardinality(DecisionsOn(t, k)) <= 1

(* No effect without authority: a tool that runs or has run was allowed by   *)
(* the policy or the Host, and with a Session that approval was on record    *)
(* before the tool began.                                                    *)
EffectsAuthorised ==
    /\ \A k \in DOMAIN tool : tool[k] \in {"running", "success"} =>
          /\ calls[k] \in {"allow", "ask"}
          /\ grant[k] = "approved"
          /\ WithSession => \E n \in DecisionsOn(turn, k) : audit[n].approved
    /\ \A e \in ToSet(session) : e.role = "tool" /\ e.status = "success" =>
          \E n \in DecisionsOn(e.turn, e.call) : audit[n].approved

(* An ended run leaves nothing behind: no tool runs, no question is open.    *)
TerminalQuiescent ==
    state # "active" =>
        /\ \A k \in DOMAIN tool : tool[k] # "running"
        /\ pending = NoRequest

Unfinished(marks) == {k \in DOMAIN tool : tool[k] \in marks}

(* What one turn may take at most, in steps of the worker and its tools.     *)
PerTurn == 3 * MaxCalls + 5 * MaxAttempts + 9

(* What the turn still has to do at most.                                    *)
TurnWork ==
    LET toolWork == Cardinality(Unfinished({"waiting"}))
                        + Cardinality(Unfinished({"waiting", "running"}))
        retries(steps) == 3 * MaxCalls + 4 + 5 * (MaxAttempts - attempt) + steps
    IN  CASE pc = "created"    -> 1
          [] pc = "compacting" -> PerTurn
          [] pc = "abandoning" -> 1
          [] pc = "opening"    -> retries(4)
          [] pc = "reading"    -> retries(IF reply = "none" THEN 3 ELSE 2)
          [] pc = "closing"    -> retries(1)
          [] pc = "retrying"   -> retries(0)
          [] pc = "permission" -> 2 * MaxCalls + 3 + (IF interrupt THEN 0
                                                      ELSE MaxCalls - pending.call)
          [] pc = "batch"      -> toolWork + 2
          [] pc = "joining"    -> toolWork + 1
          [] OTHER             -> 0

(* With or without a turn limit, nothing goes round for ever inside a turn,  *)
(* whatever the Host does meanwhile and whatever fails: attempts, questions  *)
(* and tools are used up, and nothing the Host does adds to them.  And a     *)
(* turn after the first begins only with tool results or a Host message.     *)
WorkShrinks ==
    [][\/ /\ turn' = turn
          /\ TurnWork' <= TurnWork
          /\ Worker \/ Tools => TurnWork' < TurnWork
       \/ /\ turn' = turn + 1
          /\ TurnWork' <= PerTurn
          /\ turn = 0 \/ pc = "batch" \/ injected' # injected]_vars

(* The run keeps the contract with its Host. *)
Promise == INSTANCE RunContract WITH
    status <- state,
    withdrawn <- cancelRequested,
    waiting <- queue,
    delivered <- injected,
    discarded <- dropped,
    question <- CASE pending.answer = "none" -> "none"
                  [] pending.answer = "open" -> "open"
                  [] OTHER -> "answered"

Contract == Promise!Contract

-----------------------------------------------------------------------------
(* Liveness *)

(* The two ways a run is left without an end, both after a cancellation: its *)
(* worker never took a step, or it asks a question nobody may answer.        *)
Stranded ==
    /\ cancelRequested
    /\ pc = "dead" \/ (pc = "permission" /\ pending.answer = "open")

(* Every run with a turn limit ends, unless it is stranded.  Without one     *)
(* (max_turns=None) the model may ask for tools for ever.                    *)
RunEnds == TurnLimited => <>(state # "active" \/ Stranded)

(* An interrupt that reaches a started worker ends the run as cancelled,     *)
(* unless the stream of something that failed is being closed: of an         *)
(* attempt, or of the compaction engine.                                     *)
CancelHonoured ==
    (/\ interrupt
     /\ pc \notin {"created", "abandoning"}
     /\ ~(pc = "closing" /\ reply \in Failures))
        ~> state = "cancelled"

-----------------------------------------------------------------------------
(* What the documents and docstrings say and the code does not do *)

(* "Cancel active Provider or Tool Execution work and await settlement."     *)
CancelEndsRun == cancelRequested ~> state # "active"

(* "Cancellation propagates to Provider, Tool Execution and retry wait": a   *)
(* cancelled run makes no further request.                                   *)
NoRequestAfterCancel ==
    [][pc # "opening" /\ pc' = "opening" => ~cancelRequested]_vars

(* "The final ToolResults are written back in the order of the ToolCalls."   *)
ResultsKeepCallOrder ==
    \A m, n \in DOMAIN request :
        /\ m < n
        /\ request[m].role = "tool" /\ request[n].role = "tool"
        /\ request[m].turn = request[n].turn
        => request[m].call < request[n].call
=============================================================================
