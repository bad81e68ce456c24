---------------------------- MODULE ToolExecution ----------------------------
(* What one batch of tool calls does to the files: the PermissionPolicy that  *)
(* decides about the calls, the ToolRuntime that schedules them and decides a *)
(* second time, and the LocalCodingEnvironment that carries them out, while   *)
(* the Host may cancel and others may touch the same workspace.               *)
(*                                                                            *)
(* The workspace is one file inside, one outside, and a link to one of them.  *)
(* The content of a file is the set of the calls whose change it shows, with  *)
(* 0 for the text an edit looks for.                                          *)
EXTENDS Integers, Sequences, FiniteSets

CONSTANTS
    MaxCalls,      \* bound on the calls of the batch
    Interference   \* whether others write files or move the link meanwhile

ASSUME ExecutionAssumption == MaxCalls \in Nat \ {0} /\ Interference \in BOOLEAN

VARIABLES
    mode,        \* Permission Mode of the run
    calls,       \* the calls of the assistant message, as Extensions left them
    stage,       \* deciding, batch, unwinding, done or cancelled
    decision,    \* the Permission Decision for each call
    step,        \* how far each call has come
    result,      \* the ToolResult of each call that has one
    seen,        \* what an edit has read
    file,        \* content of each file
    link,        \* where the link leads
    did,         \* which file each call has changed
    temporary,   \* calls whose temporary file exists
    process,     \* calls whose command runs
    disturbed,   \* whether others changed a file
    relinked     \* whether others moved the link

vars == <<mode, calls, stage, decision, step, result, seen, file, link, did,
          temporary, process, disturbed, relinked>>

Modes == {"plan", "ask", "auto", "full"}
Places == {"inside", "outside"}
FileTools == {"read", "write", "edit"}
Commands == {"shell", "shell_outside", "network", "unknown"}

(* A file call by its path ("home" starts with a tilde), a command by what   *)
(* the classifier makes of it, a tool of an Extension, or a call with        *)
(* arguments that its schema refuses. "read" is every tool that reads files. *)
Calls == [tool : FileTools, on : Places \cup {"link", "home"}]
            \cup [tool : {"bash"}, on : Commands]
            \cup [tool : {"custom", "invalid"}, on : {"none"}]

(* Fault: edits are scheduled like reads.                                    *)
ParallelEdits(tool) == IF tool \in {"write", "bash"} THEN "sequential" ELSE "parallel"

(* ToolSpec.mode *)
Scheduling(tool) == IF tool \in {"write", "edit", "bash"} THEN "sequential" ELSE "parallel"

-----------------------------------------------------------------------------
(* PermissionPolicy *)

(* _normalize_target: where a path leads for the policy, which expands a     *)
(* leading tilde. A link that leads nowhere cannot be classified.            *)
Target(call) == CASE call.on = "link" -> link [] call.on = "home" -> "outside" [] OTHER -> call.on
Classifiable(call) == call.tool \in FileTools => Target(call) # "loop"

(* _intent, _bash_intent: kind, scope and target of a call as it is now.     *)
Intent(call) ==
    CASE call.tool \in FileTools ->
           [kind |-> IF call.tool = "read" THEN "read" ELSE "write",
            scope |-> IF Target(call) = "inside" THEN "workspace" ELSE "outside", target |-> Target(call)]
      [] call.tool = "bash" ->
           [kind |-> CASE call.on = "network" -> "network"
                       [] call.on = "unknown" -> "unknown"
                       [] OTHER -> "shell",
            scope |-> CASE call.on = "shell_outside" -> "outside"
                        [] call.on = "unknown" -> "unknown"
                        [] OTHER -> "workspace",
            target |-> call.on]
      [] call.tool = "custom" -> [kind |-> "custom", scope |-> "unknown", target |-> "none"]

(* Fault: plan trusts a shell command that looks harmless.                   *)
TrustingActions(permission, kind, scope, guaranteed) ==
    CASE permission = "full" -> {"allow"}
      [] permission = "plan" ->
           IF kind \in {"read", "shell"} /\ scope = "workspace" THEN {"allow"} ELSE {"deny"}
      [] permission = "ask" -> IF kind = "read" /\ scope = "workspace" THEN {"allow"} ELSE {"ask"}
      [] permission = "auto" ->
           IF kind \in {"network", "custom", "unknown"} \/ scope # "workspace" THEN {"ask"} ELSE {"allow"}

(* _canonical_permission_actions. Of a read-only shell it may be known that  *)
(* the environment guarantees it, that it does not, or neither.              *)
Actions(permission, kind, scope, guaranteed) ==
    CASE permission = "full" -> {"allow"}
      [] permission = "plan" ->
           IF scope # "workspace" \/ kind \notin {"read", "shell"} THEN {"deny"}
           ELSE CASE kind = "read" \/ guaranteed = "yes" -> {"allow"}
                  [] kind = "shell" /\ guaranteed = "no" -> {"deny"}
                  [] OTHER -> {"allow", "deny"}
      [] permission = "ask" -> IF kind = "read" /\ scope = "workspace" THEN {"allow"} ELSE {"ask"}
      [] permission = "auto" ->
           IF kind \in {"network", "custom", "unknown"} \/ scope # "workspace" THEN {"ask"} ELSE {"allow"}

(* evaluate: a local workspace guarantees no read-only shell.                *)
Action(call) ==
    LET intent == Intent(call)
    IN  CHOOSE action \in Actions(mode, intent.kind, intent.scope, "no") : TRUE

(* binding: the call, its arguments and its intent.                          *)
Binding(call) == <<call, Intent(call)>>

Decision(call, approved, source) ==
    [mode |-> mode, tool |-> call.tool, approved |-> approved, source |-> source,
     intent |-> Intent(call), binding |-> Binding(call)]
NoDecision == [mode |-> "none", tool |-> "none", approved |-> FALSE, source |-> "none",
               intent |-> [kind |-> "none", scope |-> "none", target |-> "none"], binding |-> <<>>]

(* validate_permission_decision_record: what a Session accepts and replays.  *)
ValidRecord(record) ==
    LET intent == record.intent
        action == IF record.source = "host" THEN "ask"
                  ELSE IF record.approved THEN "allow" ELSE "deny"
    IN  /\ record.tool = "bash" => intent.kind \in {"shell", "network", "unknown"}
        /\ record.tool = "read" => intent.kind = "read"
        /\ record.tool \in {"write", "edit"} => intent.kind = "write"
        /\ record.tool \in FileTools => intent.scope # "unknown"
        /\ record.tool = "custom" => intent.kind = "custom" /\ intent.scope = "unknown"
        /\ action \in Actions(record.mode, intent.kind, intent.scope, "either")

-----------------------------------------------------------------------------
(* Deciding *)

Batches == UNION {[1..n -> Calls] : n \in 1..MaxCalls}

Init ==
    /\ mode \in Modes /\ calls \in Batches
    /\ stage = "deciding"
    /\ decision = [i \in DOMAIN calls |-> NoDecision]
    /\ step = [i \in DOMAIN calls |-> "undecided"]
    /\ result = [i \in DOMAIN calls |-> "none"]
    /\ seen = [i \in DOMAIN calls |-> {}]
    /\ file = [p \in Places |-> {0}] /\ link = "inside"
    /\ did = [i \in DOMAIN calls |-> "none"]
    /\ temporary = {} /\ process = {}
    /\ disturbed = FALSE /\ relinked = FALSE

world == <<file, link, did, temporary, process, disturbed, relinked>>

(* Fault: the Host is also asked about what the policy denies.               *)
DecideByHost(i) ==
    LET call == calls[i]
    IN  IF Action(call) \in {"ask", "deny"}
        THEN \E approved \in BOOLEAN : decision' = [decision EXCEPT ![i] = Decision(call, approved, "host")]
        ELSE decision' = [decision EXCEPT ![i] = Decision(call, TRUE, "policy")]

(* The policy's action, or what the Host answers when it is asked.           *)
Decide(i) ==
    LET call == calls[i]
    IN  IF Action(call) = "ask"
        THEN \E approved \in BOOLEAN : decision' = [decision EXCEPT ![i] = Decision(call, approved, "host")]
        ELSE decision' = [decision EXCEPT ![i] = Decision(call, Action(call) = "allow", "policy")]

(* One call after the other: a call that cannot be classified has its error  *)
(* at once, an invalid one gets it in the batch.                             *)
EvaluatePermission(i) ==
    /\ stage = "deciding"
    /\ step[i] = "undecided" /\ \A j \in 1..i-1 : step[j] # "undecided"
    /\ CASE calls[i].tool = "invalid" ->
              step' = [step EXCEPT ![i] = "waiting"] /\ UNCHANGED <<decision, result>>
         [] ~Classifiable(calls[i]) ->
              /\ step' = [step EXCEPT ![i] = "ended"]
              /\ result' = [result EXCEPT ![i] = "error"]
              /\ UNCHANGED decision
         [] OTHER -> step' = [step EXCEPT ![i] = "waiting"] /\ Decide(i) /\ UNCHANGED result
    /\ UNCHANGED <<mode, calls, stage, seen, world>>

StartBatch ==
    /\ stage = "deciding" /\ \A i \in DOMAIN calls : step[i] # "undecided"
    /\ stage' = "batch"
    /\ UNCHANGED <<mode, calls, decision, step, result, seen, world>>

-----------------------------------------------------------------------------
(* The batch *)

(* batch_mode: one sequential call makes the whole batch sequential. A call  *)
(* without a decision is invalid, or was rejected before the batch.          *)
Sequential == \E i \in DOMAIN calls : decision[i].mode # "none" /\ Scheduling(calls[i].tool) = "sequential"

Alive == stage \in {"batch", "unwinding"}
Cancelled == stage = "unwinding"

End(i, status) ==
    /\ step' = [step EXCEPT ![i] = "ended"]
    /\ result' = [result EXCEPT ![i] = status]

Go(i, to) == step' = [step EXCEPT ![i] = to] /\ UNCHANGED result

(* Fault: an approval is enough, whatever it was given for.                  *)
PassesApproved(i) == Classifiable(calls[i]) /\ decision[i].approved

(* _permission_gate_error: the decision is for this call as it is now, and   *)
(* neither it nor the policy denies.                                         *)
Passes(i) ==
    /\ Classifiable(calls[i])
    /\ decision[i].mode = mode /\ decision[i].binding = Binding(calls[i])
    /\ Action(calls[i]) # "deny" /\ decision[i].approved

(* _execute_batch, _execute_one: validation and the gate, then the tool.     *)
Begin(i) ==
    /\ stage = "batch" /\ step[i] = "waiting"
    /\ Sequential => \A j \in 1..i-1 : step[j] = "ended"
    /\ IF calls[i].tool = "invalid" \/ ~Passes(i)
       THEN End(i, "error")
       ELSE Go(i, "started")
    /\ UNCHANGED <<mode, calls, stage, decision, seen, world>>

(* resolve_path: where a path leads for the environment, which takes a tilde *)
(* for the name of a directory of the workspace.                             *)
Place(call) == CASE call.on = "link" -> link [] call.on = "home" -> "inside" [] OTHER -> call.on

(* Fault: what the Host approved is not contained.                           *)
ResolvesApproved(i) == Place(calls[i]) # "loop" /\ (Place(calls[i]) = "outside" => decision[i].approved)

(* Outside full mode, a path must stay in the workspace.                     *)
Resolves(i) == Place(calls[i]) # "loop" /\ (Place(calls[i]) = "outside" => mode = "full")

(* read_text, which is also the first half of edit_text.                     *)
Read(i) ==
    /\ Alive /\ calls[i].tool \in {"read", "edit"} /\ step[i] = "started"
    /\ IF Cancelled THEN End(i, "cancelled") /\ UNCHANGED seen
       ELSE \/ End(i, "error") /\ UNCHANGED seen
            \/ /\ Resolves(i)
               /\ Go(i, "read") /\ seen' = [seen EXCEPT ![i] = file[Place(calls[i])]]
    /\ UNCHANGED <<mode, calls, stage, decision, world>>

EndRead(i) ==
    /\ Alive /\ calls[i].tool = "read" /\ step[i] = "read"
    /\ End(i, IF Cancelled THEN "cancelled" ELSE "success")
    /\ UNCHANGED <<mode, calls, stage, decision, seen, world>>

(* write_text up to its wait for the parent directory, which may fail: the   *)
(* path is resolved, by an edit for the second time, and stays what it is.   *)
Prepare(i) ==
    /\ Alive
    /\ \/ calls[i].tool = "write" /\ step[i] = "started"
       \/ calls[i].tool = "edit" /\ step[i] = "read"
    /\ IF Cancelled THEN End(i, "cancelled")
       ELSE \/ End(i, "error")
            \/ /\ Resolves(i) /\ (calls[i].tool = "edit" => 0 \in seen[i])
               /\ Go(i, Place(calls[i]))
    /\ UNCHANGED <<mode, calls, stage, decision, seen, world>>

(* The temporary file beside the target is written, by a thread. A failure   *)
(* is told, and what was written is left.                                    *)
WriteTemporary(i) ==
    /\ Alive /\ step[i] \in Places /\ i \notin temporary
    /\ IF Cancelled THEN End(i, "cancelled") /\ UNCHANGED temporary
       ELSE /\ temporary' = temporary \cup {i}
            /\ End(i, "error") \/ UNCHANGED <<step, result>>
    /\ UNCHANGED <<mode, calls, stage, decision, seen, file, link, did, process, disturbed, relinked>>

NewContent(i) == IF calls[i].tool = "edit" THEN seen[i] \cup {i} ELSE {i}

(* Fault: cancellation is looked at when the file is in place already.       *)
ReplaceThenCheck(i) ==
    /\ Alive /\ i \in temporary /\ step[i] \in Places
    /\ temporary' = temporary \ {i}
    /\ End(i, IF Cancelled THEN "cancelled" ELSE "success")
    /\ file' = [file EXCEPT ![step[i]] = NewContent(i)]
    /\ did' = [did EXCEPT ![i] = step[i]]
    /\ UNCHANGED <<mode, calls, stage, decision, seen, link, process, disturbed, relinked>>

(* It takes the target's place in one step, fails to and is left, or is      *)
(* removed once cancelled.                                                   *)
Replace(i) ==
    /\ Alive /\ i \in temporary /\ step[i] \in Places
    /\ \/ Cancelled /\ End(i, "cancelled") /\ temporary' = temporary \ {i} /\ UNCHANGED <<file, did>>
       \/ ~Cancelled /\ End(i, "error") /\ UNCHANGED <<temporary, file, did>>
       \/ /\ ~Cancelled /\ End(i, "success")
          /\ temporary' = temporary \ {i}
          /\ file' = [file EXCEPT ![step[i]] = NewContent(i)]
          /\ did' = [did EXCEPT ![i] = step[i]]
    /\ UNCHANGED <<mode, calls, stage, decision, seen, link, process, disturbed, relinked>>

(* run_command: a process group of its own, in a directory that is resolved  *)
(* like a path.                                                              *)
StartCommand(i) ==
    /\ Alive /\ calls[i].tool = "bash" /\ step[i] = "started"
    /\ IF Cancelled THEN End(i, "cancelled") /\ UNCHANGED process
       ELSE \/ Go(i, "running") /\ process' = process \cup {i}
            \/ mode # "full" /\ calls[i].on # "shell" /\ End(i, "error") /\ UNCHANGED process
    /\ UNCHANGED <<mode, calls, stage, decision, seen, file, link, did, temporary, disturbed, relinked>>

(* A command adds to a file of the workspace, or moves the link.             *)
CommandActs(i) ==
    /\ i \in process /\ did[i] = "none"
    /\ \/ file' = [file EXCEPT !["inside"] = @ \cup {i}] /\ did' = [did EXCEPT ![i] = "inside"] /\ UNCHANGED link
       \/ link' \in {"outside", "loop"} /\ did' = [did EXCEPT ![i] = "link"] /\ UNCHANGED file
    /\ UNCHANGED <<mode, calls, stage, decision, step, result, seen, temporary, process, disturbed, relinked>>

(* It exits, with or without an error, or is killed at its timeout or when   *)
(* the run is cancelled, and waited for.                                     *)
CommandEnds(i) ==
    /\ Alive /\ step[i] = "running" /\ i \in process
    /\ process' = process \ {i}
    /\ \E status \in IF Cancelled THEN {"cancelled"} ELSE {"success", "error"} : End(i, status)
    /\ UNCHANGED <<mode, calls, stage, decision, seen, file, link, did, temporary, disturbed, relinked>>

(* A tool of an Extension, which may also cancel itself.                     *)
RunCustom(i) ==
    /\ Alive /\ calls[i].tool = "custom" /\ step[i] = "started"
    /\ \E status \in IF Cancelled THEN {"cancelled"} ELSE {"success", "error"} : End(i, status)
    /\ UNCHANGED <<mode, calls, stage, decision, seen, world>>

(* All have ended: results in the order of the calls, whatever the order in  *)
(* which they completed. A cancelled batch returns none.                     *)
EndBatch ==
    /\ Alive /\ \A i \in DOMAIN calls : step[i] = "ended"
    /\ stage' = IF Cancelled THEN "cancelled" ELSE "done"
    /\ UNCHANGED <<mode, calls, decision, step, result, seen, world>>

-----------------------------------------------------------------------------
(* Cancellation *)

(* The Host cancels: the event is set and the batch task is cancelled.       *)
Cancel ==
    /\ stage \in {"deciding", "batch"}
    /\ stage' = "unwinding"
    /\ step' = [i \in DOMAIN calls |-> IF step[i] \in {"undecided", "waiting"} THEN "ended" ELSE step[i]]
    /\ UNCHANGED <<mode, calls, decision, result, seen, world>>

(* Fault: a write is left at once, with what it has written.                 *)
UnwindAtOnce(i) ==
    /\ Cancelled /\ step[i] # "ended"
    /\ step' = [step EXCEPT ![i] = "ended"]
    /\ process' = process \ {i}
    /\ UNCHANGED <<mode, calls, stage, decision, result, seen, file, link, did, temporary, disturbed, relinked>>

(* The task of a call is cancelled where it waits: a write waits for its     *)
(* thread and removes the file, a command is killed and waited for.          *)
Unwind(i) ==
    /\ Cancelled /\ step[i] # "ended"
    /\ step' = [step EXCEPT ![i] = "ended"]
    /\ temporary' = temporary \ {i}
    /\ process' = process \ {i}
    /\ UNCHANGED <<mode, calls, stage, decision, result, seen, file, link, did, disturbed, relinked>>

-----------------------------------------------------------------------------
(* Others: another run of the kernel, or the user at work in the workspace.  *)

OthersWrite ==
    /\ Interference /\ ~disturbed
    /\ \E p \in Places : file' = [file EXCEPT ![p] = {0}]
    /\ disturbed' = TRUE
    /\ UNCHANGED <<mode, calls, stage, decision, step, result, seen, link, did, temporary, process, relinked>>

OthersRelink ==
    /\ Interference /\ ~relinked
    /\ link' \in (Places \cup {"loop"}) \ {link}
    /\ relinked' = TRUE
    /\ UNCHANGED <<mode, calls, stage, decision, step, result, seen, file, did, temporary, process, disturbed>>

Next ==
    \/ \E i \in DOMAIN calls :
          \/ EvaluatePermission(i) \/ Begin(i)
          \/ Read(i) \/ EndRead(i) \/ Prepare(i) \/ WriteTemporary(i) \/ Replace(i)
          \/ StartCommand(i) \/ CommandActs(i) \/ CommandEnds(i) \/ RunCustom(i)
          \/ Unwind(i)
    \/ StartBatch \/ EndBatch \/ Cancel
    \/ OthersWrite \/ OthersRelink

Spec == Init /\ [][Next]_vars

-----------------------------------------------------------------------------
(* Properties *)

Over == stage \in {"done", "cancelled"}

(* The calls that have changed a file, and those whose change it shows if    *)
(* they ran one after the other: a write leaves nothing of what was before.  *)
Changes(p) == {i \in DOMAIN calls : did[i] = p}
Shows(p) ==
    {i \in Changes(p) \cup {0} : ~\E j \in Changes(p) : i < j /\ calls[j].tool = "write"}

(* However its calls were scheduled, a batch that nobody disturbed leaves a  *)
(* file as if its calls had run one after the other: no edit is lost.        *)
SequentialEffect == Over /\ ~disturbed /\ ~relinked => \A p \in Places : file[p] = Shows(p)

(* A write or edit has changed its file exactly if it is told to have        *)
(* succeeded: cancellation comes before the file is replaced or not at all.  *)
ResultTellsEffect ==
    \A i \in DOMAIN calls :
        calls[i].tool \in {"write", "edit"} /\ step[i] = "ended" =>
            (did[i] # "none" <=> result[i] = "success")

(* A run in plan mode changes no file and starts no process, however often   *)
(* the workspace moves between its decisions and its calls.                  *)
PlanChangesNothing == mode = "plan" => process = {} /\ \A i \in DOMAIN calls : did[i] = "none"

(* Outside full mode no file tool leaves the workspace, not even with the    *)
(* approval of the Host, nor when a link is moved after the gate.            *)
Contained ==
    \A i \in DOMAIN calls : calls[i].tool \in FileTools /\ did[i] = "outside" => mode = "full"

(* What a file tool changes is what the decision about it was about: an      *)
(* earlier call that moves a link makes the decisions it touches void. A     *)
(* leading tilde is excepted: policy and environment disagree about it.      *)
EffectAsDecided ==
    ~relinked =>
        \A i \in DOMAIN calls :
            calls[i].tool \in {"write", "edit"} /\ calls[i].on # "home" /\ did[i] # "none" =>
                decision[i].approved /\ decision[i].intent.target = did[i]

(* When a batch has returned, or its cancellation has, none of its commands  *)
(* runs and no temporary file of it is left but of a write it told to fail.  *)
NothingLeftBehind == Over => process = {} /\ \A i \in temporary : result[i] = "error"

(* Every decision that is recorded passes the validation of a later replay,  *)
(* so that no run makes its Session unreadable.                              *)
DecisionsReplay == \A i \in DOMAIN calls : decision[i] # NoDecision => ValidRecord(decision[i])
=============================================================================
