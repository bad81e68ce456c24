----------------------------- MODULE Evaluation -----------------------------
(* One SWE-bench evaluation: SWEbenchEvaluator.run with the workspace factory *)
(* and the Harness runner it waits for, around an AgentRun that may not stop  *)
(* when it is told to, under a user who may interrupt the program.            *)
(*                                                                            *)
(* "at" is the await the evaluator stands at. Every await ends by a timeout of*)
(* the code, but the one for the dataset.                                     *)
EXTENDS Naturals, FiniteSets

CONSTANT MaxInterrupts  \* bound on the interrupts of the user

ASSUME InterruptAssumption == MaxInterrupts \in Nat

VARIABLES
    at,          \* the await the evaluator is at, returned, exited or killed
    stage,       \* current_stage
    why,         \* status to report once the agent is stopped, "none", or "aborted"
                 \* by a KeyboardInterrupt raised in the evaluator itself
    manifest,    \* status in the manifest and whether it is completed
    outcome,     \* status the program returns
    prepared,    \* whether the evaluator holds a prepared workspace
    containers,  \* containers that exist
    run,         \* state of the AgentRun
    consumer,    \* task that reads its events
    session,     \* Session of the kernel
    recorded,    \* operations in cleanup_failures.jsonl
    official,    \* what the Harness left behind
    troubled,    \* a docker create or rm has failed or was interrupted
    interrupts,  \* interrupts of the user so far
    teardown     \* asyncio.run is cancelling the tasks that are left

vars == <<at, stage, why, manifest, outcome, prepared, containers, run, consumer, session,
          recorded, official, troubled, interrupts, teardown>>

agent == <<run, consumer, session>>
user == <<interrupts, teardown>>
record == <<manifest, outcome, recorded, official>>
docker == <<containers, troubled>>

Running == [status |-> "running", completed |-> FALSE]

Stops == {"stop_agent", "cancelling", "stop_consumer", "stop_consumer_again", "stop_session"}
Over == at \in {"returned", "exited", "killed"}

Init ==
    /\ at = "loading" /\ stage = "instance_loading" /\ why = "none"
    /\ manifest = Running /\ outcome = "none"
    /\ prepared = FALSE /\ containers = {}
    /\ run = "none" /\ consumer = "none" /\ session = "none"
    /\ recorded = {} /\ official = <<>>
    /\ troubled = FALSE /\ interrupts = 0 /\ teardown = FALSE

-----------------------------------------------------------------------------
(* Ends *)

(* failure, ArtifactBundle.finalize: the manifest is completed, and the      *)
(* finally clause closes the workspace if there is one.                      *)
Finish(status, open) ==
    /\ manifest' = [status |-> status, completed |-> TRUE]
    /\ outcome' = status
    /\ at' = IF open THEN "final_close" ELSE "returned"

Classified == [s \in {"instance_loading", "environment_preparation", "agent", "prediction", "harness"} |->
    CASE s \in {"instance_loading", "environment_preparation"} -> "environment_preparation_failed"
      [] s = "agent" -> "agent_failed"
      [] s = "prediction" -> "prediction_invalid"
      [] s = "harness" -> "harness_invocation_failed"]

(* An exception: the agent is stopped before it is told.                     *)
Raise == at' = "stop_agent" /\ why' = Classified[stage]

Go(to) == at' = to /\ UNCHANGED why
Enter(to, newStage) == Go(to) /\ stage' = newStage

-----------------------------------------------------------------------------
(* Loading and preparing *)

LoadInstance ==
    /\ at = "loading"
    /\ \/ Enter("inspect", "environment_preparation") /\ UNCHANGED record
       \/ Raise /\ UNCHANGED <<stage, record>>
       \/ /\ Finish("environment_preparation_failed", FALSE)
          /\ UNCHANGED <<stage, why, recorded, official>>
    /\ UNCHANGED <<prepared, docker, agent, user>>

InspectImage ==
    /\ at = "inspect"
    /\ Go("create_seed") \/ Raise
    /\ UNCHANGED <<stage, record, prepared, docker, agent, user>>

(* A docker create that fails may have created the container: its command    *)
(* timed out or its output was cut off.                                      *)
CreationFails(container) == troubled' = TRUE /\ containers' \in {containers, containers \cup {container}}
Created(container) == containers' = containers \cup {container} /\ UNCHANGED troubled

CreateSeed ==
    /\ at = "create_seed"
    /\ (Created("seed") /\ Go("copy")) \/ (CreationFails("seed") /\ Raise)
    /\ UNCHANGED <<stage, record, prepared, agent, user>>

(* Fault: the seed container is removed only when all went well.             *)
CopySeedWithoutFinally ==
    /\ at = "copy"
    /\ Go("remove_seed") \/ Raise
    /\ UNCHANGED <<stage, record, prepared, docker, agent, user>>

(* The seed is started, its HEAD, status and delta are checked, and its      *)
(* workspace is copied; whatever happens, the seed is removed.               *)
CopySeed ==
    /\ at = "copy"
    /\ at' = "remove_seed" /\ why' \in {"none", Classified[stage]}
    /\ UNCHANGED <<stage, record, prepared, docker, agent, user>>

(* docker rm --force: it may fail before or after the removal, and its exit  *)
(* code is looked at by nobody.                                              *)
RemovalFails(container) == troubled' = TRUE /\ containers' \in {containers, containers \ {container}}
Remove(container) ==
    \/ containers' = containers \ {container} /\ UNCHANGED troubled
    \/ RemovalFails(container)

RemoveSeed ==
    /\ at = "remove_seed"
    /\ \/ Remove("seed") /\ Go(IF why = "none" THEN "normalize" ELSE "stop_agent")
       \/ RemovalFails("seed") /\ Raise
    /\ UNCHANGED <<stage, record, prepared, agent, user>>

(* The copy is verified, reset to the base commit and verified again.        *)
Normalize ==
    /\ at = "normalize"
    /\ Go("create_agent") \/ Raise
    /\ UNCHANGED <<stage, record, prepared, docker, agent, user>>

CreateAgent ==
    /\ at = "create_agent"
    /\ \/ Created("agent") /\ Go("start_agent")
       \/ CreationFails("agent") /\ at' = "remove_agent" /\ why' = Classified[stage]
    /\ UNCHANGED <<stage, record, prepared, agent, user>>

(* Fault: a container that was created but does not start is not removed.    *)
StartAgentWithoutRemoval ==
    /\ at = "start_agent"
    /\ Go("compose") \/ Raise
    /\ UNCHANGED <<stage, record, prepared, docker, agent, user>>

StartAgent ==
    /\ at = "start_agent"
    /\ Go("compose") \/ (at' = "remove_agent" /\ why' = Classified[stage])
    /\ UNCHANGED <<stage, record, prepared, docker, agent, user>>

RemoveAgent ==
    /\ at = "remove_agent"
    /\ (Remove("agent") /\ Go("stop_agent")) \/ (RemovalFails("agent") /\ Raise)
    /\ UNCHANGED <<stage, record, prepared, agent, user>>

(* Without an await: artifacts, ToolRuntime, kernel with a new Session, run. *)
Compose ==
    /\ at = "compose"
    /\ prepared' = TRUE
    /\ \/ /\ Enter("agent", "agent")
          /\ run' = "active" /\ consumer' = "running" /\ session' = "open"
       \/ /\ Raise /\ UNCHANGED <<stage, run, consumer>>
          /\ session' \in {"none", "open"}
    /\ UNCHANGED <<record, docker, user>>

-----------------------------------------------------------------------------
(* The agent and the task that reads its events *)

(* A run ends by itself, cancelled by its provider or by the evaluator; it   *)
(* need not end.                                                             *)
RunEnds ==
    /\ run = "active"
    /\ run' \in {"settled", "failed", "cancelled"}
    /\ UNCHANGED <<at, stage, why, record, prepared, docker, consumer, session, user>>

(* consume: it returns the result of the run; recording an event or asking   *)
(* for a permission may fail; it ends when it is cancelled.                  *)
ConsumerEnds ==
    /\ \/ consumer = "running" /\ run \in {"settled", "failed", "cancelled"} /\ consumer' = "done"
       \/ consumer = "running" /\ consumer' = "failed"
       \/ consumer = "cancelling" /\ consumer' = "failed"
    /\ UNCHANGED <<at, stage, why, record, prepared, docker, run, session, user>>

ConsumerEnded == consumer \in {"none", "done", "failed"}

(* Only a run that has settled, of a Session that could be closed, goes on.  *)
AgentReturns ==
    /\ at = "agent"
    /\ \/ /\ consumer = "failed"
          /\ Raise \/ (at' = "stop_agent" /\ why' = "cancelled")
          /\ UNCHANGED <<stage, session, record>>
       \/ /\ consumer = "done"
          /\ Raise /\ UNCHANGED <<stage, session, record>>
       \/ /\ consumer = "done"
          /\ session' = "closed"
          /\ IF run = "settled"
             THEN Enter("patch", "prediction") /\ UNCHANGED record
             ELSE /\ Finish(IF run = "cancelled" THEN "cancelled" ELSE "agent_failed", TRUE)
                  /\ UNCHANGED <<stage, why, recorded, official>>
    /\ UNCHANGED <<prepared, docker, run, consumer, user>>

(* Fault: out of time, the patch is taken as it is.                          *)
AgentTimesOutWithPatch ==
    /\ at = "agent" /\ ~ConsumerEnded
    /\ Enter("patch", "prediction")
    /\ UNCHANGED <<record, prepared, docker, agent, user>>

AgentTimesOut ==
    /\ at = "agent" /\ ~ConsumerEnded
    /\ at' = "stop_agent" /\ why' = "timed_out"
    /\ UNCHANGED <<stage, record, prepared, docker, agent, user>>

-----------------------------------------------------------------------------
(* The prediction and the verdict *)

(* collect_patch, validate_prediction_patch.                                 *)
CollectPatch ==
    /\ at = "patch"
    /\ \/ Go("close") /\ UNCHANGED record
       \/ Raise /\ UNCHANGED record
       \/ \E status \in {"no_patch", "prediction_invalid"} : Finish(status, TRUE)
          /\ UNCHANGED <<why, recorded, official>>
    /\ UNCHANGED <<stage, prepared, docker, agent, user>>

(* record_cleanup_failure: the outcome of a completed manifest stays.        *)
Recorded(operation) == recorded' = recorded \cup {operation} /\ UNCHANGED official

CloseBeforeHarness ==
    /\ at = "close"
    /\ prepared' = FALSE
    /\ \/ Remove("agent") /\ Enter("harness", "harness") /\ UNCHANGED record
       \/ /\ RemovalFails("agent") /\ Recorded("workspace.close")
          /\ Finish("environment_preparation_failed", FALSE) /\ UNCHANGED <<stage, why>>
    /\ UNCHANGED <<agent, user>>

(* The lists of the summary that may name the instance: "error" stands for   *)
(* every list that makes the verdict void.                                   *)
Lists == {"submitted", "completed", "resolved", "unresolved", "error"}
Left == [exit : {0, 1}, report : {"resolved", "unresolved", "invalid"}, listed : SUBSET Lists]

(* OfficialHarnessRunner.evaluate: report and summary must agree.            *)
Verdict(left) ==
    IF left.exit # 0 THEN "harness_invocation_failed"
    ELSE CASE left.report = "resolved" /\ left.listed = Lists \ {"unresolved", "error"} -> "success"
           [] left.report = "unresolved" /\ left.listed = Lists \ {"resolved", "error"} -> "harness_failed"
           [] OTHER -> "harness_rejected"

Harness ==
    /\ at = "harness"
    /\ \/ Raise /\ UNCHANGED <<record>>
       \/ /\ official' \in Left
          /\ Finish(Verdict(official'), FALSE)
          /\ UNCHANGED <<why, recorded>>
    /\ UNCHANGED <<stage, prepared, docker, agent, user>>

-----------------------------------------------------------------------------
(* stop_agent *)

StopAgent ==
    /\ at = "stop_agent"
    /\ Go(IF run = "none" THEN "stop_consumer" ELSE "cancelling")
    /\ UNCHANGED <<stage, record, prepared, docker, agent, user>>

CancelReturns ==
    /\ at = "cancelling" /\ run # "active"
    /\ Go("stop_consumer")
    /\ UNCHANGED <<stage, record, prepared, docker, agent, user>>

(* Fault: a cancellation that does not return is not recorded.               *)
CancelFailsSilently ==
    /\ at = "cancelling" \/ (at = "stop_agent" /\ run # "none")
    /\ Go("stop_consumer")
    /\ consumer' = IF consumer = "running" THEN "cancelling" ELSE consumer
    /\ UNCHANGED <<stage, record, prepared, docker, run, session, user>>

(* The cancellation raises before it reaches the worker, or later, or does   *)
(* not return in time.                                                       *)
CancelFails ==
    /\ at = "cancelling" \/ (at = "stop_agent" /\ run # "none")
    /\ Go("stop_consumer") /\ Recorded("agent_run.cancel")
    /\ consumer' = IF consumer = "running" THEN "cancelling" ELSE consumer
    /\ UNCHANGED <<stage, manifest, outcome, prepared, docker, run, session, user>>

ConsumerStopped ==
    /\ at \in {"stop_consumer", "stop_consumer_again"} /\ ConsumerEnded
    /\ Go("stop_session")
    /\ UNCHANGED <<stage, record, prepared, docker, agent, user>>

(* Fault: a consumer that was not cancelled is waited for without a timeout. *)
ConsumerOverdueOnceCancelled ==
    /\ at = "stop_consumer" /\ consumer = "cancelling"
    /\ Go("stop_consumer_again") /\ Recorded("agent_run.consumer")
    /\ UNCHANGED <<stage, manifest, outcome, prepared, docker, agent, user>>

ConsumerOverdue ==
    /\ at = "stop_consumer" /\ ~ConsumerEnded
    /\ Go("stop_consumer_again") /\ Recorded("agent_run.consumer")
    /\ consumer' = "cancelling"
    /\ UNCHANGED <<stage, manifest, outcome, prepared, docker, run, session, user>>

ConsumerGivenUp ==
    /\ at = "stop_consumer_again" /\ ~ConsumerEnded
    /\ Go("stop_session")
    /\ UNCHANGED <<stage, record, prepared, docker, agent, user>>

(* close_session of a kernel that is still held; then the failure is told.   *)
StopSession ==
    /\ at = "stop_session"
    /\ IF session = "open"
       THEN \/ session' = "closed" /\ UNCHANGED recorded
            \/ recorded' = recorded \cup {"kernel.close_session"} /\ UNCHANGED session
       ELSE UNCHANGED <<session, recorded>>
    /\ Finish(why, prepared)
    /\ UNCHANGED <<stage, why, prepared, docker, run, consumer, official, user>>

-----------------------------------------------------------------------------
(* The end *)

(* Fault: a failed cleanup replaces the outcome in the manifest.             *)
FinalCloseReplaces ==
    /\ at = "final_close"
    /\ prepared' = FALSE
    /\ Go("returned")
    /\ \/ Remove("agent") /\ UNCHANGED record
       \/ /\ RemovalFails("agent") /\ Recorded("workspace.close")
          /\ manifest' = [manifest EXCEPT !.status = "environment_preparation_failed"]
          /\ UNCHANGED outcome
    /\ UNCHANGED <<stage, agent, user>>

(* close_workspace in the finally clause keeps the outcome.                  *)
FinalClose ==
    /\ at = "final_close"
    /\ prepared' = FALSE
    /\ Go("returned")
    /\ \/ Remove("agent") /\ UNCHANGED record
       \/ RemovalFails("agent") /\ Recorded("workspace.close") /\ UNCHANGED <<manifest, outcome>>
    /\ UNCHANGED <<stage, agent, user>>

-----------------------------------------------------------------------------
(* Interrupts of the user *)

(* finalize_interruption of the command: it replaces whatever the evaluator  *)
(* has found.                                                                *)
Interruption == manifest' = [status |-> "cancelled", completed |-> TRUE] /\ outcome' = "cancelled"

Interrupted == interrupts < MaxInterrupts /\ interrupts' = interrupts + 1
ConsumerCancelled == consumer' = IF consumer = "running" THEN "cancelling" ELSE consumer

(* asyncio.run cancels the tasks that are left and waits for them. A         *)
(* KeyboardInterrupt, of before or of now, is what comes out in the end.     *)
Exit ==
    /\ at = "returned"
    /\ Go("exited")
    /\ \/ run # "active" /\ ConsumerEnded /\ UNCHANGED interrupts
       \/ Interrupted
    /\ IF teardown \/ why = "aborted" \/ interrupts' > interrupts
       THEN Interruption
       ELSE UNCHANGED <<manifest, outcome>>
    /\ UNCHANGED <<stage, prepared, docker, agent, recorded, official, teardown>>

ExitCancels ==
    /\ at = "returned" /\ consumer = "running"
    /\ ConsumerCancelled
    /\ UNCHANGED <<at, stage, why, record, prepared, docker, run, session, user>>

(* What the evaluator waits for is cancelled. In stop_agent and in the       *)
(* finally clause that is one more failed cleanup; a docker create or rm that*)
(* is cut off may or may not have happened.                                  *)
InterruptDocker ==
    \/ /\ at = "create_seed" /\ at' = "stop_agent" /\ CreationFails("seed") /\ UNCHANGED prepared
    \/ /\ at = "remove_seed" /\ at' = "stop_agent" /\ RemovalFails("seed") /\ UNCHANGED prepared
    \/ /\ at = "create_agent" /\ at' = "remove_agent" /\ CreationFails("agent") /\ UNCHANGED prepared
    \/ /\ at \in {"remove_agent", "close"} /\ at' = "stop_agent" /\ prepared' = FALSE
       /\ RemovalFails("agent")

InterruptWork ==
    /\ \/ at \in {"loading", "inspect", "normalize", "agent", "patch", "harness"} /\ at' = "stop_agent"
       \/ at = "copy" /\ at' = "remove_seed"
       \/ at = "start_agent" /\ at' = "remove_agent"
    /\ UNCHANGED <<docker, prepared>>

InterruptStop ==
    /\ run # "none"
    /\ \/ at \in {"stop_agent", "cancelling"} /\ at' = "stop_consumer" /\ Recorded("agent_run.cancel")
       \/ at \in {"stop_consumer", "stop_consumer_again"} /\ at' = "stop_session" /\ Recorded("agent_run.consumer")
    /\ UNCHANGED <<docker, prepared>>

InterruptClose ==
    /\ at = "final_close" /\ at' = "returned" /\ prepared' = FALSE
    /\ RemovalFails("agent") /\ Recorded("workspace.close")

(* The first interrupt cancels the evaluator. The second is a                *)
(* KeyboardInterrupt out of the event loop, upon which asyncio.run cancels   *)
(* the evaluator with every other task.                                      *)
Interrupt ==
    /\ ~teardown /\ Interrupted /\ teardown' = (interrupts # 0)
    /\ \/ (InterruptDocker \/ InterruptWork) /\ why' = "cancelled" /\ UNCHANGED recorded
       \/ (InterruptStop \/ InterruptClose) /\ UNCHANGED why
    /\ IF interrupts > 0 \/ at \in {"stop_agent", "cancelling", "stop_consumer"}
       THEN ConsumerCancelled ELSE UNCHANGED consumer
    /\ UNCHANGED <<stage, manifest, outcome, run, session, official>>

(* What a step of stop_agent or of the finally clauses does may be done or   *)
(* not when a KeyboardInterrupt ends it.                                     *)
Maybe(operation) == recorded' \in {recorded, recorded \cup {operation}}

AbortRemoval ==
    /\ \/ at = "remove_seed" /\ RemovalFails("seed") /\ UNCHANGED prepared
       \/ at \in {"remove_agent", "final_close"} /\ RemovalFails("agent") /\ prepared' = FALSE
    /\ UNCHANGED <<agent, recorded>>

AbortStop ==
    /\ \/ /\ at \in Stops \ {"stop_session"} /\ run # "none"
          /\ Maybe(IF at \in {"stop_agent", "cancelling"} THEN "agent_run.cancel" ELSE "agent_run.consumer")
          /\ UNCHANGED consumer \/ ConsumerCancelled
          /\ UNCHANGED session
       \/ /\ at = "stop_session"
          /\ \/ UNCHANGED <<session, recorded>>
             \/ session = "open" /\ session' = "closed" /\ UNCHANGED recorded
             \/ session = "open" /\ UNCHANGED session /\ recorded' = recorded \cup {"kernel.close_session"}
          /\ UNCHANGED consumer
    /\ UNCHANGED <<run, docker, prepared>>

(* A later interrupt may meet the evaluator between two awaits: no except    *)
(* clause of it catches KeyboardInterrupt. Only the finally clause runs, and *)
(* in the teardown the program ends without waiting for anything more.       *)
Abort ==
    /\ interrupts > 0 /\ Interrupted /\ UNCHANGED teardown
    /\ why' = "aborted"
    /\ AbortRemoval \/ AbortStop
    /\ IF teardown /\ ~prepared'
       THEN at' = "killed" /\ Interruption
       ELSE /\ at' = IF prepared' THEN "final_close" ELSE "returned"
            /\ manifest' \in {manifest} \cup
                 (IF at = "stop_session" THEN {[status |-> why, completed |-> TRUE]} ELSE {})
            /\ UNCHANGED outcome
    /\ UNCHANGED <<stage, official>>

(* An interrupt in the teardown ends the program with the evaluator where it *)
(* stands.                                                                   *)
Kill ==
    /\ teardown /\ ~Over /\ Interrupted /\ UNCHANGED teardown
    /\ at' = "killed" /\ Interruption
    /\ UNCHANGED <<stage, why, prepared, docker, agent, recorded, official>>

-----------------------------------------------------------------------------
Preparing ==
    \/ LoadInstance \/ InspectImage \/ CreateSeed \/ CopySeed \/ RemoveSeed
    \/ Normalize \/ CreateAgent \/ StartAgent \/ RemoveAgent \/ Compose
Judging == AgentReturns \/ AgentTimesOut \/ CollectPatch \/ CloseBeforeHarness \/ Harness
Stopping ==
    \/ StopAgent \/ CancelReturns \/ CancelFails \/ ConsumerStopped \/ ConsumerOverdue
    \/ ConsumerGivenUp \/ StopSession \/ FinalClose

Evaluate == Preparing \/ Judging \/ Stopping

Next == Evaluate \/ RunEnds \/ ConsumerEnds \/ Exit \/ ExitCancels \/ Interrupt \/ Abort \/ Kill

(* Every command and every wait of the evaluator has a timeout, but the load *)
(* of the dataset in a thread: from there on the evaluator goes on. Nothing  *)
(* is assumed of the agent or of the consumer.                               *)
Spec == Init /\ [][Next]_vars /\ WF_vars(at # "loading" /\ Evaluate)

-----------------------------------------------------------------------------
(* Properties *)

(* A patch is taken, and judged, only of a workspace whose agent has settled *)
(* and whose Session is closed, and passes only if the report and the        *)
(* summary of the Harness both say that the instance is resolved.            *)
JudgedAtRest ==
    /\ at \in {"patch", "close", "harness"} => run = "settled" /\ consumer = "done" /\ session = "closed"
    /\ manifest.status = "success" =>
         /\ run = "settled" /\ ~prepared
         /\ official.report = "resolved" /\ {"submitted", "completed", "resolved"} \subseteq official.listed

(* When the program has ended, its manifest is completed and names the       *)
(* outcome the program returned, whatever was interrupted and whichever      *)
(* cleanup failed after the outcome was known.                               *)
ExitTellsManifest == at \in {"exited", "killed"} => manifest.completed /\ manifest.status = outcome

(* Wherever an evaluation fails or is interrupted, a container is left only  *)
(* if a docker create or rm failed or was itself interrupted, or if an       *)
(* interrupt in the teardown came before the prepared workspace was closed.  *)
LeftoverExplained == Over => (containers = {} \/ troubled \/ (at = "killed" /\ prepared))

(* What an evaluation that returned has not released is on record: a run     *)
(* that is active although it was to stop, a Session that was not closed.    *)
(* An abort leaves only what the finally clause does: the workspace is       *)
(* closed.                                                                   *)
ReleasedOrRecorded ==
    at \in {"returned", "exited"} =>
        /\ ~prepared
        /\ why = "aborted" \/ (run = "active" => recorded \cap {"agent_run.cancel", "agent_run.consumer"} # {})
        /\ why = "aborted" \/ (session = "open" => "kernel.close_session" \in recorded)

(* Once the dataset is loaded, an evaluation returns, even if its agent never*)
(* stops, its consumer hangs and every cleanup fails.                        *)
Returns == at # "loading" ~> Over
=============================================================================
