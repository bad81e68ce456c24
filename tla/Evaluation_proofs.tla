-------------------------- MODULE Evaluation_proofs --------------------------
(* Safety of Evaluation for any number of interrupts: one inductive          *)
(* invariant, which says what the evaluator holds at each of its awaits.      *)
EXTENDS Evaluation, TLAPS

-----------------------------------------------------------------------------
(* The inductive invariant *)

Stages == {"instance_loading", "environment_preparation", "agent", "prediction", "harness"}
BeforeRun == {"loading", "inspect", "create_seed", "copy", "remove_seed", "normalize",
              "create_agent", "start_agent", "remove_agent", "compose"}
Judged == {"patch", "close", "harness"}
Ended == {"final_close", "returned", "exited"}

Types ==
    /\ at \in BeforeRun \cup {"agent"} \cup Judged \cup Stops \cup Ended \cup {"killed"}
    /\ stage \in Stages
    /\ prepared \in BOOLEAN
    /\ troubled \in BOOLEAN
    /\ interrupts \in Nat
    /\ teardown \in BOOLEAN
    /\ run \in {"none", "active", "settled", "failed", "cancelled"}

(* The agent exists from "agent" on, and has settled where it is judged.     *)
AgentKnown ==
    /\ at \in BeforeRun => run = "none" /\ consumer = "none" /\ session = "none"
    /\ consumer = "done" => run # "active"
    /\ at \in Judged => run = "settled" /\ consumer = "done" /\ session = "closed"

(* A run that is waited for no more has ended or is on record.               *)
AgentStopped ==
    /\ at \in {"stop_consumer", "stop_consumer_again", "stop_session"} \cup Ended /\ why # "aborted" =>
         (run = "active" => recorded \cap {"agent_run.cancel", "agent_run.consumer"} # {})
    /\ at \in Ended /\ why # "aborted" /\ session = "open" => "kernel.close_session" \in recorded

(* Unless a docker command went wrong, the containers are those in use: an   *)
(* agent container that does not start is in use until it is removed.        *)
InUse == IF at \in {"copy", "remove_seed"} THEN {"seed"}
         ELSE IF at \in {"start_agent", "remove_agent", "compose"} \/ prepared THEN {"agent"} ELSE {}
Containers ==
    /\ at \in BeforeRun \cup {"harness", "returned", "exited"} => ~prepared
    /\ ~troubled => containers = InUse

(* The manifest is written once the end is known, and passes only then.      *)
Told ==
    /\ at \in Ended /\ why # "aborted" => manifest.completed /\ manifest.status = outcome
    /\ at \in {"exited", "killed"} => manifest.completed /\ manifest.status = outcome
    /\ why # "success"
    /\ manifest.status = "success" =>
         /\ at \in {"returned", "exited"} /\ run = "settled" /\ why # "aborted"
         /\ official.report = "resolved" /\ {"submitted", "completed", "resolved"} \subseteq official.listed

(* Once interrupted the evaluator only cleans up; in the teardown its         *)
(* containers are dealt with but for the workspace; an abort leaves nothing   *)
(* to do but the finally clause.                                              *)
CleansUp ==
    /\ interrupts > 0 => at \in Stops \cup Ended \cup {"killed", "remove_seed", "remove_agent"}
    /\ interrupts > 0 /\ at \in {"remove_seed", "remove_agent"} => why # "none"
    /\ teardown => interrupts > 0 /\ at \in Stops \cup Ended \cup {"killed"}
    /\ why = "aborted" => at \in Ended \cup {"killed"}

EvaluationInv == Types /\ AgentKnown /\ AgentStopped /\ Containers /\ Told /\ CleansUp

-----------------------------------------------------------------------------
(* The invariant is inductive *)

LEMMA InitInv == Init => EvaluationInv
  <1> SUFFICES ASSUME Init PROVE EvaluationInv OBVIOUS
  <1> USE DEF Init, Running, Stages, BeforeRun, Judged, Stops, Ended
  <1>1. Types BY DEF Types
  <1>2. AgentKnown BY DEF AgentKnown
  <1>3. AgentStopped BY DEF AgentStopped
  <1>4. Containers BY DEF Containers, InUse
  <1>5. Told BY DEF Told
  <1>6. CleansUp BY DEF CleansUp
  <1> QED BY <1>1, <1>2, <1>3, <1>4, <1>5, <1>6 DEF EvaluationInv

(* While the evaluator prepares nothing of the agent exists; what it creates is*)
(* in use at the next await, or a docker command went wrong.                  *)
LEMMA PreparingInv ==
  ASSUME EvaluationInv, Preparing PROVE EvaluationInv'
  <1> USE DEF EvaluationInv, Types, AgentKnown, AgentStopped, Containers, InUse, Told, CleansUp,
              Stages, BeforeRun, Judged, Stops, Ended, docker, agent, record, user
  <1>1. CASE LoadInstance
    BY <1>1 DEF LoadInstance, Enter, Go, Raise, Classified, Finish
  <1>2. CASE InspectImage
    BY <1>2 DEF InspectImage, Go, Raise, Classified
  <1>3. CASE CreateSeed
    BY <1>3 DEF CreateSeed, Created, CreationFails, Go, Raise, Classified
  <1>4. CASE CopySeed
    BY <1>4 DEF CopySeed, Classified
  <1>5. CASE RemoveSeed
    BY <1>5 DEF RemoveSeed, Remove, RemovalFails, Go, Raise, Classified
  <1>6. CASE Normalize
    BY <1>6 DEF Normalize, Go, Raise, Classified
  <1>7. CASE CreateAgent
    BY <1>7 DEF CreateAgent, Created, CreationFails, Go, Classified
  <1>8. CASE RemoveAgent
    BY <1>8 DEF RemoveAgent, Remove, RemovalFails, Go, Raise, Classified
  <1>9. CASE Compose
    BY <1>9 DEF Compose, Enter, Go, Raise, Classified
  <1>10. CASE StartAgent
    BY <1>10 DEF StartAgent, Go, Classified
  <1> QED BY <1>1, <1>2, <1>3, <1>4, <1>5, <1>6, <1>7, <1>8, <1>9, <1>10 DEF Preparing

(* The patch is taken only after a settled run and a closed Session, and the  *)
(* workspace is given up before the Harness starts.                           *)
LEMMA JudgingInv ==
  ASSUME EvaluationInv, Judging PROVE EvaluationInv'
  <1> USE DEF EvaluationInv, Types, AgentKnown, AgentStopped, Containers, InUse, Told, CleansUp,
              Stages, BeforeRun, Judged, Stops, Ended, docker, agent, record, user
  <1>1. CASE AgentReturns
    <2>1. Types'
      BY <1>1 DEF AgentReturns, Enter, Go, Raise, Classified, Finish
    <2>2. AgentKnown'
      BY <1>1 DEF AgentReturns, Enter, Go, Raise, Classified, Finish
    <2>3. AgentStopped'
      BY <1>1 DEF AgentReturns, Enter, Go, Raise, Classified, Finish
    <2>4. Containers'
      BY <1>1 DEF AgentReturns, Enter, Go, Raise, Classified, Finish
    <2>5. Told'
      BY <1>1 DEF AgentReturns, Enter, Go, Raise, Classified, Finish
    <2>6. CleansUp'
      BY <1>1 DEF AgentReturns, Enter, Go, Raise, Classified, Finish
    <2> QED BY <2>1, <2>2, <2>3, <2>4, <2>5, <2>6
  <1>2. CASE AgentTimesOut
    BY <1>2 DEF AgentTimesOut, ConsumerEnded
  <1>3. CASE CollectPatch
    BY <1>3 DEF CollectPatch, Go, Raise, Classified, Finish
  <1>4. CASE CloseBeforeHarness
    <2>1. Types'
      BY <1>4 DEF CloseBeforeHarness, Remove, RemovalFails, Recorded, Enter, Go, Finish
    <2>2. AgentKnown'
      BY <1>4 DEF CloseBeforeHarness, Remove, RemovalFails, Recorded, Enter, Go, Finish
    <2>3. AgentStopped'
      BY <1>4 DEF CloseBeforeHarness, Remove, RemovalFails, Recorded, Enter, Go, Finish
    <2>4. Containers'
      BY <1>4 DEF CloseBeforeHarness, Remove, RemovalFails, Recorded, Enter, Go, Finish
    <2>5. Told'
      BY <1>4 DEF CloseBeforeHarness, Remove, RemovalFails, Recorded, Enter, Go, Finish
    <2>6. CleansUp'
      BY <1>4 DEF CloseBeforeHarness, Remove, RemovalFails, Recorded, Enter, Go, Finish
    <2> QED BY <2>1, <2>2, <2>3, <2>4, <2>5, <2>6
  <1>5. CASE Harness
    BY <1>5 DEF Harness, Raise, Classified, Left, Lists, Verdict, Finish
  <1> QED BY <1>1, <1>2, <1>3, <1>4, <1>5 DEF Judging

(* stop_agent leaves an await behind only with an ended task or a record.     *)
LEMMA StoppingInv ==
  ASSUME EvaluationInv, Stopping PROVE EvaluationInv'
  <1> USE DEF EvaluationInv, Types, AgentKnown, AgentStopped, Containers, InUse, Told, CleansUp,
              Stages, BeforeRun, Judged, Stops, Ended, docker, agent, record, user
  <1>1. CASE StopAgent
    BY <1>1 DEF StopAgent, Go
  <1>2. CASE CancelReturns
    BY <1>2 DEF CancelReturns, Go
  <1>3. CASE CancelFails
    BY <1>3 DEF CancelFails, Go, Recorded
  <1>4. CASE ConsumerStopped
    BY <1>4 DEF ConsumerStopped, Go
  <1>5. CASE ConsumerOverdue
    BY <1>5 DEF ConsumerOverdue, Go, Recorded
  <1>6. CASE ConsumerGivenUp
    BY <1>6 DEF ConsumerGivenUp, Go
  <1>7. CASE StopSession
    <2>1. Types'
      BY <1>7 DEF StopSession, Finish
    <2>2. AgentKnown'
      BY <1>7 DEF StopSession, Finish
    <2>3. AgentStopped'
      BY <1>7 DEF StopSession, Finish
    <2>4. Containers'
      BY <1>7 DEF StopSession, Finish
    <2>5. Told'
      BY <1>7 DEF StopSession, Finish
    <2>6. CleansUp'
      BY <1>7 DEF StopSession, Finish
    <2> QED BY <2>1, <2>2, <2>3, <2>4, <2>5, <2>6
  <1>8. CASE FinalClose
    <2>1. Types'
      BY <1>8 DEF FinalClose, Remove, RemovalFails, Recorded, Go
    <2>2. AgentKnown'
      BY <1>8 DEF FinalClose, Remove, RemovalFails, Recorded, Go
    <2>3. AgentStopped'
      BY <1>8 DEF FinalClose, Remove, RemovalFails, Recorded, Go
    <2>4. Containers'
      BY <1>8 DEF FinalClose, Remove, RemovalFails, Recorded, Go
    <2>5. Told'
      BY <1>8 DEF FinalClose, Remove, RemovalFails, Recorded, Go
    <2>6. CleansUp'
      BY <1>8 DEF FinalClose, Remove, RemovalFails, Recorded, Go
    <2> QED BY <2>1, <2>2, <2>3, <2>4, <2>5, <2>6
  <1> QED BY <1>1, <1>2, <1>3, <1>4, <1>5, <1>6, <1>7, <1>8 DEF Stopping

(* The agent and the end of the program.                                      *)
LEMMA SurroundingsInv ==
  ASSUME EvaluationInv, RunEnds \/ ConsumerEnds \/ Exit \/ ExitCancels PROVE EvaluationInv'
  <1> USE DEF EvaluationInv, Types, AgentKnown, AgentStopped, Containers, InUse, Told, CleansUp,
              Stages, BeforeRun, Judged, Stops, Ended, docker, agent, record, user
  <1>1. CASE RunEnds
    BY <1>1 DEF RunEnds
  <1>2. CASE ConsumerEnds
    BY <1>2 DEF ConsumerEnds
  <1>3. CASE Exit
    BY <1>3 DEF Interrupted, Exit, Interruption, Go
  <1>4. CASE ExitCancels
    BY <1>4 DEF ExitCancels, ConsumerCancelled
  <1> QED BY <1>1, <1>2, <1>3, <1>4

(* An interrupt turns an await into one that failed; an abort goes to the end *)
(* past what stop_agent would have recorded.                                  *)
LEMMA InterruptInv ==
  ASSUME EvaluationInv, Interrupt \/ Abort \/ Kill PROVE EvaluationInv'
  <1> USE DEF EvaluationInv, Types, AgentKnown, AgentStopped, Containers, InUse, Told, CleansUp,
              Stages, BeforeRun, Judged, Stops, Ended, docker, agent, record, user
  <1>0. Interrupted => interrupts' \in Nat
    BY DEF Interrupted
  <1>1. CASE Interrupt /\ (InterruptDocker \/ InterruptWork) /\ why' = "cancelled"
    <2>1. Types'
      BY <1>0, <1>1 DEF Interrupt, ConsumerCancelled, InterruptDocker, InterruptWork, CreationFails,
         RemovalFails
    <2>2. AgentKnown'
      BY <1>1 DEF Interrupted, Interrupt, ConsumerCancelled, InterruptDocker, InterruptWork, CreationFails,
         RemovalFails
    <2>3. AgentStopped'
      BY <1>1 DEF Interrupted, Interrupt, ConsumerCancelled, InterruptDocker, InterruptWork, CreationFails,
         RemovalFails
    <2>4. Containers'
      BY <1>1 DEF Interrupted, Interrupt, ConsumerCancelled, InterruptDocker, InterruptWork, CreationFails,
         RemovalFails
    <2>5. Told'
      BY <1>1 DEF Interrupted, Interrupt, ConsumerCancelled, InterruptDocker, InterruptWork, CreationFails,
         RemovalFails
    <2>6. CleansUp'
      BY <1>1 DEF Interrupted, Interrupt, ConsumerCancelled, InterruptDocker, InterruptWork, CreationFails,
         RemovalFails
    <2> QED BY <2>1, <2>2, <2>3, <2>4, <2>5, <2>6
  <1>2. CASE Interrupt /\ (InterruptStop \/ InterruptClose) /\ UNCHANGED why
    <2>1. Types'
      BY <1>0, <1>2 DEF Interrupt, ConsumerCancelled, InterruptStop, InterruptClose, RemovalFails,
         Recorded
    <2>2. AgentKnown'
      BY <1>2 DEF Interrupted, Interrupt, ConsumerCancelled, InterruptStop, InterruptClose, RemovalFails,
         Recorded
    <2>3. AgentStopped'
      BY <1>2 DEF Interrupted, Interrupt, ConsumerCancelled, InterruptStop, InterruptClose, RemovalFails,
         Recorded
    <2>4. Containers'
      BY <1>2 DEF Interrupted, Interrupt, ConsumerCancelled, InterruptStop, InterruptClose, RemovalFails,
         Recorded
    <2>5. Told'
      BY <1>2 DEF Interrupted, Interrupt, ConsumerCancelled, InterruptStop, InterruptClose, RemovalFails,
         Recorded
    <2>6. CleansUp'
      BY <1>2 DEF Interrupted, Interrupt, ConsumerCancelled, InterruptStop, InterruptClose, RemovalFails,
         Recorded
    <2> QED BY <2>1, <2>2, <2>3, <2>4, <2>5, <2>6
  <1>3. CASE Abort /\ AbortRemoval
    <2>1. Types'
      BY <1>0, <1>3 DEF Abort, AbortRemoval, Interruption, RemovalFails
    <2>2. AgentKnown'
      BY <1>3 DEF Interrupted, Abort, AbortRemoval, Interruption, RemovalFails
    <2>3. AgentStopped'
      BY <1>3 DEF Interrupted, Abort, AbortRemoval, Interruption, RemovalFails
    <2>4. Containers'
      BY <1>3 DEF Interrupted, Abort, AbortRemoval, Interruption, RemovalFails
    <2>5. Told'
      BY <1>3 DEF Interrupted, Abort, AbortRemoval, Interruption, RemovalFails
    <2>6. CleansUp'
      BY <1>3 DEF Interrupted, Abort, AbortRemoval, Interruption, RemovalFails
    <2> QED BY <2>1, <2>2, <2>3, <2>4, <2>5, <2>6
  <1>4. CASE Abort /\ AbortStop
    <2>1. Types'
      BY <1>0, <1>4 DEF Abort, AbortStop, Interruption, ConsumerCancelled, Maybe
    <2>2. AgentKnown'
      BY <1>4 DEF Interrupted, Abort, AbortStop, Interruption, ConsumerCancelled, Maybe
    <2>3. AgentStopped'
      BY <1>4 DEF Interrupted, Abort, AbortStop, Interruption, ConsumerCancelled, Maybe
    <2>4. Containers'
      BY <1>4 DEF Interrupted, Abort, AbortStop, Interruption, ConsumerCancelled, Maybe
    <2>5. Told'
      BY <1>4 DEF Interrupted, Abort, AbortStop, Interruption, ConsumerCancelled, Maybe
    <2>6. CleansUp'
      BY <1>4 DEF Interrupted, Abort, AbortStop, Interruption, ConsumerCancelled, Maybe
    <2> QED BY <2>1, <2>2, <2>3, <2>4, <2>5, <2>6
  <1>5. CASE Kill
    BY <1>5 DEF Interrupted, Kill, Over, Interruption
  <1> QED BY <1>1, <1>2, <1>3, <1>4, <1>5 DEF Interrupt, Abort

(* Every reachable state satisfies the invariant.                             *)
THEOREM EvaluationInvariant == Spec => []EvaluationInv
  <1>1. Init => EvaluationInv
    BY InitInv
  <1>2. EvaluationInv /\ [Next]_vars => EvaluationInv'
    <2> SUFFICES ASSUME EvaluationInv, [Next]_vars PROVE EvaluationInv' OBVIOUS
    <2>1. CASE Next
      BY <2>1, PreparingInv, JudgingInv, StoppingInv, SurroundingsInv, InterruptInv DEF Next, Evaluate
    <2>2. CASE UNCHANGED vars
      BY <2>2 DEF vars, EvaluationInv, Types, AgentKnown, AgentStopped, Containers, InUse, Told, CleansUp
    <2> QED BY <2>1, <2>2
  <1> QED BY <1>1, <1>2, PTL DEF Spec

-----------------------------------------------------------------------------
(* What follows from it *)

(* AgentReturns is the one way to a patch, and it asks for a settled run; the *)
(* only status that says success is the one Verdict gives.                    *)
THEOREM OnlySettledWorkIsJudged == Spec => []JudgedAtRest
  <1>1. EvaluationInv => JudgedAtRest
    BY DEF EvaluationInv, AgentKnown, Containers, Told, BeforeRun, Judged, JudgedAtRest
  <1> QED BY <1>1, EvaluationInvariant, PTL

(* finalize and finalize_interruption leave the manifest with the outcome the *)
(* program returns.                                                           *)
THEOREM ManifestTellsOutcome == Spec => []ExitTellsManifest
  <1>1. EvaluationInv => ExitTellsManifest
    BY DEF EvaluationInv, Told, Ended, ExitTellsManifest
  <1> QED BY <1>1, EvaluationInvariant, PTL

(* prepare, collect_patch and the finally clauses remove what they created,   *)
(* unless a docker command failed or an interrupt ended the teardown itself.  *)
THEOREM LeftoversAreExplained == Spec => []LeftoverExplained
  <1>1. EvaluationInv => LeftoverExplained
    BY DEF EvaluationInv, Types, Containers, InUse, BeforeRun, LeftoverExplained, Over
  <1> QED BY <1>1, EvaluationInvariant, PTL

(* stop_agent and close_workspace release the run, the Session and the        *)
(* workspace, or leave a record of what they could not.                       *)
THEOREM NothingIsLeftUnrecorded == Spec => []ReleasedOrRecorded
  <1>1. EvaluationInv => ReleasedOrRecorded
    BY DEF EvaluationInv, AgentStopped, Containers, BeforeRun, Ended, ReleasedOrRecorded, Over
  <1> QED BY <1>1, EvaluationInvariant, PTL
=============================================================================
