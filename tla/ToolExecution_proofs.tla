------------------------ MODULE ToolExecution_proofs ------------------------
(* What holds of a batch of any length, with and without interference: plan  *)
(* mode, containment, the truth of the results, what is left behind, and the *)
(* decisions about it all.                                                   *)
EXTENDS ToolExecution, TLAPS

-----------------------------------------------------------------------------
(* The inductive invariant *)

Active == {"started", "read", "inside", "outside", "running"}
Writes(i) == calls[i].tool \in {"write", "edit"}

Types ==
    /\ mode \in Modes
    /\ DOMAIN calls \subseteq Nat \ {0}
    /\ \A i \in DOMAIN calls :
          /\ calls[i].tool \in FileTools \cup {"bash", "custom", "invalid"}
          /\ calls[i].tool \in FileTools => calls[i].on \in Places \cup {"link", "home"}
    /\ step \in [DOMAIN calls -> {"undecided", "waiting", "ended"} \cup Active]
    /\ result \in [DOMAIN calls -> {"none", "success", "error", "cancelled"}]
    /\ did \in [DOMAIN calls -> {"none", "link"} \cup Places]
    /\ decision = [i \in DOMAIN calls |-> decision[i]]
    /\ temporary \subseteq DOMAIN calls /\ process \subseteq DOMAIN calls
    /\ link \in Places \cup {"loop"}

(* How far a call may have come, by its tool and by the stage.               *)
Progress ==
    \A i \in DOMAIN calls :
        /\ step[i] = "read" => calls[i].tool \in {"read", "edit"}
        /\ step[i] \in Places => Writes(i)
        /\ step[i] = "running" => calls[i].tool = "bash"
        /\ i \in process => step[i] = "running"
        /\ i \in temporary => step[i] \in Places \/ (step[i] = "ended" /\ result[i] = "error")
        /\ step[i] # "ended" => result[i] = "none"
        /\ stage = "deciding" => step[i] \notin Active /\ did[i] = "none"
        /\ step[i] \in Active \/ did[i] # "none" => decision[i].mode # "none"
        /\ Over => step[i] = "ended"

(* A write changes its file as it succeeds, and only in its place.           *)
Effects ==
    \A i \in DOMAIN calls :
        /\ Writes(i) => (did[i] # "none" <=> step[i] = "ended" /\ result[i] = "success")
        /\ step[i] = "outside" \/ did[i] = "outside" => mode = "full"

(* In plan mode nothing begins but reads.                                    *)
Planned ==
    mode = "plan" =>
        \A i \in DOMAIN calls : did[i] = "none" /\ (step[i] \in Active => calls[i].tool = "read")

(* In a sequential batch a call begins when those before it have ended.      *)
OneByOne ==
    Sequential =>
        \A i, j \in DOMAIN calls : i < j /\ step[j] \in Active => step[i] = "ended"

(* A decision binds the call and its intent; a write under way is the one it *)
(* is about as long as nobody else moves the link.                           *)
Decided(i) == decision[i].mode = "none" \/ decision[i].binding = <<calls[i], decision[i].intent>>
Authorised(i, target) == decision[i].approved /\ decision[i].intent.target = target
Bound ==
    \A i \in DOMAIN calls :
        /\ Decided(i)
        /\ ~relinked /\ Writes(i) /\ calls[i].on # "home" =>
             /\ step[i] \in Active => Authorised(i, Target(calls[i]))
             /\ step[i] \in Places => Authorised(i, step[i])
             /\ did[i] # "none" => Authorised(i, did[i])

ToolInv == Types /\ Progress /\ Effects /\ Planned /\ OneByOne /\ Bound /\ DecisionsReplay

-----------------------------------------------------------------------------
(* The policy *)

Deciders == FileTools \cup {"bash", "custom"}
Kinds == {"read", "write", "shell", "network", "unknown", "custom"}
Scopes == {"workspace", "outside", "unknown"}

(* What _intent makes of a call, as far as its tool tells.                   *)
LEMMA IntentFacts ==
  ASSUME NEW call, call.tool \in Deciders
  PROVE  /\ Intent(call).kind \in Kinds /\ Intent(call).scope \in Scopes
         /\ call.tool = "read" => Intent(call).kind = "read"
         /\ call.tool \in {"write", "edit"} => Intent(call).kind = "write"
         /\ call.tool \in FileTools => Intent(call).scope # "unknown" /\ Intent(call).target = Target(call)
         /\ call.tool = "bash" => Intent(call).kind \in {"shell", "network", "unknown"}
         /\ call.tool = "custom" => Intent(call).kind = "custom" /\ Intent(call).scope = "unknown"
  <1> USE DEF Deciders, FileTools, Kinds, Scopes
  <1>1. CASE call.tool \in FileTools
    BY <1>1 DEF Intent
  <1>2. CASE call.tool = "bash"
    BY <1>2 DEF Intent
  <1>3. CASE call.tool = "custom"
    BY <1>3 DEF Intent
  <1> QED BY <1>1, <1>2, <1>3

(* The canonical actions are never empty, and those of an environment that   *)
(* guarantees nothing are among those a replay accepts.                      *)
LEMMA ActionsFacts ==
  ASSUME NEW m \in Modes, NEW kind \in Kinds, NEW scope \in Scopes
  PROVE  /\ Actions(m, kind, scope, "no") # {}
         /\ Actions(m, kind, scope, "no") \subseteq {"allow", "ask", "deny"}
         /\ Actions(m, kind, scope, "no") \subseteq Actions(m, kind, scope, "either")
         /\ m = "plan" /\ kind # "read" => Actions(m, kind, scope, "no") = {"deny"}
  <1> USE DEF Modes, Kinds, Scopes
  <1>1. CASE m = "full"
    BY <1>1 DEF Actions
  <1>2. CASE m = "plan"
    BY <1>2 DEF Actions
  <1>3. CASE m = "ask"
    BY <1>3 DEF Actions
  <1>4. CASE m = "auto"
    BY <1>4 DEF Actions
  <1> QED BY <1>1, <1>2, <1>3, <1>4

(* evaluate takes one of them.                                               *)
LEMMA ActionFacts ==
  ASSUME mode \in Modes, NEW call, call.tool \in Deciders
  PROVE  /\ Action(call) \in Actions(mode, Intent(call).kind, Intent(call).scope, "no")
         /\ Action(call) \in {"allow", "ask", "deny"}
         /\ mode = "plan" /\ call.tool # "read" => Action(call) = "deny"
  <1> DEFINE intent == Intent(call)
             canonical == Actions(mode, intent.kind, intent.scope, "no")
  <1>1. intent.kind \in Kinds /\ intent.scope \in Scopes
    BY IntentFacts
  <1>2. /\ canonical # {} /\ canonical \subseteq {"allow", "ask", "deny"}
        /\ mode = "plan" /\ intent.kind # "read" => canonical = {"deny"}
    BY <1>1, ActionsFacts
  <1>3. call.tool # "read" => intent.kind # "read"
    BY IntentFacts DEF Deciders, FileTools
  <1>4. Action(call) = CHOOSE action \in canonical : TRUE
    BY DEF Action
  <1> HIDE DEF intent, canonical
  <1>5. Action(call) \in canonical
    BY <1>2, <1>4
  <1>6. Action(call) \in {"allow", "ask", "deny"} /\ (mode = "plan" /\ call.tool # "read" => Action(call) = "deny")
    BY <1>2, <1>3, <1>5
  <1> QED BY <1>5, <1>6 DEF intent, canonical

(* What make_permission_decision and make_permission_request_decision record *)
(* is what validate_permission_decision_record accepts.                      *)
LEMMA DecisionValid ==
  ASSUME mode \in Modes, NEW call, call.tool \in Deciders, NEW approved \in BOOLEAN, NEW source,
         \/ source = "host" /\ Action(call) = "ask"
         \/ source = "policy" /\ Action(call) # "ask" /\ approved = (Action(call) = "allow")
  PROVE  ValidRecord(Decision(call, approved, source))
  <1> DEFINE record == Decision(call, approved, source)
  <1>1. /\ record.mode = mode /\ record.tool = call.tool /\ record.approved = approved
        /\ record.source = source /\ record.intent = Intent(call)
    BY DEF Decision
  <1>2. Action(call) \in Actions(mode, Intent(call).kind, Intent(call).scope, "either")
    BY ActionFacts, IntentFacts, ActionsFacts
  <1>3. Action(call) = IF source = "host" THEN "ask" ELSE IF approved THEN "allow" ELSE "deny"
    <2>1. CASE source = "host"
      BY <2>1
    <2>2. CASE source = "policy" /\ approved
      BY <2>2
    <2>3. CASE source = "policy" /\ ~approved
      BY <2>3, ActionFacts
    <2> QED BY <2>1, <2>2, <2>3
  <1>4. /\ call.tool = "read" => Intent(call).kind = "read"
        /\ call.tool \in {"write", "edit"} => Intent(call).kind = "write"
        /\ call.tool \in FileTools => Intent(call).scope # "unknown"
        /\ call.tool = "bash" => Intent(call).kind \in {"shell", "network", "unknown"}
        /\ call.tool = "custom" => Intent(call).kind = "custom" /\ Intent(call).scope = "unknown"
    BY IntentFacts
  <1> HIDE DEF record
  <1>5. ValidRecord(record)
    BY <1>1, <1>2, <1>3, <1>4 DEF ValidRecord
  <1> QED BY <1>5 DEF record

-----------------------------------------------------------------------------
(* The invariant is inductive *)

LEMMA InitInv == Init => ToolInv
  <1> SUFFICES ASSUME Init PROVE ToolInv OBVIOUS
  <1>1. /\ DOMAIN calls \subseteq Nat \ {0} /\ mode \in Modes
        /\ \A i \in DOMAIN calls : calls[i] \in Calls
    BY ExecutionAssumption DEF Init, Batches
  <1>2. \A i \in DOMAIN calls :
          /\ calls[i].tool \in FileTools \cup {"bash", "custom", "invalid"}
          /\ calls[i].tool \in FileTools => calls[i].on \in Places \cup {"link", "home"}
    BY <1>1 DEF Calls, FileTools
  <1>3. Types
    BY <1>1, <1>2 DEF Init, Types, Places
  <1>4. Progress /\ Effects /\ Planned /\ OneByOne
    BY DEF Init, Progress, Effects, Planned, OneByOne, Active, Writes, Places, Over
  <1>5. Bound /\ DecisionsReplay
    BY DEF Init, Bound, Decided, NoDecision, DecisionsReplay, Active, Places
  <1> QED BY <1>3, <1>4, <1>5 DEF ToolInv

(* Nothing runs while decisions are taken; a decision binds the call as it is. *)
LEMMA EvaluatePermissionStep ==
  ASSUME ToolInv, NEW i \in DOMAIN calls, EvaluatePermission(i)
  PROVE  ToolInv'
  <1> USE DEF ToolInv, world, Active, Writes, Over, Places, FileTools, Modes
  <1>1. Types'
    BY DEF EvaluatePermission, Types, Decide
  <1>2. Progress'
    BY DEF EvaluatePermission, Types, Progress, Decide
  <1>3. Effects'
    BY DEF EvaluatePermission, Types, Progress, Effects, Decide
  <1>4. Planned'
    BY DEF EvaluatePermission, Types, Progress, Planned, Decide
  <1>5. OneByOne'
    BY DEF EvaluatePermission, Types, Progress, OneByOne, Sequential, Decide
  <1>6. UNCHANGED <<mode, calls, stage, link, did, relinked>> /\ stage = "deciding" /\ step[i] = "undecided"
    BY DEF EvaluatePermission
  <1>7. \/ UNCHANGED decision
        \/ \E approved \in BOOLEAN, source \in {"host", "policy"} :
              /\ decision' = [decision EXCEPT ![i] = Decision(calls[i], approved, source)]
              /\ \/ source = "host" /\ Action(calls[i]) = "ask"
                 \/ source = "policy" /\ Action(calls[i]) # "ask" /\ approved = (Action(calls[i]) = "allow")
              /\ calls[i].tool # "invalid"
    BY DEF EvaluatePermission, Decide
  <1>8. CASE UNCHANGED decision
    <2>1. Bound'
      BY <1>1, <1>2, <1>3, <1>6, <1>8 DEF Types, Progress, Effects, Bound, Decided, Authorised, Target
    <2>2. DecisionsReplay'
      BY <1>6, <1>8 DEF DecisionsReplay
    <2> QED BY <1>1, <1>2, <1>3, <1>4, <1>5, <2>1, <2>2
  <1>9. CASE ~UNCHANGED decision
    <2>1. PICK approved \in BOOLEAN, source \in {"host", "policy"} :
            /\ decision' = [decision EXCEPT ![i] = Decision(calls[i], approved, source)]
            /\ \/ source = "host" /\ Action(calls[i]) = "ask"
               \/ source = "policy" /\ Action(calls[i]) # "ask" /\ approved = (Action(calls[i]) = "allow")
            /\ calls[i].tool # "invalid"
      BY <1>7, <1>9
    <2>2. calls[i].tool \in Deciders
      BY <2>1 DEF Types, Deciders
    <2>3. /\ decision'[i] = Decision(calls[i], approved, source)
          /\ \A j \in DOMAIN calls \ {i} : decision'[j] = decision[j]
      BY <2>1 DEF Types
    <2>4. ValidRecord(decision'[i])
      BY <2>1, <2>2, <2>3, DecisionValid DEF Types
    <2>5. DecisionsReplay'
      BY <1>6, <2>3, <2>4 DEF DecisionsReplay
    <2>6. Decided(i)'
      BY <1>6, <2>3 DEF Decided, Decision, Binding
    <2>7. Bound'
      BY <1>2, <1>3, <1>6, <2>3, <2>6 DEF Types, Progress, Effects, Bound, Decided, Authorised, Target
    <2> QED BY <1>1, <1>2, <1>3, <1>4, <1>5, <2>5, <2>7
  <1> QED BY <1>8, <1>9

(* The gate lets only reads begin in plan mode, and a write only if its decision *)
(* is about what its path names now.                                          *)
LEMMA BeginStep ==
  ASSUME ToolInv, NEW i \in DOMAIN calls, Begin(i)
  PROVE  ToolInv'
  <1> USE DEF ToolInv, world, Active, Writes, Over, Places, FileTools, Modes
  <1>1. Types'
    BY DEF Begin, Types, Go, End
  <1>2. Progress'
    <2>1. calls[i].tool # "invalid" /\ Passes(i) => decision[i].mode # "none"
      BY DEF Passes, Types
    <2> QED BY <2>1 DEF Begin, Types, Progress, Go, End
  <1>3. Effects'
    BY DEF Begin, Types, Progress, Effects, Go, End
  <1>4. CASE calls[i].tool = "invalid" \/ ~Passes(i)
    <2>1. Planned'
      BY <1>4 DEF Begin, Types, Progress, Planned, End
    <2>2. OneByOne'
      BY <1>4 DEF Begin, Types, Progress, OneByOne, Sequential, End
    <2>3. Bound'
      BY <1>4 DEF Begin, Types, Progress, Effects, Bound, Decided, Authorised, Target, End
    <2> QED BY <1>1, <1>2, <1>3, <2>1, <2>2, <2>3 DEF Begin, DecisionsReplay
  <1>5. CASE calls[i].tool # "invalid" /\ Passes(i)
    <2>1. calls[i].tool \in Deciders /\ mode \in Modes
      BY <1>5 DEF Types, Deciders
    <2>2. step[i] = "waiting" /\ step' = [step EXCEPT ![i] = "started"] /\ UNCHANGED <<mode, calls, decision, did, link, relinked>>
      BY <1>5 DEF Begin, Go
    <2>3. mode = "plan" => calls[i].tool = "read"
      BY <1>5, <2>1, ActionFacts DEF Passes
    <2>4. Planned'
      BY <2>2, <2>3 DEF Types, Planned
    <2>5. Sequential => \A j \in DOMAIN calls : j < i => step[j] = "ended"
      BY DEF Begin, Types
    <2>6. OneByOne'
      BY <2>2, <2>5 DEF Types, OneByOne, Sequential
    <2>7. decision[i].intent = Intent(calls[i])
      <3>1. decision[i].mode # "none"
        BY <1>5, <2>1 DEF Passes
      <3>2. decision[i].binding = <<calls[i], decision[i].intent>>
        BY <3>1 DEF Bound, Decided
      <3>3. decision[i].binding = <<calls[i], Intent(calls[i])>>
        BY <1>5 DEF Passes, Binding
      <3> QED BY <3>2, <3>3
    <2>8. Writes(i) => Authorised(i, Target(calls[i]))
      BY <1>5, <2>1, <2>7, IntentFacts DEF Passes, Authorised
    <2>9. Bound'
      BY <2>2, <2>8 DEF Types, Progress, Effects, Bound, Decided, Authorised, Target
    <2> QED BY <1>1, <1>2, <1>3, <2>4, <2>6, <2>9 DEF Begin, DecisionsReplay
  <1> QED BY <1>4, <1>5

(* A write resolves its path: outside only in full mode, and where the decision *)
(* says, for the link has not moved since the gate.                           *)
LEMMA PrepareStep ==
  ASSUME ToolInv, NEW i \in DOMAIN calls, Prepare(i)
  PROVE  ToolInv'
  <1> USE DEF ToolInv, world, Active, Writes, Over, Places, FileTools, Modes
  <1>1. Types' /\ Progress' /\ Effects'
    BY DEF Prepare, Types, Progress, Effects, Alive, Cancelled, Go, End, Resolves,
           Place
  <1>2. Bound'
    BY DEF Prepare, Types, Progress, Effects, OneByOne, Bound, Decided, Authorised,
           Target, Alive, Cancelled, Go, End, Resolves, Place
  <1>3. Planned' /\ OneByOne' /\ DecisionsReplay'
    BY DEF Prepare, Types, Progress, Planned, OneByOne, Sequential, DecisionsReplay,
           Alive, Cancelled, Go, End, Resolves, Place
  <1> QED BY <1>1, <1>2, <1>3

(* The file changes in the step that ends the write as a success, or not at all. *)
LEMMA ReplaceStep ==
  ASSUME ToolInv, NEW i \in DOMAIN calls, Replace(i)
  PROVE  ToolInv'
  <1> USE DEF ToolInv, world, Active, Writes, Over, Places, FileTools, Modes
  <1>1. Types' /\ Progress'
    BY DEF Replace, Types, Progress, Alive, Cancelled, End
  <1>2. Effects'
    BY DEF Replace, Types, Progress, Effects, Alive, Cancelled, End
  <1>3. Bound'
    BY DEF Replace, Types, Progress, Effects, OneByOne, Bound, Decided, Authorised,
           Target, Alive, Cancelled, End
  <1>4. Planned' /\ OneByOne' /\ DecisionsReplay'
    BY DEF Replace, Types, Progress, Planned, OneByOne, Sequential, DecisionsReplay,
           Alive, Cancelled, End
  <1> QED BY <1>1, <1>2, <1>3, <1>4

(* A command may move the link, but no write is under way beside it.          *)
LEMMA CommandActsStep ==
  ASSUME ToolInv, NEW i \in DOMAIN calls, CommandActs(i)
  PROVE  ToolInv'
  <1> USE DEF ToolInv, world, Active, Writes, Over, Places, FileTools, Modes
  <1>1. Types' /\ Progress'
    BY DEF CommandActs, Types, Progress, Sequential, Scheduling
  <1>2. Effects' /\ Planned'
    BY DEF CommandActs, Types, Progress, Effects, Planned, Sequential, Scheduling
  <1>3. Bound'
    BY DEF CommandActs, Types, Progress, Effects, OneByOne, Bound, Decided,
           Authorised, Target, Sequential, Scheduling
  <1>4. OneByOne' /\ DecisionsReplay'
    BY DEF CommandActs, Types, Progress, OneByOne, Sequential, DecisionsReplay,
           Scheduling
  <1> QED BY <1>1, <1>2, <1>3, <1>4

(* The steps that move one call on, and those of the batch, the Host and      *)
(* others, which change neither a decision nor, but for the last, the link.   *)
LEMMA CallStep ==
  ASSUME ToolInv, NEW i \in DOMAIN calls,
         \/ Read(i) \/ EndRead(i) \/ WriteTemporary(i) \/ StartCommand(i)
         \/ CommandEnds(i) \/ RunCustom(i) \/ Unwind(i)
  PROVE  ToolInv'
  <1> USE DEF ToolInv, Types, Progress, Effects, Planned, OneByOne, Sequential, Bound, Decided,
              Authorised, Target, DecisionsReplay, world, Active, Writes, Over, Places, FileTools,
              Modes, Alive, Cancelled, Go, End
  <1>1. CASE Read(i)
    BY <1>1 DEF Read, Resolves
  <1>2. CASE EndRead(i)
    BY <1>2 DEF EndRead
  <1>3. CASE WriteTemporary(i)
    BY <1>3 DEF WriteTemporary
  <1>4. CASE StartCommand(i)
    BY <1>4 DEF StartCommand
  <1>5. CASE CommandEnds(i)
    BY <1>5 DEF CommandEnds
  <1>6. CASE RunCustom(i)
    BY <1>6 DEF RunCustom
  <1>7. CASE Unwind(i)
    BY <1>7 DEF Unwind
  <1> QED BY <1>1, <1>2, <1>3, <1>4, <1>5, <1>6, <1>7

LEMMA BatchStep ==
  ASSUME ToolInv, StartBatch \/ EndBatch \/ Cancel \/ OthersWrite \/ OthersRelink \/ UNCHANGED vars
  PROVE  ToolInv'
  <1> USE DEF ToolInv, Types, Progress, Effects, Planned, OneByOne, Sequential, Bound, Decided,
              Authorised, Target, DecisionsReplay, world, Active, Writes, Over, Places, FileTools,
              Modes, Alive, Cancelled
  <1>1. CASE StartBatch
    BY <1>1 DEF StartBatch
  <1>2. CASE EndBatch
    BY <1>2 DEF EndBatch
  <1>3. CASE Cancel
    BY <1>3 DEF Cancel
  <1>4. CASE OthersWrite
    BY <1>4 DEF OthersWrite
  <1>5. CASE OthersRelink
    BY <1>5 DEF OthersRelink
  <1>6. CASE UNCHANGED vars
    BY <1>6 DEF vars
  <1> QED BY <1>1, <1>2, <1>3, <1>4, <1>5, <1>6

(* Every reachable state satisfies the invariant.                             *)
THEOREM ToolInvariant == Spec => []ToolInv
  <1>1. Init => ToolInv
    BY InitInv
  <1>2. ToolInv /\ [Next]_vars => ToolInv'
    BY EvaluatePermissionStep, BeginStep, PrepareStep, ReplaceStep, CommandActsStep, CallStep, BatchStep
       DEF Next
  <1> QED BY <1>1, <1>2, PTL DEF Spec

-----------------------------------------------------------------------------
(* What follows from it *)

(* _canonical_permission_actions denies everything but reads in plan mode,    *)
(* and _permission_gate_error asks again: no file changes, nothing is started.*)
THEOREM PlanModeIsReadOnly == Spec => []PlanChangesNothing
  <1>1. ToolInv => PlanChangesNothing
    BY DEF ToolInv, Types, Progress, Planned, Active, PlanChangesNothing
  <1> QED BY <1>1, ToolInvariant, PTL

(* resolve_path keeps every mode but full inside the workspace.               *)
THEOREM WorkspaceContains == Spec => []Contained
  <1>1. ToolInv => Contained
    BY DEF ToolInv, Effects, Contained
  <1> QED BY <1>1, ToolInvariant, PTL

(* write_text replaces its target in the step after which it only returns.    *)
THEOREM ResultsTellEffects == Spec => []ResultTellsEffect
  <1>1. ToolInv => ResultTellsEffect
    BY DEF ToolInv, Effects, Writes, ResultTellsEffect
  <1> QED BY <1>1, ToolInvariant, PTL

(* The binding of _permission_gate_error, with one call at a time, ties the   *)
(* effect of a write to the decision about it.                                *)
THEOREM EffectsAreAsDecided == Spec => []EffectAsDecided
  <1>1. ToolInv => EffectAsDecided
    BY DEF ToolInv, Bound, Writes, Authorised, EffectAsDecided
  <1> QED BY <1>1, ToolInvariant, PTL

(* _execute_batch waits for its tasks, run_command for its process and        *)
(* write_text removes its file, also when they are cancelled.                 *)
THEOREM BatchCleansUp == Spec => []NothingLeftBehind
  <1>1. ToolInv => NothingLeftBehind
    BY DEF ToolInv, Types, Progress, Places, Over, NothingLeftBehind
  <1> QED BY <1>1, ToolInvariant, PTL

(* What make_permission_decision records, validate_permission_decision_record *)
(* accepts.                                                                   *)
THEOREM DecisionsAreReplayable == Spec => []DecisionsReplay
  <1>1. ToolInv => DecisionsReplay
    BY DEF ToolInv
  <1> QED BY <1>1, ToolInvariant, PTL

-----------------------------------------------------------------------------
(* No edit is lost *)

(* In a sequential batch a call changes a file when those before it have     *)
(* ended; in a parallel one nothing changes a file.                          *)
Ordered ==
    /\ Sequential => \A i, j \in DOMAIN calls : i < j /\ did[j] # "none" => step[i] = "ended"
    /\ ~Sequential => \A i \in DOMAIN calls : did[i] = "none"

(* What an edit has read is still there when it writes.                      *)
Fresh(i) ==
    calls[i].tool = "edit" =>
        /\ step[i] = "read" => Place(calls[i]) # "loop" /\ seen[i] = file[Place(calls[i])]
        /\ step[i] \in Places => seen[i] = file[step[i]]

SerialInv ==
    /\ file = [p \in Places |-> file[p]] /\ seen = [i \in DOMAIN calls |-> seen[i]]
    /\ Ordered
    /\ ~disturbed /\ ~relinked =>
          (\A p \in Places : file[p] = Shows(p)) /\ \A i \in DOMAIN calls : Fresh(i)

(* The last call to change a file: a write replaces what it shows, any other *)
(* call adds to it.                                                          *)
LEMMA LastChange ==
  ASSUME ToolInv, NEW i \in DOMAIN calls, NEW p \in Places, Ordered,
         did[i] = "none", step[i] # "ended", Sequential,
         did' = [did EXCEPT ![i] = p], UNCHANGED calls
  PROVE  /\ Shows(p)' = IF calls[i].tool = "write" THEN {i} ELSE Shows(p) \cup {i}
         /\ \A q \in Places \ {p} : Shows(q)' = Shows(q)
  <1>1. DOMAIN calls \subseteq Nat \ {0} /\ did \in [DOMAIN calls -> {"none", "link"} \cup Places]
    BY DEF ToolInv, Types
  <1>2. \A j \in DOMAIN calls : did[j] # "none" => j < i
    BY <1>1 DEF Ordered
  <1>3. Changes(p)' = Changes(p) \cup {i} /\ \A q \in Places \ {p} : Changes(q)' = Changes(q)
    BY <1>1 DEF Changes, Places
  <1>4. \A q \in Places : \A j \in Changes(q) : j \in Nat \ {0} /\ j < i
    BY <1>1, <1>2 DEF Changes, Places
  <1>5. i \in Nat \ {0}
    BY <1>1
  <1>6. ASSUME NEW q \in Places \ {p} PROVE Shows(q)' = Shows(q)
    BY <1>3 DEF Shows
  <1>7. Shows(p)' = {k \in Changes(p) \cup {i, 0} :
                       ~\E j \in Changes(p) \cup {i} : k < j /\ calls[j].tool = "write"}
    BY <1>3 DEF Shows
  <1>8. /\ \A k \in Changes(p) \cup {0} : k < i
        /\ \A j \in Changes(p) \cup {i} : ~(i < j)
    BY <1>4, <1>5
  <1>9. calls[i].tool = "write" => Shows(p)' = {i}
    BY <1>7, <1>8
  <1>10. calls[i].tool # "write" => Shows(p)' = Shows(p) \cup {i}
    BY <1>7, <1>8 DEF Shows
  <1> QED BY <1>6, <1>9, <1>10

LEMMA SerialInit == Init => SerialInv
  <1> SUFFICES ASSUME Init PROVE SerialInv
    OBVIOUS
  <1>1. \A p \in Places : Changes(p) = {}
    BY DEF Init, Changes, Places
  <1>2. \A p \in Places : Shows(p) = {0}
    BY <1>1 DEF Shows
  <1> QED BY <1>2 DEF Init, SerialInv, Ordered, Fresh, Places

(* Steps that change no file, move no link and read nothing.                 *)
LEMMA QuietStep ==
  ASSUME ToolInv, SerialInv, UNCHANGED <<calls, seen, file, link, did, disturbed, relinked>>,
         UNCHANGED decision \/ stage = "deciding",
         \A i \in DOMAIN calls :
            /\ step[i] = "ended" => step'[i] = "ended"
            /\ step'[i] \in {"read"} \cup Places => step'[i] = step[i]
  PROVE  SerialInv'
  <1>1. Ordered'
    <2>1. CASE UNCHANGED decision
      BY <2>1 DEF SerialInv, Ordered, Sequential
    <2>2. CASE stage = "deciding"
      BY <2>2 DEF ToolInv, Progress, Ordered
    <2> QED BY <2>1, <2>2
  <1>2. \A p \in Places : Shows(p)' = Shows(p)
    BY DEF Shows, Changes
  <1>3. \A i \in DOMAIN calls : Fresh(i) => Fresh(i)'
    BY DEF Fresh, Place
  <1> QED BY <1>1, <1>2, <1>3 DEF SerialInv

LEMMA SerialReadStep ==
  ASSUME ToolInv, SerialInv, NEW i \in DOMAIN calls, Read(i)
  PROVE  SerialInv'
  <1> USE DEF world, Places
  <1>1. UNCHANGED <<calls, decision, file, link, did, disturbed, relinked>>
    BY DEF Read
  <1>2. CASE step' = [step EXCEPT ![i] = "ended"] /\ UNCHANGED seen
    BY <1>1, <1>2, QuietStep DEF ToolInv, Types
  <1>3. CASE /\ Resolves(i) /\ step' = [step EXCEPT ![i] = "read"]
             /\ seen' = [seen EXCEPT ![i] = file[Place(calls[i])]]
    <2>1. step[i] # "ended" /\ \A j \in DOMAIN calls \ {i} : step'[j] = step[j] /\ seen'[j] = seen[j]
      BY <1>3 DEF Read, SerialInv, ToolInv, Types
    <2>2. step'[i] = "read" /\ seen'[i] = file[Place(calls[i])] /\ Place(calls[i])' = Place(calls[i])
      BY <1>1, <1>3 DEF SerialInv, ToolInv, Types, Place
    <2>3. Ordered'
      BY <1>1, <2>1 DEF SerialInv, Ordered, Sequential
    <2>4. \A p \in Places : Shows(p)' = Shows(p)
      BY <1>1 DEF Shows, Changes
    <2>5. Fresh(i)'
      BY <1>1, <1>3, <2>2 DEF Fresh, Resolves
    <2>6. \A j \in DOMAIN calls \ {i} : Fresh(j) => Fresh(j)'
      BY <1>1, <2>1 DEF Fresh, Place
    <2> QED BY <1>1, <1>3, <2>3, <2>4, <2>5, <2>6 DEF SerialInv
  <1> QED BY <1>2, <1>3 DEF Read, Go, End

(* An edit resolves its path again, and finds it where it has read.          *)
LEMMA SerialPrepareStep ==
  ASSUME ToolInv, SerialInv, NEW i \in DOMAIN calls, Prepare(i)
  PROVE  SerialInv'
  <1> USE DEF world, Places
  <1>1. UNCHANGED <<calls, decision, seen, file, link, did, disturbed, relinked>>
    BY DEF Prepare
  <1>2. CASE step' = [step EXCEPT ![i] = "ended"]
    BY <1>1, <1>2, QuietStep DEF ToolInv, Types
  <1>3. CASE step' = [step EXCEPT ![i] = Place(calls[i])]
    <2>1. /\ step[i] # "ended" /\ step'[i] = Place(calls[i])
          /\ \A j \in DOMAIN calls \ {i} : step'[j] = step[j]
      BY <1>3 DEF Prepare, ToolInv, Types
    <2>2. Ordered'
      BY <1>1, <2>1 DEF SerialInv, Ordered, Sequential
    <2>3. \A p \in Places : Shows(p)' = Shows(p)
      BY <1>1 DEF Shows, Changes
    <2>4. calls[i].tool = "edit" => step[i] = "read" /\ Place(calls[i]) # "read"
      BY DEF Prepare, Place, ToolInv, Types, FileTools
    <2>5. Fresh(i) => Fresh(i)'
      BY <1>1, <2>1, <2>4 DEF Fresh
    <2>6. \A j \in DOMAIN calls \ {i} : Fresh(j) => Fresh(j)'
      BY <1>1, <2>1 DEF Fresh, Place
    <2> QED BY <1>1, <2>2, <2>3, <2>5, <2>6 DEF SerialInv
  <1> QED BY <1>2, <1>3 DEF Prepare, Go, End

(* Beside a call that changes a file or the link, no edit is between its     *)
(* read and its write.                                                       *)
LEMMA Alone ==
  ASSUME ToolInv, NEW i \in DOMAIN calls, step[i] \in Active, Sequential,
         NEW j \in DOMAIN calls \ {i}
  PROVE  step[j] \notin Active
  <1>1. i \in Nat /\ j \in Nat
    BY DEF ToolInv, Types
  <1> QED BY <1>1 DEF ToolInv, OneByOne, Active

LEMMA SerialReplaceStep ==
  ASSUME ToolInv, SerialInv, NEW i \in DOMAIN calls, Replace(i)
  PROVE  SerialInv'
  <1>1. UNCHANGED <<calls, decision, seen, link, disturbed, relinked>> /\ step[i] \in Places /\ step[i] # "ended"
    BY DEF Replace, Places
  <1>2. CASE step' = [step EXCEPT ![i] = "ended"] /\ UNCHANGED <<file, did>>
    BY <1>1, <1>2, QuietStep DEF ToolInv, Types, Places
  <1>3. CASE /\ step' = [step EXCEPT ![i] = "ended"]
             /\ file' = [file EXCEPT ![step[i]] = NewContent(i)]
             /\ did' = [did EXCEPT ![i] = step[i]]
    <2> PICK p \in Places : p = step[i]
      BY <1>1
    <2>1. Writes(i) /\ Sequential /\ did[i] = "none"
      <3>1. Writes(i) /\ did[i] = "none"
        BY <1>1 DEF ToolInv, Progress, Effects
      <3>2. decision[i].mode # "none"
        BY <1>1 DEF ToolInv, Progress, Active, Places
      <3>3. Scheduling(calls[i].tool) = "sequential"
        BY <3>1 DEF Writes, Scheduling
      <3> QED BY <3>1, <3>2, <3>3 DEF Sequential
    <2>2. did' = [did EXCEPT ![i] = p]
      BY <1>3
    <2>3. /\ Shows(p)' = IF calls[i].tool = "write" THEN {i} ELSE Shows(p) \cup {i}
          /\ \A q \in Places \ {p} : Shows(q)' = Shows(q)
      BY <1>1, <2>1, <2>2, LastChange DEF SerialInv
    <2>4. /\ file' = [q \in Places |-> file'[q]] /\ file'[p] = NewContent(i)
          /\ \A q \in Places \ {p} : file'[q] = file[q]
      BY <1>3 DEF SerialInv
    <2>5. /\ step'[i] = "ended"
          /\ \A j \in DOMAIN calls \ {i} : step'[j] = step[j] /\ step[j] \notin Active /\ did'[j] = did[j]
      BY <1>1, <1>3, <2>1, Alone DEF ToolInv, Types, Active, Places
    <2>6. Ordered'
      <3>1. Sequential'
        BY <1>1, <2>1 DEF Sequential
      <3>2. \A j, k \in DOMAIN calls : j < k /\ did'[k] # "none" => step'[j] = "ended"
        BY <1>1, <2>1, <2>5 DEF SerialInv, Ordered, ToolInv, OneByOne, Active, Places
      <3> QED BY <1>1, <3>1, <3>2 DEF Ordered
    <2>7. \A j \in DOMAIN calls : Fresh(j)'
      BY <1>1, <2>5 DEF Fresh, Active, Places
    <2>8. ASSUME ~disturbed, ~relinked
          PROVE  file'[p] = Shows(p)'
      <3>1. file[p] = Shows(p) /\ (calls[i].tool = "edit" => seen[i] = file[p])
        BY <1>1, <2>8 DEF SerialInv, Fresh
      <3> QED BY <2>1, <2>3, <2>4, <3>1 DEF NewContent, Writes
    <2>9. ~disturbed /\ ~relinked => \A q \in Places : file'[q] = Shows(q)'
      BY <2>3, <2>4, <2>8 DEF SerialInv
    <2>10. seen' = [j \in DOMAIN calls' |-> seen'[j]]
      BY <1>1 DEF SerialInv
    <2> QED BY <1>1, <2>4, <2>6, <2>7, <2>9, <2>10 DEF SerialInv
  <1> QED BY <1>2, <1>3 DEF Replace, End

(* A command appends to a file, or moves the link, with no edit under way.   *)
LEMMA SerialCommandStep ==
  ASSUME ToolInv, SerialInv, NEW i \in DOMAIN calls, CommandActs(i)
  PROVE  SerialInv'
  <1>1. UNCHANGED <<calls, decision, step, seen, disturbed, relinked>> /\ did[i] = "none"
    BY DEF CommandActs
  <1>2. step[i] = "running" /\ Sequential
    BY DEF CommandActs, ToolInv, Types, Progress, Sequential, Scheduling
  <1>3. calls[i].tool = "bash"
    BY <1>2 DEF ToolInv, Progress
  <1>4. \A j \in DOMAIN calls : step[j] \in Active => j = i
    BY <1>2, Alone DEF Active
  <1>5. \A j \in DOMAIN calls : Fresh(j)'
    BY <1>1, <1>2, <1>4 DEF Fresh, Active, Places
  <1>6. \A j \in DOMAIN calls \ {i} : did'[j] = did[j]
    BY DEF CommandActs, ToolInv, Types
  <1>7. Ordered'
    <2>1. Sequential'
      BY <1>1, <1>2 DEF Sequential
    <2>2. \A j, k \in DOMAIN calls : j < k /\ did'[k] # "none" => step[j] = "ended"
      BY <1>2, <1>6 DEF SerialInv, Ordered, ToolInv, OneByOne, Active
    <2> QED BY <1>1, <2>1, <2>2 DEF Ordered
  <1>8. CASE file' = [file EXCEPT !["inside"] = @ \cup {i}] /\ did' = [did EXCEPT ![i] = "inside"]
    <2>1. /\ Shows("inside")' = Shows("inside") \cup {i}
          /\ \A q \in Places \ {"inside"} : Shows(q)' = Shows(q)
      <3>1. "inside" \in Places
        BY DEF Places
      <3> QED BY <1>1, <1>2, <1>3, <1>8, <3>1, LastChange DEF SerialInv
    <2>2. /\ file' = [q \in Places |-> file'[q]] /\ file'["inside"] = file["inside"] \cup {i}
          /\ \A q \in Places \ {"inside"} : file'[q] = file[q]
      BY <1>8 DEF SerialInv, Places
    <2>3. ~disturbed /\ ~relinked => \A q \in Places : file'[q] = Shows(q)'
      BY <2>1, <2>2 DEF SerialInv
    <2> QED BY <1>1, <1>5, <1>7, <2>2, <2>3 DEF SerialInv
  <1>9. CASE UNCHANGED file /\ did' = [did EXCEPT ![i] = "link"]
    <2>1. \A p \in Places : Changes(p)' = Changes(p)
      BY <1>1, <1>9 DEF Changes, Places, ToolInv, Types
    <2>2. \A p \in Places : Shows(p)' = Shows(p)
      BY <1>1, <2>1 DEF Shows
    <2> QED BY <1>1, <1>5, <1>7, <1>9, <2>2 DEF SerialInv
  <1> QED BY <1>8, <1>9 DEF CommandActs

(* What others do puts the promise off.                                      *)
LEMMA SerialOthersStep ==
  ASSUME ToolInv, SerialInv, OthersWrite \/ OthersRelink
  PROVE  SerialInv'
  <1>1. UNCHANGED calls /\ UNCHANGED decision /\ UNCHANGED step /\ UNCHANGED seen /\ UNCHANGED did
    BY DEF OthersWrite, OthersRelink
  <1>2. disturbed' \/ relinked'
    BY DEF OthersWrite, OthersRelink
  <1>3. file' = [p \in Places |-> file'[p]]
    BY DEF OthersWrite, OthersRelink, SerialInv
  <1>4. Ordered'
    BY <1>1 DEF SerialInv, Ordered, Sequential
  <1>5. seen' = [i \in DOMAIN calls' |-> seen'[i]]
    BY <1>1 DEF SerialInv
  <1> QED BY <1>2, <1>3, <1>4, <1>5 DEF SerialInv

LEMMA SerialOtherSteps ==
  ASSUME ToolInv, SerialInv,
         \/ \E i \in DOMAIN calls :
               \/ EvaluatePermission(i) \/ Begin(i) \/ EndRead(i) \/ WriteTemporary(i)
               \/ StartCommand(i) \/ CommandEnds(i) \/ RunCustom(i) \/ Unwind(i)
         \/ StartBatch \/ EndBatch \/ Cancel \/ UNCHANGED vars
  PROVE  SerialInv'
  <1>1. UNCHANGED <<calls, seen, file, link, did, disturbed, relinked>>
    BY DEF EvaluatePermission, Begin, EndRead, WriteTemporary, StartCommand, CommandEnds,
           RunCustom, Unwind, StartBatch, EndBatch, Cancel, vars, world
  <1>2. \/ UNCHANGED step
        \/ Cancel
        \/ \E i \in DOMAIN calls : step[i] # "ended" /\
              \E to \in {"ended", "waiting", "started", "running"} : step' = [step EXCEPT ![i] = to]
    BY DEF EvaluatePermission, Begin, EndRead, WriteTemporary, StartCommand, CommandEnds,
           RunCustom, Unwind, StartBatch, EndBatch, vars, Go, End, Places
  <1>3. \A i \in DOMAIN calls :
          /\ step[i] = "ended" => step'[i] = "ended"
          /\ step'[i] \in {"read"} \cup Places => step'[i] = step[i]
    BY <1>2 DEF Cancel, ToolInv, Types, Places
  <1>4. UNCHANGED decision \/ stage = "deciding"
    BY DEF EvaluatePermission, Begin, EndRead, WriteTemporary, StartCommand, CommandEnds,
           RunCustom, Unwind, StartBatch, EndBatch, Cancel, vars, world
  <1> QED BY <1>1, <1>3, <1>4, QuietStep

(* One sequential call makes the batch sequential (batch_mode), so the file  *)
(* an edit has read is the file it replaces.                                 *)
THEOREM BatchesAreSerial == Spec => []SequentialEffect
  <1>1. Init => SerialInv
    BY SerialInit
  <1>2. ToolInv /\ SerialInv /\ [Next]_vars => SerialInv'
    BY SerialReadStep, SerialPrepareStep, SerialReplaceStep, SerialCommandStep, SerialOthersStep,
       SerialOtherSteps DEF Next
  <1>3. SerialInv => SequentialEffect
    BY DEF SerialInv, SequentialEffect
  <1> QED BY <1>1, <1>2, <1>3, ToolInvariant, PTL DEF Spec
=============================================================================
