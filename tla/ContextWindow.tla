---------------------------- MODULE ContextWindow ----------------------------
(* What of a Session the model is shown: the ContextPipeline of a kernel      *)
(* with a Session, its compaction checkpoints, and the runs that build one    *)
(* request after the other while a Host may move the Active Branch.           *)
(*                                                                            *)
(* A build is one step but for the wait for the CompactionEngine. Sizes are   *)
(* in units; a tool result that is big can be shed to the size of a small one.*)
EXTENDS Integers, Sequences, FiniteSets, SequencesExt

CONSTANTS
    Budget,         \* max_characters, less what every request carries
    SummaryBudget,  \* the size selection sets aside for a summary
    Summaries,      \* the sizes an accepted summary has once it is encoded
    BigOutput,      \* size of a tool result that was not shed
    CallIds,        \* the ids a provider gives to tool calls
    MaxEntries,     \* bound on the entries ever appended
    MaxMoves        \* bound on how often others move the branch

ASSUME WindowAssumption ==
    /\ {Budget, SummaryBudget, BigOutput, MaxEntries} \subseteq Nat \ {0} /\ MaxMoves \in Nat
    /\ Summaries \subseteq Nat \ {0} /\ CallIds \subseteq Nat \ {0}

VARIABLES
    branch,    \* the Active Branch: entries from the root to the active leaf
    last,      \* the id of the entry appended last, on whatever branch
    phase,     \* what the run does
    job,       \* what the build at hand works from
    request,   \* what the request in flight stands for
    outcome,   \* how the latest run ended
    moved,     \* whether anyone else moved the branch during the run
    moves      \* how often others moved it

vars == <<branch, last, phase, job, request, outcome, moved, moves>>

Message(id, kind, call, big) == [id |-> id, kind |-> kind, call |-> call, big |-> big]
UserMessage(id) == Message(id, "user", 0, FALSE)

Checkpoint(id, covered, kept, retained, previous, summary) ==
    [id |-> id, kind |-> "compaction", covered |-> covered, kept |-> kept,
     retained |-> retained, previous |-> previous, summary |-> summary]
NoCheckpoint == Checkpoint(0, <<>>, 0, 0, 0, 0)

NoJob == [fixed |-> FALSE, view |-> <<>>, injected |-> <<>>, prompt |-> <<>>, start |-> 0, asks |-> 0,
          call |-> 0]
NoRequest == [covered |-> <<>>, tail |-> <<>>, injected |-> <<>>]

-----------------------------------------------------------------------------
(* Branches *)

AllMessages == [id : Nat, kind : {"user", "assistant", "tool"}, call : Nat, big : BOOLEAN]

(* Those of the entries that are in a set, in their order.                   *)
Among(entries, set) ==
    LET upTo[n \in 0..Len(entries)] ==
            IF n = 0 THEN <<>>
            ELSE IF entries[n] \in set THEN Append(upTo[n - 1], entries[n]) ELSE upTo[n - 1]
    IN  upTo[Len(entries)]

Messages(entries) == Among(entries, AllMessages)
Ids(entries) == [i \in DOMAIN entries |-> entries[i].id]

(* _latest_checkpoint *)
Latest(entries) ==
    LET at == SelectLastInSeq(entries, LAMBDA e : e.kind = "compaction")
    IN  IF at = 0 THEN NoCheckpoint ELSE entries[at]

(* A call on one side of a cut after n messages and a result of the same id  *)
(* on the other: _validate_safe_cut, _validate_v2_compaction_payload.        *)
Splits(messages, n) ==
    \E i \in 1..n, j \in n+1..Len(messages) :
        /\ {messages[i].kind, messages[j].kind} = {"assistant", "tool"}
        /\ messages[i].call = messages[j].call

(* decode_v2_compaction_checkpoint: what a Session accepts on a branch.      *)
Accepts(entries, checkpoint) ==
    LET messages == Messages(entries)
        n == Len(checkpoint.covered)
        before == Latest(entries)
    IN  /\ IsPrefix(checkpoint.covered, Ids(messages))
        /\ IsStrictPrefix(before.covered, checkpoint.covered)
        /\ checkpoint.kept = (IF n = Len(messages) THEN 0 ELSE messages[n + 1].id)
        /\ checkpoint.retained = Len(messages) - n
        /\ checkpoint.previous = before.id
        /\ ~Splits(messages, n)

-----------------------------------------------------------------------------
(* ContextPipeline *)

Size(message, shed) == IF message.big /\ ~shed THEN BigOutput ELSE 1
SizeOf(messages, shed) == FoldLeft(LAMBDA n, e : n + Size(e, shed), 0, messages)

(* Whether a request fits, with its tool outputs whole or shed.              *)
Fits(summary, tail, injected) ==
    \E shed \in BOOLEAN : summary + SizeOf(tail, shed) + SizeOf(injected, FALSE) <= Budget

(* Fault: only what follows the checkpoint entry is projected.               *)
ShownAfterCheckpoint(entries) ==
    LET at == SelectLastInSeq(entries, LAMBDA e : e.kind = "compaction")
    IN  Messages(SubSeq(entries, at + 1, Len(entries)))

(* _project_active_branch: the messages shown beside the summary.            *)
Shown(entries) ==
    LET at == SelectLastInSeq(entries, LAMBDA e : e.kind = "compaction")
        kept == SelectInSeq(entries, LAMBDA e : e.id = Latest(entries).kept)
    IN  Messages(SubSeq(entries, IF kept = 0 THEN at + 1 ELSE kept, Len(entries)))

Uncovered(entries) ==
    LET covered == ToSet(Latest(entries).covered)
    IN  Among(Messages(entries), {e \in AllMessages : e.id \notin covered})

(* _conversation_turns: where a turn starts, or past the last one.           *)
Starts(messages) ==
    {i \in DOMAIN messages : i = 1 \/ messages[i].kind = "user"} \cup {Len(messages) + 1}

From(messages, i) == SubSeq(messages, i, Len(messages))

(* _select_retained_turns: the newest turns that fit beside a summary.       *)
Selected(messages, injected) ==
    CHOOSE s \in Starts(messages) :
        /\ \A t \in Starts(messages) :
              t >= s /\ t \in DOMAIN messages => Fits(SummaryBudget, From(messages, t), injected)
        /\ \A r \in Starts(messages) :
              r < s => \E t \in Starts(messages) :
                          t >= r /\ t < s /\ ~Fits(SummaryBudget, From(messages, t), injected)

(* Fault: the turns that do not fit are offered over and over.               *)
SameStart(messages, s) == s

(* The retained turns but the oldest.                                        *)
NextStart(messages, s) ==
    CHOOSE t \in Starts(messages) : t > s /\ \A r \in Starts(messages) : r > s => t <= r

(* The plan that covers the first n messages of the branch it is made from.  *)
Plan(id, entries, n, summary) ==
    LET messages == Messages(entries)
    IN  Checkpoint(id, Ids(SubSeq(messages, 1, n)),
                   IF n = Len(messages) THEN 0 ELSE messages[n + 1].id,
                   Len(messages) - n, Latest(entries).id, summary)

-----------------------------------------------------------------------------
(* A run *)

Init ==
    /\ branch = <<>> /\ last = 0
    /\ phase = "idle" /\ job = NoJob
    /\ request = NoRequest /\ outcome = "none"
    /\ moved = FALSE /\ moves = 0

StartRun ==
    /\ phase = "idle" /\ last < MaxEntries
    /\ phase' = "due"
    /\ last' = last + 1
    /\ job' = [NoJob EXCEPT !.injected = <<UserMessage(last')>>,
                            !.prompt = <<UserMessage(last')>>]
    /\ moved' = FALSE /\ outcome' = "none"
    /\ UNCHANGED <<branch, request, moves>>

EndRun(how) == phase' = "idle" /\ job' = NoJob /\ outcome' = how

(* _build_context returns: the plan, if there is one, is recorded, and after *)
(* it the prompt if this is the first request of the run.                    *)
Send(covered, tail, plan) ==
    /\ request' = [covered |-> covered, tail |-> Ids(tail), injected |-> Ids(job.injected)]
    /\ branch' = branch \o plan \o job.prompt
    /\ phase' = "sent" /\ job' = NoJob
    /\ UNCHANGED <<outcome, moved, moves>>

(* The branch a build reads: the one before an injection, or the current one.*)
View == IF job.fixed THEN job.view ELSE branch

(* The engine is asked to cover all before start, unless that cuts a         *)
(* transaction in two.                                                       *)
AskEngine(view, start) ==
    IF Splits(Uncovered(view), start - 1)
    THEN EndRun("safe_cut_unavailable")
    ELSE /\ phase' = "compacting"
         /\ job' = [job EXCEPT !.fixed = TRUE, !.view = view, !.start = start, !.asks = @ + 1]
         /\ UNCHANGED outcome

BuildContext ==
    /\ phase = "due"
    /\ LET view == View
           uncovered == Uncovered(view)
           start == Selected(uncovered, job.injected)
       IN  IF Fits(Latest(view).summary, Shown(view), job.injected)
           THEN Send(Latest(view).covered, Shown(view), <<>>) /\ UNCHANGED last
           ELSE /\ IF uncovered = <<>> \/ start = 1
                   THEN EndRun("budget_exceeded")
                   ELSE AskEngine(view, start)
                /\ UNCHANGED <<branch, last, request, moved, moves>>

(* Fault: the plan is held against the branch it was made from.              *)
SessionAcceptsOld(plan) == Accepts(job.view, plan)

(* Session.validate_compaction *)
SessionAccepts(plan) == Accepts(branch, plan)

(* transform_compaction: an Extension may replace a plan, and move its cut.  *)
Transformed(plan) == {Plan(last + 1, job.view, n, plan.summary) : n \in DOMAIN Messages(job.view)}

(* reproject_compaction: what a plan leaves beside its summary.              *)
Retained(plan) == From(Messages(job.view), Len(plan.covered) + 1)

(* The plan an Extension returns is validated in its turn and projected, and *)
(* it is the one that is recorded. The Session refusing the plan of the      *)
(* pipeline itself is an error that nobody turns into a context failure.     *)
Commit(plan) ==
    IF ~SessionAccepts(plan)
    THEN EndRun("kernel_exception") /\ UNCHANGED <<branch, last, request, moved, moves>>
    ELSE \E final \in Transformed(plan) :
            IF SessionAccepts(final) /\ Fits(final.summary, Retained(final), job.injected)
            THEN /\ Send(final.covered, Retained(final), <<final>>)
                 /\ last' = last + 1
            ELSE EndRun("compaction_rejected") /\ UNCHANGED <<branch, last, request, moved, moves>>

EngineAnswers ==
    /\ phase = "compacting"
    /\ \E summary \in Summaries :
        LET uncovered == Uncovered(job.view)
            n == Len(Latest(job.view).covered) + job.start - 1
        IN  IF Fits(summary, From(uncovered, job.start), job.injected)
            THEN last < MaxEntries /\ Commit(Plan(last + 1, job.view, n, summary))
            ELSE /\ IF job.start = Len(uncovered) + 1
                    THEN EndRun("budget_exceeded")
                    ELSE AskEngine(job.view, NextStart(uncovered, job.start))
                 /\ UNCHANGED <<branch, last, request, moved, moves>>

(* The engine raises, or what it returns is no summary.                      *)
EngineFails ==
    /\ phase = "compacting"
    /\ EndRun("compaction_failed")
    /\ UNCHANGED <<branch, last, request, moved, moves>>

-----------------------------------------------------------------------------
(* The loop around it *)

(* _prepare_control_injection, _inject_messages: queued messages are         *)
(* recorded, and the next request is built from the branch as it was, with   *)
(* them injected. Without any the next request is built from the branch.     *)
Inject(entries, users) ==
    /\ branch' = entries \o users
    /\ phase' = "due"
    /\ job' = [NoJob EXCEPT !.fixed = (users # <<>>), !.view = IF users = <<>> THEN <<>> ELSE entries,
                            !.injected = users]

(* The model answers without a call: the run ends, or goes on with steering  *)
(* or follow-ups.                                                            *)
AnswerText ==
    /\ phase = "sent" /\ last + 2 <= MaxEntries
    /\ LET answered == Append(branch, Message(last + 1, "assistant", 0, FALSE))
       IN  \/ /\ branch' = answered /\ last' = last + 1
              /\ EndRun("success")
           \/ /\ Inject(answered, <<UserMessage(last + 2)>>)
              /\ last' = last + 2
              /\ UNCHANGED outcome
    /\ request' = NoRequest
    /\ UNCHANGED <<moved, moves>>

AnswerCall ==
    /\ phase = "sent" /\ last < MaxEntries
    /\ \E c \in CallIds :
          /\ branch' = Append(branch, Message(last + 1, "assistant", c, FALSE))
          /\ job' = [NoJob EXCEPT !.call = c]
    /\ last' = last + 1
    /\ phase' = "tools"
    /\ request' = NoRequest
    /\ UNCHANGED <<outcome, moved, moves>>

(* The batch ends: its result is recorded, then what steering there is.      *)
BatchEnds ==
    /\ phase = "tools" /\ last + 2 <= MaxEntries
    /\ \E big \in BOOLEAN, users \in {<<>>, <<UserMessage(last + 2)>>} :
          /\ Inject(Append(branch, Message(last + 1, "tool", job.call, big)), users)
          /\ last' = last + 1 + Len(users)
    /\ UNCHANGED <<request, outcome, moved, moves>>

(* The provider fails, or the Host cancels: nothing more is recorded.        *)
Stop ==
    /\ phase # "idle"
    /\ EndRun("stopped")
    /\ request' = NoRequest
    /\ UNCHANGED <<branch, last, moved, moves>>

-----------------------------------------------------------------------------
(* Others *)

(* The Host forks to an entry of the branch.                                 *)
Fork ==
    /\ \E n \in 1..Len(branch) - 1 : branch' = SubSeq(branch, 1, n)
    /\ moves < MaxMoves /\ moves' = moves + 1
    /\ moved' = TRUE
    /\ UNCHANGED <<last, phase, job, request, outcome>>

(* Another run of the kernel records a message.                              *)
OtherRun ==
    /\ last < MaxEntries
    /\ branch' = Append(branch, UserMessage(last + 1))
    /\ last' = last + 1
    /\ moves < MaxMoves /\ moves' = moves + 1
    /\ moved' = TRUE
    /\ UNCHANGED <<phase, job, request, outcome>>

Run == StartRun \/ BuildContext \/ EngineAnswers \/ EngineFails
         \/ AnswerText \/ AnswerCall \/ BatchEnds \/ Stop
Next == Run \/ Fork \/ OtherRun

Spec == Init /\ [][Next]_vars

-----------------------------------------------------------------------------
(* Properties *)

(* Unless someone else moved the branch, a request stands for the whole      *)
(* conversation: every message of the branch is under the summary, shown or  *)
(* injected, once and in order, however often the branch was compacted.      *)
RequestComplete ==
    phase = "sent" /\ ~moved =>
        request.covered \o request.tail \o request.injected = Ids(Messages(branch))

(* Whoever moves the branch while a summary is written: the checkpoints on   *)
(* it cover growing prefixes of it, each names the one before it, and none   *)
(* parts a call from its result. Otherwise no resume would accept the log.   *)
CheckpointsReplay ==
    \A k \in DOMAIN branch :
        branch[k].kind = "compaction" =>
            LET before == SubSeq(branch, 1, k - 1)
            IN  /\ IsPrefix(branch[k].covered, Ids(Messages(before)))
                /\ IsStrictPrefix(Latest(before).covered, branch[k].covered)
                /\ branch[k].previous = Latest(before).id
                /\ ~Splits(Messages(before), Len(branch[k].covered))

(* A build does not go on asking for summaries, each a request of its own:   *)
(* one that is too long costs it a turn it had meant to retain, so that it   *)
(* asks at most once for each turn it may cover.                             *)
SummariesBounded ==
    phase = "compacting" => job.asks < Cardinality(Starts(Uncovered(job.view)))

(* Steering and follow-ups are injected beside a checkpoint that does not    *)
(* cover them ("Current input", docs/design/context-compaction-v2.md): a run *)
(* whose branch nobody else moved gets its plan past the Session.            *)
InjectionCompacts == outcome = "kernel_exception" => moved
=============================================================================
