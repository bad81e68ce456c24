--------------------------- MODULE AgentRun_proofs ---------------------------
(* Theorems about AgentRun, for every value of its constants. *)
EXTENDS AgentRun, SequenceTheorems, FiniteSetTheorems, TLAPS

-----------------------------------------------------------------------------
(* What a step does to the queues *)

(* Every step leaves the queues alone, or is one of the three things that    *)
(* can happen to them.                                                       *)
LEMMA QueueSteps ==
    ASSUME Next
    PROVE  \/ UNCHANGED <<messages, cancelRequested>>
           \/ \E q \in Queues : \E m \in Texts[q] : Enqueue(q, m)
           \/ Cancel
           \/ \E q \in Queues : Drain(q) /\ UNCHANGED cancelRequested
<1> USE DEF Suspend, Finish, ContextBuilt, BuildContext, NextTurn
<1>1. CASE Host
  BY <1>1 DEF Host, Resolve, lifecycle
<1>2. CASE Tools
  BY <1>2 DEF Tools, ToolBegin, ToolEnd, lifecycle
<1>3. CASE Start \/ NeverStarted \/ Compacted \/ Unwind
  BY <1>3 DEF Start, NeverStarted, Compacted, Unwind, lifecycle, messages
<1>8. CASE CompactionFails \/ CompactionAbandoned
  BY <1>8 DEF CompactionFails, CompactionAbandoned
<1>4. CASE Opened \/ ReadDone \/ ReadLast \/ Retry
  BY <1>4 DEF Opened, ReadDone, ReadLast, Retry, AttemptFailed, Cancelled, CloseStream, lifecycle
<1>5. CASE Closed
  <2>1. CASE \E cs \in Replies : Respond(cs)
    BY <2>1 DEF Respond, Conclude, Authorise, messages, Queues
  <2>2. CASE ~\E cs \in Replies : Respond(cs)
    BY <1>5, <2>2 DEF Closed, AttemptFailed, Cancelled
  <2> QED BY <2>1, <2>2
<1>6. CASE Answered \/ BatchInterrupted \/ Joined
  BY <1>6 DEF Answered, BatchInterrupted, Joined, Authorise, Cancelled
<1>7. CASE BatchDone
  BY <1>7 DEF BatchDone, Queues
<1> QED
  BY <1>1, <1>2, <1>3, <1>4, <1>5, <1>6, <1>7, <1>8 DEF Next, Worker

-----------------------------------------------------------------------------
(* Messages *)

(* MessagesConserved is inductive together with the two regimes of a run:    *)
(* until the Host cancels nothing is dropped, afterwards nothing waits.      *)
QueueInv ==
    /\ queue \in Waiting /\ accepted \in Waiting
    /\ injected \in Waiting /\ dropped \in Waiting
    /\ ~cancelRequested => dropped = Empty
    /\ cancelRequested => queue = Empty
    /\ MessagesConserved

(* The empty sequence in a concatenation, on either side. *)
LEMMA ConcatEmpty ==
    ASSUME NEW S, NEW s \in Seq(S)
    PROVE  s \o <<>> = s /\ <<>> \o s = s
BY ConcatEmptySeq

LEMMA QueueInvInductive == QueueInv /\ [Next]_vars => QueueInv'
<1> SUFFICES ASSUME QueueInv, [Next]_vars PROVE QueueInv'
  OBVIOUS
<1> USE DEF Waiting, Queues, Empty
<1>1. CASE UNCHANGED <<messages, cancelRequested>>
  BY <1>1 DEF QueueInv, messages, MessagesConserved
<1>2. ASSUME NEW q \in Queues, NEW m \in Texts[q], Enqueue(q, m)
      PROVE  QueueInv'
  <2>1. m \in Steering \cup FollowUps
    BY <1>2 DEF Texts
  <2>2. /\ dropped' = dropped /\ injected' = injected /\ dropped = Empty
        /\ ~cancelRequested /\ cancelRequested' = cancelRequested
        /\ queue' = [queue EXCEPT ![q] = Append(@, m)]
        /\ accepted' = [accepted EXCEPT ![q] = Append(@, m)]
    BY <1>2 DEF Enqueue, QueueInv, lifecycle
  <2>3. queue' \in Waiting /\ accepted' \in Waiting
    BY <2>1, <2>2 DEF QueueInv
  <2>4. ASSUME NEW r \in Queues
        PROVE  accepted'[r] = injected'[r] \o queue'[r] \o dropped'[r]
    <3>1. /\ injected[r] \in Seq(Steering \cup FollowUps)
          /\ queue[r] \in Seq(Steering \cup FollowUps)
          /\ queue'[r] \in Seq(Steering \cup FollowUps)
          /\ dropped[r] = <<>>
      BY <2>2, <2>3 DEF QueueInv
    <3>2. /\ injected[r] \o queue[r] \in Seq(Steering \cup FollowUps)
          /\ injected[r] \o queue'[r] \in Seq(Steering \cup FollowUps)
      BY <3>1
    <3>3. accepted[r] = injected[r] \o queue[r]
      <4>1. accepted[r] = (injected[r] \o queue[r]) \o dropped[r]
        BY DEF QueueInv, MessagesConserved
      <4>2. \A s \in Seq(Steering \cup FollowUps) : s \o <<>> = s
        BY ConcatEmpty
      <4> QED BY <3>1, <3>2, <4>1, <4>2
    <3>4. accepted'[r] = injected[r] \o queue'[r]
      <4>1. CASE r = q
        <5>1. accepted'[r] = Append(accepted[r], m) /\ queue'[r] = Append(queue[r], m)
          BY <2>2, <4>1 DEF QueueInv
        <5>2. Append(injected[r] \o queue[r], m) = injected[r] \o Append(queue[r], m)
          <6>1. PICK X : X = Steering \cup FollowUps
            OBVIOUS
          <6>2. PICK a \in Seq(X) : a = injected[r]
            BY <3>1, <6>1
          <6>3. PICK b \in Seq(X) : b = queue[r]
            BY <3>1, <6>1
          <6>4. m \in X
            BY <2>1, <6>1
          <6>5. Append(a \o b, m) = a \o Append(b, m)
            BY ONLY <6>4, a \in Seq(X), b \in Seq(X), SMTT(30)
          <6> QED BY <6>2, <6>3, <6>5
        <5> QED BY <3>3, <5>1, <5>2
      <4>2. CASE r # q
        BY <2>2, <3>3, <4>2 DEF QueueInv
      <4> QED BY <4>1, <4>2
    <3> QED BY <2>2, <3>1, <3>2, <3>4, ConcatEmpty
  <2> QED BY <2>2, <2>3, <2>4 DEF QueueInv, MessagesConserved
<1>3. CASE Cancel
  <2>1. /\ dropped = Empty /\ cancelRequested' /\ queue' = Empty
        /\ dropped' = [r \in Queues |-> dropped[r] \o queue[r]]
        /\ accepted' = accepted /\ injected' = injected
    BY <1>3 DEF Cancel, QueueInv
  <2>2. dropped' = queue
    <3>1. \A r \in Queues : queue[r] \in Seq(Steering \cup FollowUps) /\ dropped[r] = <<>>
      BY <2>1 DEF QueueInv
    <3>2. \A r \in Queues : dropped[r] \o queue[r] = queue[r]
      BY <3>1, ConcatEmpty
    <3> QED BY <2>1, <3>2 DEF QueueInv
  <2>3. ASSUME NEW r \in Queues
        PROVE  accepted'[r] = injected'[r] \o queue'[r] \o dropped'[r]
    <3>1. /\ injected[r] \in Seq(Steering \cup FollowUps)
          /\ queue[r] \in Seq(Steering \cup FollowUps)
          /\ dropped[r] = <<>> /\ queue'[r] = <<>> /\ dropped'[r] = queue[r]
      BY <2>1, <2>2 DEF QueueInv
    <3>2. accepted[r] = injected[r] \o queue[r] \o <<>>
      BY <3>1 DEF QueueInv, MessagesConserved
    <3>3. injected[r] \o queue[r] \in Seq(Steering \cup FollowUps)
      BY <3>1
    <3> QED BY <2>1, <3>1, <3>2, <3>3, ConcatEmpty
  <2> QED BY <2>1, <2>2, <2>3 DEF QueueInv, MessagesConserved
<1>4. ASSUME NEW q \in Queues, Drain(q), UNCHANGED cancelRequested
      PROVE  QueueInv'
  <2>1. /\ injected' = [injected EXCEPT ![q] = @ \o queue[q]]
        /\ queue' = [queue EXCEPT ![q] = <<>>]
        /\ accepted' = accepted /\ dropped' = dropped
    BY <1>4 DEF Drain
  <2>2. injected' \in Waiting /\ queue' \in Waiting
    <3>1. queue[q] \in Seq(Steering \cup FollowUps) /\ injected[q] \in Seq(Steering \cup FollowUps)
      BY DEF QueueInv
    <3>2. injected[q] \o queue[q] \in Seq(Steering \cup FollowUps)
      BY <3>1
    <3> QED BY <2>1, <3>2 DEF QueueInv
  <2>3. cancelRequested => queue' = Empty
    BY <2>1 DEF QueueInv
  <2>4. ASSUME NEW r \in Queues
        PROVE  accepted'[r] = injected'[r] \o queue'[r] \o dropped'[r]
    <3>1. /\ injected[r] \in Seq(Steering \cup FollowUps)
          /\ queue[r] \in Seq(Steering \cup FollowUps)
          /\ dropped[r] \in Seq(Steering \cup FollowUps)
          /\ accepted[r] = injected[r] \o queue[r] \o dropped[r]
      BY DEF QueueInv, MessagesConserved
    <3>2. CASE r = q
      <4>1. injected'[r] = injected[r] \o queue[r] /\ queue'[r] = <<>>
        BY <2>1, <3>2 DEF QueueInv
      <4>2. (injected[r] \o queue[r]) \o <<>> \o dropped[r]
              = injected[r] \o queue[r] \o dropped[r]
        BY <3>1, ConcatEmpty, ConcatProperties
      <4> QED BY <2>1, <3>1, <4>1, <4>2
    <3>3. CASE r # q
      BY <2>1, <3>1, <3>3 DEF QueueInv
    <3> QED BY <3>2, <3>3
  <2> QED BY <1>4, <2>1, <2>2, <2>3, <2>4 DEF QueueInv, MessagesConserved
<1>5. CASE UNCHANGED vars
  BY <1>1, <1>5 DEF vars, lifecycle
<1> QED BY <1>1, <1>2, <1>3, <1>4, <1>5, QueueSteps

LEMMA QueueInvHolds == Spec => []QueueInv
<1>1. Init => QueueInv
  BY DEF Init, QueueInv, MessagesConserved, Waiting, Queues, Empty
<1> QED BY <1>1, QueueInvInductive, PTL DEF Spec

(* No message the Host was told is queued is lost, doubled or reordered by   *)
(* any interleaving of drains, cancellation and failure.                     *)
THEOREM MessagesAreConserved == Spec => []MessagesConserved
<1>1. QueueInv => MessagesConserved
  BY DEF QueueInv
<1> QED BY <1>1, QueueInvHolds, PTL

-----------------------------------------------------------------------------
(* Types *)

(* What the position of the worker says of the other variables: TypeOK is    *)
(* inductive together with it.                                               *)
Placement ==
    /\ turn = 0 <=> pc \in {"created", "dead"}
    /\ pc = "retrying" => attempt < MaxAttempts
    /\ pending.answer # "none" => pc = "permission" /\ pending.call \in 1..Len(calls)
    /\ pc \in {"batch", "joining"} =>
          tool \in [1..Len(calls) -> {"waiting", "running", "success", "error", "cancelled"}]

TypeInv == TypeOK /\ Placement

Ended == {"success", "error", "cancelled"}

LEMMA EntryTypes ==
    /\ \A text \in {Prompt} \cup Steering \cup FollowUps : User(text) \in Entries
    /\ \A t \in 1..MaxTurns : \A cs \in Replies : Assistant(t, cs) \in Entries
    /\ \A t \in 1..MaxTurns : \A k \in 1..MaxCalls : \A s \in Ended :
          Result(t, k, s) \in Entries
BY DEF Entries, Ended

LEMMA RecordedType ==
    ASSUME NEW S, NEW log \in Seq(S), NEW entries \in Seq(S)
    PROVE  Recorded(log, entries) \in Seq(S)
BY ConcatProperties DEF Recorded

LEMMA UsersType ==
    ASSUME queue \in Waiting, NEW q \in Queues
    PROVE  Users(q) \in Seq(Entries)
BY EntryTypes DEF Waiting, Users

LEMMA RepliesType ==
    ASSUME NEW cs \in Replies
    PROVE  /\ Len(cs) \in 0..MaxCalls
           /\ DOMAIN cs = 1..Len(cs)
           /\ cs \in [1..Len(cs) -> CallClasses]
BY RunAssumption DEF Replies

(* An ascending list of call numbers is a sequence of them. *)
LEMMA AscendingType ==
    ASSUME NEW n \in Nat, NEW S \in SUBSET (1..n), NEW list \in Ascending(S)
    PROVE  list \in Seq(S)
<1>1. IsFiniteSet(S)
  <2>1. IsFiniteSet(1..n)
    BY FS_Interval
  <2> QED BY <2>1, FS_Subset
<1>2. Cardinality(S) \in Nat
  BY <1>1, FS_CardinalityType
<1> QED BY <1>2 DEF Ascending

(* The results of calls that have ended. *)
LEMMA ResultsType ==
    ASSUME turn \in 1..MaxTurns, NEW n \in 0..MaxCalls, NEW ks \in Seq(1..n),
           \A k \in 1..n : tool[k] \in Ended
    PROVE  InOrderOf(ks) \in Seq(Entries)
<1>1. \A i \in 1..Len(ks) : ks[i] \in 1..n /\ ks[i] \in 1..MaxCalls
  BY RunAssumption
<1>2. \A i \in 1..Len(ks) : Result(turn, ks[i], tool[ks[i]]) \in Entries
  BY <1>1, EntryTypes
<1> QED BY <1>2 DEF InOrderOf

LEMMA FinishType ==
    ASSUME TypeOK, NEW terminal \in Terminal, Finish(terminal)
    PROVE  /\ pc' = "done" /\ LifecycleOK'
           /\ pending' \in Questions /\ pending'.answer = "none"
<1>1. NoRequest \in Questions /\ NoRequest.answer = "none"
  BY RunAssumption DEF NoRequest, Questions
<1> QED BY <1>1 DEF Finish, TypeOK, LifecycleOK

(* A request, or a failure to make one, or a wait in the compaction engine. *)
LEMMA ContextType ==
    ASSUME TypeOK, turn' \in 1..MaxTurns, pending.answer = "none",
           NEW log \in Seq(Entries), NEW sent \in Seq(Entries),
           history' \in Seq(Entries), BuildContext(log, sent)
    PROVE  /\ pc' \in {"opening", "compacting", "done"}
           /\ LifecycleOK' /\ LoopOK' /\ pending'.answer = "none"
           /\ session' \in Seq(Entries) /\ request' \in Seq(Entries)
<1>1. CASE ContextBuilt(log, sent)
  <2>1. request' \in Seq(Entries) /\ session' \in Seq(Entries)
    BY <1>1 DEF ContextBuilt, TypeOK, TranscriptOK
  <2>2. CASE Suspend("opening") /\ attempt' = 1 /\ reply' = "none" /\ UNCHANGED pending
    BY <2>1, <2>2, RunAssumption DEF Suspend, TypeOK, LifecycleOK, LoopOK
  <2>3. CASE Finish("failed") /\ UNCHANGED <<attempt, reply>>
    <3>1. /\ pc' = "done" /\ LifecycleOK'
          /\ pending' \in Questions /\ pending'.answer = "none"
      BY <2>3, FinishType DEF Terminal
    <3>2. LoopOK'
      BY <2>3, <3>1, RunAssumption DEF TypeOK, LoopOK
    <3> QED BY <2>1, <3>1, <3>2
  <2> QED BY <1>1, <2>2, <2>3 DEF ContextBuilt
<1>2. CASE ~ContextBuilt(log, sent)
  BY <1>2, RunAssumption
     DEF BuildContext, Suspend, TypeOK, LifecycleOK, LoopOK, TranscriptOK
<1> QED BY <1>1, <1>2

(* The next turn, or the turn limit. *)
LEMMA NextTurnType ==
    ASSUME TypeOK, turn \in 1..MaxTurns, pending.answer = "none",
           NEW log \in Seq(Entries), NEW past \in Seq(Entries), NextTurn(log, past)
    PROVE  /\ pc' \in {"opening", "compacting", "done"}
           /\ LifecycleOK'
           /\ LoopOK' /\ turn' \in 1..MaxTurns /\ pending'.answer = "none"
           /\ session' \in Seq(Entries) /\ history' \in Seq(Entries)
           /\ request' \in Seq(Entries)
<1>1. CASE turn < MaxTurns
  <2>1. /\ turn' = turn + 1 /\ turn' \in 1..MaxTurns /\ history' = past
        /\ BuildContext(log, log)
    BY <1>1, RunAssumption DEF NextTurn
  <2> QED BY <2>1, ContextType
<1>2. CASE ~(turn < MaxTurns)
  <2>1. /\ history' = past /\ Finish("failed") /\ session' = log
        /\ UNCHANGED <<loop, request>>
    BY <1>2 DEF NextTurn
  <2> QED
    BY <2>1, FinishType DEF loop, TypeOK, LoopOK, TranscriptOK, Terminal
<1> QED BY <1>1, <1>2

(* The end of a turn without calls. *)
LEMMA ConcludeType ==
    ASSUME TypeOK, turn \in 1..MaxTurns, pending.answer = "none",
           NEW log \in Seq(Entries), NEW past \in Seq(Entries), Conclude(log, past)
    PROVE  /\ pc' \in {"opening", "compacting", "done"}
           /\ LifecycleOK'
           /\ LoopOK' /\ turn' \in 1..MaxTurns /\ pending'.answer = "none"
           /\ session' \in Seq(Entries) /\ history' \in Seq(Entries)
           /\ request' \in Seq(Entries)
<1>1. ASSUME NEW q \in Queues,
             NextTurn(Recorded(log, Users(q)), past \o Users(q))
      PROVE  /\ pc' \in {"opening", "compacting", "done"}
             /\ LifecycleOK'
             /\ LoopOK' /\ turn' \in 1..MaxTurns /\ pending'.answer = "none"
             /\ session' \in Seq(Entries) /\ history' \in Seq(Entries)
             /\ request' \in Seq(Entries)
  <2>1. Users(q) \in Seq(Entries)
    BY UsersType DEF TypeOK, MessagesOK
  <2>2. Recorded(log, Users(q)) \in Seq(Entries) /\ past \o Users(q) \in Seq(Entries)
    BY <2>1, RecordedType, ConcatProperties
  <2> QED BY <1>1, <2>2, NextTurnType
<1>2. CASE /\ Finish("settled") /\ session' = log /\ history' = past
           /\ UNCHANGED <<loop, request>>
  <2>1. /\ pc' = "done" /\ LifecycleOK'
        /\ pending' \in Questions /\ pending'.answer = "none"
    BY <1>2, FinishType DEF Terminal
  <2> QED BY <1>2, <2>1 DEF loop, TypeOK, LoopOK, TranscriptOK
<1> QED BY <1>1, <1>2 DEF Conclude, Queues

(* The next question, or the batch. *)
LEMMA AuthoriseType ==
    ASSUME TypeOK, turn \in 1..MaxTurns, NEW cs \in Replies, NEW first \in 1..(Len(cs) + 1),
           NEW granted \in [1..Len(cs) -> {"none", "approved", "denied"}],
           NEW log \in Seq(Decisions), Authorise(cs, first, granted, log)
    PROVE  /\ LifecycleOK' /\ BatchOK' /\ audit' \in Seq(Decisions)
           /\ pc' \in {"permission", "batch"} /\ pending' \in Questions
           /\ pending'.answer # "none" =>
                 pc' = "permission" /\ pending'.call \in 1..Len(calls')
           /\ pc' = "batch" =>
                 tool' \in [1..Len(calls') ->
                             {"waiting", "running", "success", "error", "cancelled"}]
<1> USE RunAssumption
<1>1. PICK next \in first..(Len(cs) + 1) :
        /\ calls' = cs
        /\ grant' = [k \in 1..Len(cs) |->
                       IF k \in first..(next - 1) THEN PolicyGrant(cs[k]) ELSE granted[k]]
        /\ \E decided \in Ascending({k \in first..(next - 1) : cs[k] \in {"allow", "deny"}}) :
              audit' = Recorded(log, [n \in DOMAIN decided |->
                         Decision(turn, decided[n], cs[decided[n]] = "allow")])
        /\ completion' = <<>>
        /\ \/ /\ next \in DOMAIN cs
              /\ Suspend("permission")
              /\ pending' = [call |-> next, answer |-> "open"]
              /\ tool' = <<>>
              /\ batchMode' = "none"
           \/ /\ next = Len(cs) + 1
              /\ Suspend("batch")
              /\ pending' = NoRequest
              /\ tool' = [k \in 1..Len(cs) |->
                            IF cs[k] = "rejected" THEN "error" ELSE "waiting"]
              /\ batchMode' \in BatchModes
  BY DEF Authorise
<1>2. /\ Len(cs) \in 0..MaxCalls /\ DOMAIN cs = 1..Len(cs)
  BY RepliesType
<1>3. audit' \in Seq(Decisions)
  <2> DEFINE S == {k \in first..(next - 1) : cs[k] \in {"allow", "deny"}}
  <2>1. PICK decided \in Ascending(S) :
          audit' = Recorded(log, [n \in DOMAIN decided |->
                     Decision(turn, decided[n], cs[decided[n]] = "allow")])
    BY <1>1
  <2>2. S \in SUBSET (1..Len(cs)) /\ S \in SUBSET (1..MaxCalls)
    BY <1>2
  <2> HIDE DEF S
  <2>3. decided \in Seq(S) /\ DOMAIN decided = 1..Len(decided) /\ Len(decided) \in Nat
    <3>1. decided \in Seq(S)
      BY <1>2, <2>1, <2>2, AscendingType
    <3> QED BY <3>1
  <2>4. \A n \in 1..Len(decided) : decided[n] \in 1..MaxCalls
    <3>1. \A n \in 1..Len(decided) : decided[n] \in S
      BY <2>3
    <3> QED BY <2>2, <3>1
  <2> DEFINE verdict(n) == Decision(turn, decided[n], cs[decided[n]] = "allow")
  <2>5. \A k \in 1..MaxCalls : \A ok \in BOOLEAN : Decision(turn, k, ok) \in Decisions
    BY DEF Decision, Decisions
  <2>6. \A n \in 1..Len(decided) : verdict(n) \in Decisions
    BY <2>4, <2>5
  <2> HIDE DEF verdict
  <2>7. [n \in DOMAIN decided |-> verdict(n)] \in Seq(Decisions)
    BY <2>3, <2>6
  <2>8. audit' = Recorded(log, [n \in DOMAIN decided |-> verdict(n)])
    BY <2>1 DEF verdict
  <2> QED BY <2>7, <2>8, RecordedType
<1>4. grant' \in [1..Len(cs) -> {"none", "approved", "denied"}]
  BY <1>1 DEF PolicyGrant
<1>5. completion' \in Seq(1..Len(calls'))
  BY <1>1
<1>6. CASE /\ next \in DOMAIN cs
           /\ Suspend("permission")
           /\ pending' = [call |-> next, answer |-> "open"]
           /\ tool' = <<>>
           /\ batchMode' = "none"
  <2>1. BatchOK'
    BY <1>1, <1>4, <1>5, <1>6 DEF BatchOK
  <2>2. pending' \in Questions /\ pending'.call \in 1..Len(calls')
    BY <1>1, <1>2, <1>6 DEF Questions
  <2> QED BY <1>3, <1>6, <2>1, <2>2 DEF Suspend, TypeOK, LifecycleOK
<1>7. CASE /\ next = Len(cs) + 1
           /\ Suspend("batch")
           /\ pending' = NoRequest
           /\ tool' = [k \in 1..Len(cs) |->
                         IF cs[k] = "rejected" THEN "error" ELSE "waiting"]
           /\ batchMode' \in BatchModes
  <2>1. tool' \in [1..Len(calls') ->
                    {"waiting", "running", "success", "error", "cancelled"}]
    BY <1>1, <1>7
  <2>2. BatchOK'
    BY <1>1, <1>4, <1>5, <1>7, <2>1 DEF BatchOK
  <2> QED BY <1>3, <1>7, <2>1, <2>2 DEF Suspend, TypeOK, LifecycleOK, NoRequest, Questions
<1> QED BY <1>1, <1>6, <1>7

LEMMA NoBatchType == NoBatch => BatchOK'
<1>1. <<>> \in Replies
  BY RunAssumption DEF Replies
<1> QED BY <1>1 DEF NoBatch, BatchOK

(* The end of a run, of an attempt: whatever else the step leaves alone. *)
LEMMA EndedType ==
    ASSUME TypeInv, MessagesOK', pc \notin {"created", "dead"},
           NEW terminal \in Terminal, Finish(terminal), UNCHANGED <<loop, batch, transcript>>
    PROVE  TypeInv'
<1>1. /\ pc' = "done" /\ LifecycleOK'
      /\ pending' \in Questions /\ pending'.answer = "none"
  BY FinishType DEF TypeInv
<1>2. LoopOK' /\ BatchOK' /\ TranscriptOK'
  BY <1>1 DEF TypeInv, TypeOK, LoopOK, BatchOK, TranscriptOK, loop, batch, transcript
<1>3. Placement'
  BY <1>1 DEF TypeInv, Placement, loop
<1> QED BY <1>1, <1>2, <1>3 DEF TypeInv, TypeOK

LEMMA CancelledType ==
    ASSUME TypeInv, pc \notin {"created", "dead"}, Cancelled, MessagesOK'
    PROVE  TypeInv'
BY EndedType DEF Cancelled, Terminal

LEMMA AttemptFailedType ==
    ASSUME TypeInv, pc \in {"opening", "closing"}, NEW kind \in Failures,
           AttemptFailed(kind), MessagesOK'
    PROVE  TypeInv'
<1>1. /\ UNCHANGED <<turn, attempt, batch, transcript>> /\ reply' = kind
  BY DEF AttemptFailed
<1>2. /\ LifecycleOK' /\ pending' \in Questions /\ pending'.answer = "none"
      /\ pc' = "done" \/ (pc' = "retrying" /\ attempt < MaxAttempts)
  <2>1. CASE kind = "retryable" /\ attempt < MaxAttempts
    <3>1. /\ pc' = "retrying" /\ interrupt' = FALSE
          /\ UNCHANGED <<state, cancelRequested, pending>>
      BY <2>1 DEF AttemptFailed
    <3> QED BY <2>1, <3>1 DEF TypeInv, TypeOK, LifecycleOK, LoopOK, Placement
  <2>2. CASE ~(kind = "retryable" /\ attempt < MaxAttempts)
    <3>1. Finish("failed")
      BY <2>2 DEF AttemptFailed
    <3> QED BY <3>1, FinishType DEF Terminal, TypeInv
  <2> QED BY <2>1, <2>2
<1>3. LoopOK' /\ BatchOK' /\ TranscriptOK'
  BY <1>1, <1>2 DEF TypeInv, TypeOK, LoopOK, BatchOK, TranscriptOK, batch, transcript
<1>4. Placement'
  BY <1>1, <1>2 DEF TypeInv, Placement
<1> QED BY <1>2, <1>3, <1>4 DEF TypeInv, TypeOK

(* The Host's calls. *)
LEMMA HostType ==
    ASSUME TypeInv, Host, MessagesOK'
    PROVE  TypeInv'
<1> USE RunAssumption
<1>1. ASSUME NEW q \in Queues, NEW m \in Texts[q], Enqueue(q, m)
      PROVE  TypeInv'
  <2>1. UNCHANGED <<lifecycle, pending, loop, batch, transcript>>
    BY <1>1 DEF Enqueue
  <2> QED
    BY <2>1 DEF TypeInv, TypeOK, LifecycleOK, LoopOK, BatchOK, TranscriptOK, Placement,
                lifecycle, loop, batch, transcript
<1>2. ASSUME pending.answer = "open", NEW ok \in BOOLEAN
      PROVE  Recorded(audit, <<Decision(turn, pending.call, ok)>>) \in Seq(Decisions)
  <2>1. pending.call \in 1..MaxCalls /\ turn \in 1..MaxTurns
    BY <1>2 DEF TypeInv, TypeOK, LoopOK, Placement, Questions
  <2>2. Decision(turn, pending.call, ok) \in Decisions
    BY <2>1 DEF Decision, Decisions
  <2>3. <<Decision(turn, pending.call, ok)>> \in Seq(Decisions) /\ audit \in Seq(Decisions)
    BY <2>2 DEF TypeInv, TypeOK, TranscriptOK
  <2> QED BY <2>3, RecordedType
<1>3. CASE Cancel
  <2>1. /\ UNCHANGED <<pc, state, loop, batch, session, history, request>>
        /\ cancelRequested' = TRUE /\ interrupt' = TRUE /\ pending' = NoRequest
        /\ audit' = IF pending.answer = "open"
                    THEN Recorded(audit, <<Decision(turn, pending.call, FALSE)>>)
                    ELSE audit
    BY <1>3 DEF Cancel
  <2>2. audit' \in Seq(Decisions)
    BY <1>2, <2>1 DEF TypeInv, TypeOK, TranscriptOK
  <2>3. LifecycleOK' /\ LoopOK' /\ BatchOK' /\ TranscriptOK'
    BY <2>1, <2>2 DEF TypeInv, TypeOK, LifecycleOK, LoopOK, BatchOK, TranscriptOK, loop,
                      batch, NoRequest, Questions
  <2>4. Placement'
    BY <2>1 DEF TypeInv, Placement, loop, batch, NoRequest
  <2> QED BY <2>3, <2>4 DEF TypeInv, TypeOK
<1>4. ASSUME NEW approved \in BOOLEAN, Resolve(approved)
      PROVE  TypeInv'
  <2>1. /\ UNCHANGED <<lifecycle, loop, batch, session, history, request>>
        /\ pending.answer = "open"
        /\ audit' = Recorded(audit, <<Decision(turn, pending.call, approved)>>)
        /\ pending' = [pending EXCEPT !.answer = IF approved THEN "approved" ELSE "denied"]
    BY <1>4 DEF Resolve
  <2>2. pending' \in Questions /\ pending'.call = pending.call
    BY <2>1 DEF TypeInv, TypeOK, LoopOK, Questions
  <2>3. LifecycleOK' /\ LoopOK' /\ BatchOK' /\ TranscriptOK'
    BY <1>2, <2>1, <2>2 DEF TypeInv, TypeOK, LifecycleOK, LoopOK, BatchOK, TranscriptOK,
                      lifecycle, loop, batch
  <2>4. Placement'
    BY <2>1, <2>2 DEF TypeInv, Placement, lifecycle, loop, batch
  <2> QED BY <2>3, <2>4 DEF TypeInv, TypeOK
<1> QED BY <1>1, <1>3, <1>4 DEF Host

(* The tools of a batch. *)
LEMMA ToolsType ==
    ASSUME TypeInv, Tools, MessagesOK'
    PROVE  TypeInv'
<1>1. PICK k \in 1..MaxCalls : ToolBegin(k) \/ ToolEnd(k)
  BY DEF Tools
<1>2. /\ pc \in {"batch", "joining"} /\ k \in DOMAIN tool
      /\ UNCHANGED <<lifecycle, pending, loop, calls, grant, batchMode, transcript>>
      /\ \E s \in {"running", "success", "error", "cancelled"} :
            tool' = [tool EXCEPT ![k] = s]
      /\ completion' = Append(completion, k) \/ completion' = completion
  BY <1>1 DEF ToolBegin, ToolEnd
<1>3. tool \in [1..Len(calls) -> {"waiting", "running", "success", "error", "cancelled"}]
  BY <1>2 DEF TypeInv, Placement
<1>4. tool' \in [1..Len(calls') -> {"waiting", "running", "success", "error", "cancelled"}]
  BY <1>2, <1>3
<1>5. k \in 1..Len(calls)
  BY <1>2, <1>3
<1>6. completion' \in Seq(1..Len(calls'))
  <2>1. completion \in Seq(1..Len(calls)) /\ calls' = calls
    BY <1>2 DEF TypeInv, TypeOK, BatchOK
  <2>2. Append(completion, k) \in Seq(1..Len(calls))
    BY <1>5, <2>1, AppendProperties
  <2> QED BY <1>2, <2>1, <2>2
<1>7. LifecycleOK' /\ LoopOK' /\ BatchOK' /\ TranscriptOK'
  BY <1>2, <1>4, <1>6 DEF TypeInv, TypeOK, LifecycleOK, LoopOK, BatchOK, TranscriptOK,
                          lifecycle, loop, transcript
<1>8. Placement'
  BY <1>2, <1>4 DEF TypeInv, Placement, lifecycle, loop
<1> QED BY <1>7, <1>8 DEF TypeInv, TypeOK

(* The worker up to its first request. *)
LEMMA ContextStepType ==
    ASSUME TypeInv, Start \/ NeverStarted \/ Compacted, MessagesOK'
    PROVE  TypeInv'
<1> USE RunAssumption
<1>1. CASE NeverStarted
  BY <1>1 DEF NeverStarted, TypeInv, TypeOK, LifecycleOK, LoopOK, BatchOK, TranscriptOK,
              Placement, loop, batch, transcript
<1>2. CASE Start \/ Compacted
  <2>1. /\ UNCHANGED <<history, batch, audit>> /\ turn' \in 1..MaxTurns
        /\ \E sent \in {session, Recorded(session, <<User(Prompt)>>)} :
              BuildContext(session, sent)
    BY <1>2 DEF Start, Compacted, BuildContext, TypeInv, TypeOK, LoopOK, Placement
  <2>2. session \in Seq(Entries) /\ history' \in Seq(Entries) /\ audit' \in Seq(Decisions)
    BY <2>1 DEF TypeInv, TypeOK, TranscriptOK
  <2>3. Recorded(session, <<User(Prompt)>>) \in Seq(Entries)
    <3>1. <<User(Prompt)>> \in Seq(Entries)
      BY EntryTypes
    <3> QED BY <2>2, <3>1, RecordedType
  <2>4. pending.answer = "none"
    BY <1>2 DEF Start, Compacted, TypeInv, Placement
  <2>5. /\ pc' \in {"opening", "compacting", "done"}
        /\ LifecycleOK' /\ LoopOK' /\ pending'.answer = "none"
        /\ session' \in Seq(Entries) /\ request' \in Seq(Entries)
    BY <2>1, <2>2, <2>3, <2>4, ContextType DEF TypeInv
  <2>6. BatchOK'
    BY <2>1 DEF TypeInv, TypeOK, BatchOK, batch
  <2> QED BY <2>1, <2>2, <2>5, <2>6 DEF TypeInv, TypeOK, TranscriptOK, Placement
<1> QED BY <1>1, <1>2

(* The provider attempt, up to an authoritative message. *)
LEMMA AttemptStepType ==
    ASSUME TypeInv, MessagesOK',
           \/ CompactionFails \/ CompactionAbandoned \/ Unwind
           \/ Opened \/ ReadDone \/ ReadLast \/ Retry
    PROVE  TypeInv'
<1>1. CASE Cancelled /\ pc \notin {"created", "dead"}
  BY <1>1, CancelledType
<1>2. CASE pc = "opening" /\ \E kind \in Failures : AttemptFailed(kind)
  BY <1>2, AttemptFailedType
<1>3. CASE /\ pc = "opening" /\ Suspend("reading")
           /\ UNCHANGED <<pending, loop, batch, transcript>>
  BY <1>3 DEF Suspend, TypeInv, TypeOK, LifecycleOK, LoopOK, BatchOK, TranscriptOK,
              Placement, loop, batch, transcript
<1>4. CASE ReadDone
  BY <1>4 DEF ReadDone, TypeInv, TypeOK, LifecycleOK, LoopOK, BatchOK, TranscriptOK,
              Placement, lifecycle, batch, transcript
<1>5. CASE ReadLast
  <2>1. PICK shown \in {"none", "done", "cancelled"} \cup Failures : CloseStream(shown)
    BY <1>5 DEF ReadLast, TypeInv, TypeOK, LoopOK
  <2>2. /\ pc = "reading" /\ pc' = "closing" /\ reply' = shown /\ interrupt' = FALSE
        /\ UNCHANGED <<state, cancelRequested, pending, turn, attempt, batch, transcript>>
    BY <1>5, <2>1 DEF ReadLast, CloseStream
  <2>3. LifecycleOK' /\ LoopOK' /\ BatchOK' /\ TranscriptOK'
    BY <2>2 DEF TypeInv, TypeOK, LifecycleOK, LoopOK, BatchOK, TranscriptOK, batch, transcript
  <2>4. Placement'
    BY <2>2 DEF TypeInv, Placement
  <2> QED BY <2>3, <2>4 DEF TypeInv, TypeOK
<1>6. CASE Retry /\ ~Cancelled
  <2>1. /\ pc = "retrying" /\ Suspend("opening") /\ attempt' = attempt + 1 /\ reply' = "none"
        /\ UNCHANGED <<pending, turn, batch, transcript>>
    BY <1>6 DEF Retry
  <2>2. attempt' \in 0..MaxAttempts
    BY <2>1, RunAssumption DEF TypeInv, TypeOK, LoopOK, Placement
  <2>3. LifecycleOK' /\ LoopOK' /\ BatchOK' /\ TranscriptOK'
    BY <2>1, <2>2 DEF Suspend, TypeInv, TypeOK, LifecycleOK, LoopOK, BatchOK, TranscriptOK,
                      batch, transcript
  <2>4. Placement'
    BY <2>1 DEF Suspend, TypeInv, Placement
  <2> QED BY <2>3, <2>4 DEF TypeInv, TypeOK
<1>7. Unwind => Cancelled /\ pc \notin {"created", "dead"}
  BY DEF Unwind, Cancelled
<1>8. CASE CompactionFails
  BY <1>8 DEF CompactionFails, Suspend, TypeInv, TypeOK, LifecycleOK, LoopOK, BatchOK,
              TranscriptOK, Placement, loop, batch, transcript
<1>9. CASE CompactionAbandoned
  <2>1. pc = "abandoning"
    BY <1>9 DEF CompactionAbandoned
  <2> QED BY <1>9, <2>1, EndedType DEF CompactionAbandoned, Terminal
<1> QED BY <1>1, <1>2, <1>3, <1>4, <1>5, <1>6, <1>7, <1>8, <1>9 DEF Opened, Retry

(* The end of a turn: what its result is for the types. *)
LEMMA RespondType ==
    ASSUME TypeInv, MessagesOK', pc = "closing", NEW cs \in Replies, Respond(cs)
    PROVE  TypeInv'
<1> USE RunAssumption
<1>1. turn \in 1..MaxTurns /\ pending.answer = "none"
  BY DEF TypeInv, TypeOK, LoopOK, Placement
<1> DEFINE log == Recorded(session, <<Assistant(turn, cs)>>)
           past == Append(history, Assistant(turn, cs))
<1>2. log \in Seq(Entries) /\ past \in Seq(Entries)
  <2>1. Assistant(turn, cs) \in Entries
    BY <1>1, EntryTypes
  <2>2. session \in Seq(Entries) /\ history \in Seq(Entries)
    BY DEF TypeInv, TypeOK, TranscriptOK
  <2>3. <<Assistant(turn, cs)>> \in Seq(Entries)
    BY <2>1
  <2>4. past \in Seq(Entries)
    BY <2>1, <2>2, AppendProperties
  <2> QED BY <2>2, <2>3, <2>4, RecordedType
<1>3. \/ NoBatch /\ Conclude(log, past) /\ UNCHANGED audit
      \/ /\ Authorise(cs, 1, [k \in 1..Len(cs) |-> "none"], audit)
         /\ session' = log /\ history' = past /\ UNCHANGED <<loop, request>>
  BY DEF Respond
<1> HIDE DEF log, past
<1>4. CASE NoBatch /\ Conclude(log, past) /\ UNCHANGED audit
  <2>1. /\ pc' \in {"opening", "compacting", "done"}
        /\ LifecycleOK'
        /\ LoopOK' /\ turn' \in 1..MaxTurns /\ pending'.answer = "none"
        /\ session' \in Seq(Entries) /\ history' \in Seq(Entries)
        /\ request' \in Seq(Entries)
    BY <1>1, <1>2, <1>4, ConcludeType DEF TypeInv
  <2>2. BatchOK'
    BY <1>4, NoBatchType
  <2>3. TranscriptOK'
    BY <1>4, <2>1 DEF TypeInv, TypeOK, TranscriptOK
  <2> QED BY <2>1, <2>2, <2>3 DEF TypeInv, TypeOK, Placement
<1>5. CASE /\ Authorise(cs, 1, [k \in 1..Len(cs) |-> "none"], audit)
           /\ session' = log /\ history' = past /\ UNCHANGED <<loop, request>>
  <2>1. /\ 1 \in 1..(Len(cs) + 1) /\ audit \in Seq(Decisions)
        /\ [k \in 1..Len(cs) |-> "none"] \in [1..Len(cs) -> {"none", "approved", "denied"}]
    BY RepliesType DEF TypeInv, TypeOK, TranscriptOK
  <2>2. /\ LifecycleOK' /\ BatchOK' /\ audit' \in Seq(Decisions)
        /\ pc' \in {"permission", "batch"} /\ pending' \in Questions
        /\ pending'.answer # "none" =>
              pc' = "permission" /\ pending'.call \in 1..Len(calls')
        /\ pc' = "batch" =>
              tool' \in [1..Len(calls') ->
                          {"waiting", "running", "success", "error", "cancelled"}]
    BY <1>1, <1>5, <2>1, AuthoriseType DEF TypeInv
  <2>3. LoopOK' /\ TranscriptOK'
    BY <1>2, <1>5, <2>2 DEF TypeInv, TypeOK, LoopOK, TranscriptOK, loop
  <2> QED BY <1>1, <1>5, <2>2, <2>3 DEF TypeInv, TypeOK, Placement, loop
<1> QED BY <1>3, <1>4, <1>5

(* An answered question, and the batch up to its end. *)
LEMMA AnsweredType ==
    ASSUME TypeInv, MessagesOK', Answered
    PROVE  TypeInv'
<1> USE RunAssumption
<1>1. /\ turn \in 1..MaxTurns /\ calls \in Replies
      /\ pending.call \in 1..Len(calls) /\ pending.answer \in {"approved", "denied"}
      /\ grant \in [1..Len(calls) -> {"none", "approved", "denied"}]
      /\ audit \in Seq(Decisions)
  BY DEF Answered, TypeInv, TypeOK, LoopOK, BatchOK, TranscriptOK, Placement
<1>2. /\ pending.call + 1 \in 1..(Len(calls) + 1)
      /\ [grant EXCEPT ![pending.call] = pending.answer]
           \in [1..Len(calls) -> {"none", "approved", "denied"}]
  <2>1. Len(calls) \in Nat
    BY <1>1, RepliesType
  <2> QED BY <1>1, <2>1
<1>3. /\ Authorise(calls, pending.call + 1,
                   [grant EXCEPT ![pending.call] = pending.answer], audit)
      /\ UNCHANGED <<loop, session, history, request>>
  BY DEF Answered
<1>4. /\ LifecycleOK' /\ BatchOK' /\ audit' \in Seq(Decisions)
      /\ pc' \in {"permission", "batch"} /\ pending' \in Questions
      /\ pending'.answer # "none" =>
            pc' = "permission" /\ pending'.call \in 1..Len(calls')
      /\ pc' = "batch" =>
            tool' \in [1..Len(calls') ->
                        {"waiting", "running", "success", "error", "cancelled"}]
  BY <1>1, <1>2, <1>3, AuthoriseType DEF TypeInv
<1>5. LoopOK' /\ TranscriptOK'
  BY <1>3, <1>4 DEF TypeInv, TypeOK, LoopOK, TranscriptOK, loop
<1> QED BY <1>1, <1>3, <1>4, <1>5 DEF TypeInv, TypeOK, Placement, loop

LEMMA BatchDoneType ==
    ASSUME TypeInv, MessagesOK', BatchDone
    PROVE  TypeInv'
<1> USE RunAssumption
<1>1. /\ pc = "batch" /\ turn \in 1..MaxTurns /\ pending.answer = "none"
      /\ calls \in Replies /\ completion \in Seq(1..Len(calls))
      /\ \A k \in DOMAIN tool : tool[k] \notin {"waiting", "running"}
      /\ tool \in [1..Len(calls) -> {"waiting", "running", "success", "error", "cancelled"}]
      /\ session \in Seq(Entries) /\ history \in Seq(Entries)
  BY DEF BatchDone, TypeInv, TypeOK, LoopOK, BatchOK, TranscriptOK, Placement
<1>2. Len(calls) \in 0..MaxCalls /\ DOMAIN calls = 1..Len(calls)
  BY <1>1, RepliesType
<1>3. \A k \in 1..Len(calls) : tool[k] \in Ended
  BY <1>1 DEF Ended
<1>4. PICK rejected \in Ascending({k \in DOMAIN calls : calls[k] = "rejected"}) :
        NextTurn(Recorded(Recorded(session, InOrderOf(completion \o rejected)), Users("steering")),
                 (history \o InOrderOf([k \in 1..Len(calls) |-> k])) \o Users("steering"))
  BY DEF BatchDone
<1>5. completion \o rejected \in Seq(1..Len(calls))
  <2> DEFINE S == {k \in DOMAIN calls : calls[k] = "rejected"}
  <2>1. S \in SUBSET (1..Len(calls))
    BY <1>2
  <2>2. rejected \in Ascending(S)
    BY <1>4
  <2> HIDE DEF S
  <2>3. rejected \in Seq(S)
    <3>1. Len(calls) \in Nat
      BY <1>2
    <3>2. \A n \in Nat : \A T \in SUBSET (1..n) : \A list \in Ascending(T) : list \in Seq(T)
      BY AscendingType
    <3> QED BY <2>1, <2>2, <3>1, <3>2
  <2>4. Len(rejected) \in Nat /\ rejected \in [1..Len(rejected) -> S]
    BY <2>3
  <2>5. rejected \in [1..Len(rejected) -> 1..Len(calls)]
    BY <2>1, <2>4
  <2>6. rejected \in Seq(1..Len(calls))
    BY <2>4, <2>5
  <2> QED BY <1>1, <2>6, ConcatProperties
<1>6. InOrderOf(completion \o rejected) \in Seq(Entries)
  BY <1>1, <1>2, <1>3, <1>5, ResultsType
<1>7. InOrderOf([k \in 1..Len(calls) |-> k]) \in Seq(Entries)
  <2> DEFINE all == [k \in 1..Len(calls) |-> k]
  <2>1. all \in [1..Len(calls) -> 1..Len(calls)] /\ Len(calls) \in Nat
    BY <1>2
  <2> HIDE DEF all
  <2>2. all \in Seq(1..Len(calls))
    BY <2>1
  <2>3. InOrderOf(all) \in Seq(Entries)
    BY <1>1, <1>2, <1>3, <2>2, ResultsType
  <2> QED BY <2>3 DEF all
<1>8. Users("steering") \in Seq(Entries)
  <2>1. queue \in Waiting /\ "steering" \in Queues
    BY DEF TypeInv, TypeOK, MessagesOK, Queues
  <2> QED BY <2>1, UsersType
<1>9. Recorded(Recorded(session, InOrderOf(completion \o rejected)), Users("steering"))
        \in Seq(Entries)
  <2>1. Recorded(session, InOrderOf(completion \o rejected)) \in Seq(Entries)
    BY <1>1, <1>6, RecordedType
  <2> QED BY <1>8, <2>1, RecordedType
<1>10. (history \o InOrderOf([k \in 1..Len(calls) |-> k])) \o Users("steering") \in Seq(Entries)
  <2>1. history \o InOrderOf([k \in 1..Len(calls) |-> k]) \in Seq(Entries)
    BY <1>1, <1>7, ConcatProperties
  <2> QED BY <1>8, <2>1, ConcatProperties
<1>11. /\ pc' \in {"opening", "compacting", "done"}
       /\ LifecycleOK'
       /\ LoopOK' /\ turn' \in 1..MaxTurns /\ pending'.answer = "none"
       /\ session' \in Seq(Entries) /\ history' \in Seq(Entries)
       /\ request' \in Seq(Entries)
  BY <1>1, <1>4, <1>9, <1>10, NextTurnType DEF TypeInv
<1>12. NoBatch /\ UNCHANGED audit
  BY DEF BatchDone
<1>13. BatchOK'
  BY <1>12, NoBatchType
<1>14. TranscriptOK'
  BY <1>11, <1>12 DEF TypeInv, TypeOK, TranscriptOK
<1> QED BY <1>11, <1>13, <1>14 DEF TypeInv, TypeOK, Placement

LEMMA BatchInterruptedType ==
    ASSUME TypeInv, MessagesOK', BatchInterrupted
    PROVE  TypeInv'
<1>1. /\ pc = "batch" /\ pc' = "joining" /\ interrupt' = FALSE
      /\ tool' = [k \in DOMAIN tool |-> IF tool[k] = "waiting" THEN "cancelled" ELSE tool[k]]
      /\ UNCHANGED <<state, cancelRequested, pending, loop, calls, grant, completion,
                     batchMode, transcript>>
  BY DEF BatchInterrupted
<1>2. tool' \in [1..Len(calls') -> {"waiting", "running", "success", "error", "cancelled"}]
  BY <1>1 DEF TypeInv, Placement
<1>3. LifecycleOK' /\ LoopOK' /\ BatchOK' /\ TranscriptOK'
  BY <1>1, <1>2 DEF TypeInv, TypeOK, LifecycleOK, LoopOK, BatchOK, TranscriptOK, loop, transcript
<1>4. Placement'
  BY <1>1, <1>2 DEF TypeInv, Placement, loop
<1> QED BY <1>3, <1>4 DEF TypeInv, TypeOK

LEMMA ClosedType ==
    ASSUME TypeInv, MessagesOK', Closed
    PROVE  TypeInv'
<1>1. pc = "closing"
  BY DEF Closed
<1>2. CASE Cancelled
  BY <1>1, <1>2, CancelledType
<1>3. CASE \E kind \in Failures : AttemptFailed(kind)
  BY <1>1, <1>3, AttemptFailedType
<1>4. CASE \E cs \in Replies : Respond(cs)
  BY <1>1, <1>4, RespondType
<1>5. CASE Finish("failed") /\ UNCHANGED <<messages, loop, batch, transcript>>
  BY <1>1, <1>5, EndedType DEF Terminal
<1> QED BY <1>2, <1>3, <1>4, <1>5 DEF Closed

LEMMA TypeInvInductive ==
    ASSUME TypeInv, QueueInv', [Next]_vars
    PROVE  TypeInv'
<1>1. MessagesOK'
  BY DEF QueueInv, MessagesOK
<1>2. CASE UNCHANGED vars
  BY <1>1, <1>2 DEF vars, lifecycle, messages, loop, batch, transcript, TypeInv, TypeOK,
                    LifecycleOK, LoopOK, BatchOK, TranscriptOK, Placement
<1>3. CASE Host
  BY <1>1, <1>3, HostType
<1>4. CASE Tools
  BY <1>1, <1>4, ToolsType
<1>5. CASE Worker
  <2>1. CASE Start \/ NeverStarted \/ Compacted
    BY <1>1, <2>1, ContextStepType
  <2>2. CASE \/ CompactionFails \/ CompactionAbandoned \/ Unwind
             \/ Opened \/ ReadDone \/ ReadLast \/ Retry
    BY <1>1, <2>2, AttemptStepType
  <2>3. CASE Closed
    BY <1>1, <2>3, ClosedType
  <2>4. CASE Answered
    BY <1>1, <2>4, AnsweredType
  <2>5. CASE BatchDone
    BY <1>1, <2>5, BatchDoneType
  <2>6. CASE BatchInterrupted
    BY <1>1, <2>6, BatchInterruptedType
  <2>7. CASE Joined
    BY <1>1, <2>7, CancelledType DEF Joined
  <2> QED BY <1>5, <2>1, <2>2, <2>3, <2>4, <2>5, <2>6, <2>7 DEF Worker
<1> QED BY <1>2, <1>3, <1>4, <1>5 DEF Next

LEMMA TypeInvHolds == Spec => []TypeInv
<1>1. Init => TypeInv
  <2> SUFFICES ASSUME Init PROVE TypeInv
    OBVIOUS
  <2>1. MessagesOK
    BY DEF Init, MessagesOK, Waiting, Queues, Empty
  <2>2. <<>> \in Replies
    BY RunAssumption DEF Replies
  <2>3. BatchOK
    BY <2>2 DEF Init, BatchOK
  <2>4. <<User(Prompt)>> \in Seq(Entries)
    BY EntryTypes
  <2>5. TranscriptOK
    BY <2>4 DEF Init, TranscriptOK
  <2>6. LifecycleOK /\ LoopOK
    <3>1. NoRequest \in Questions
      BY RunAssumption DEF NoRequest, Questions
    <3>2. LifecycleOK
      BY DEF Init, LifecycleOK
    <3> QED BY <3>1, <3>2, RunAssumption DEF Init, LoopOK
  <2>7. Placement
    BY DEF Init, Placement, NoRequest
  <2> QED BY <2>1, <2>3, <2>5, <2>6, <2>7 DEF TypeInv, TypeOK
<1>2. TypeInv /\ QueueInv' /\ [Next]_vars => TypeInv'
  BY TypeInvInductive
<1> QED BY <1>1, <1>2, QueueInvHolds, PTL DEF Spec

(* Every variable keeps its type; no run exceeds max_turns turns nor an       *)
(* attempt series max_attempts, whatever the Host, the provider and the tools *)
(* do.                                                                        *)
THEOREM TypeCorrect == Spec => []TypeOK
<1>1. TypeInv => TypeOK
  BY DEF TypeInv
<1> QED BY <1>1, TypeInvHolds, PTL

-----------------------------------------------------------------------------
(* The end of a run, and the contract *)

(* What is open, and where: a run has ended where its worker has, tools run  *)
(* only while the worker waits for them, a question is open only while it    *)
(* waits for the answer, and none is while an interrupt is on its way.       *)
QuietInv ==
    /\ state # "active" <=> pc = "done"
    /\ pc \notin {"batch", "joining"} => \A k \in DOMAIN tool : tool[k] # "running"
    /\ pending = NoRequest \/ pc = "permission"
    /\ interrupt => pending = NoRequest

LEMMA FinishQuiet ==
    ASSUME \A k \in DOMAIN tool' : tool'[k] # "running",
           NEW terminal \in Terminal, Finish(terminal)
    PROVE  QuietInv'
BY DEF QuietInv, Finish, Terminal

(* Making the next request, or failing to. *)
LEMMA NextTurnQuiet ==
    ASSUME QuietInv, pc \notin {"done", "permission"}, NEW log, NEW past, NextTurn(log, past),
           \A k \in DOMAIN tool' : tool'[k] # "running"
    PROVE  QuietInv'
<1>1. CASE Finish("failed")
  BY <1>1, FinishQuiet DEF Terminal
<1>2. CASE (Suspend("opening") \/ Suspend("compacting")) /\ UNCHANGED pending
  BY <1>2 DEF Suspend, QuietInv
<1> QED BY <1>1, <1>2 DEF NextTurn, BuildContext, ContextBuilt

LEMMA AuthoriseQuiet ==
    ASSUME QuietInv, pc # "done", ~interrupt, NEW cs, NEW first, NEW granted, NEW log,
           Authorise(cs, first, granted, log)
    PROVE  QuietInv'
<1>1. /\ UNCHANGED <<state, cancelRequested, interrupt>>
      /\ \/ pc' = "permission" /\ tool' = <<>>
         \/ pc' = "batch" /\ pending' = NoRequest
  BY DEF Authorise, Suspend
<1> QED BY <1>1 DEF QuietInv

LEMMA QuietInvInductive ==
    ASSUME QuietInv, [Next]_vars
    PROVE  QuietInv'
<1>1. CASE UNCHANGED vars
  BY <1>1 DEF vars, lifecycle, batch, QuietInv
<1>2. CASE Host
  <2>1. ASSUME NEW q \in Queues, NEW m \in Texts[q], Enqueue(q, m)
        PROVE  QuietInv'
    BY <2>1 DEF Enqueue, QuietInv, lifecycle, batch
  <2>2. CASE Cancel
    BY <2>2 DEF Cancel, QuietInv, batch
  <2>3. ASSUME NEW approved \in BOOLEAN, Resolve(approved)
        PROVE  QuietInv'
    <3>1. pending # NoRequest /\ UNCHANGED <<lifecycle, batch>>
      BY <2>3 DEF Resolve, NoRequest
    <3> QED BY <3>1 DEF QuietInv, lifecycle, batch
  <2> QED BY <1>2, <2>1, <2>2, <2>3 DEF Host
<1>3. CASE Tools
  BY <1>3 DEF Tools, ToolBegin, ToolEnd, QuietInv, lifecycle
<1>4. CASE Start \/ NeverStarted \/ Compacted
  <2>1. CASE NeverStarted
    BY <1>4, <2>1 DEF NeverStarted, QuietInv, batch
  <2>2. CASE Start \/ Compacted
    <3>1. /\ pc \notin {"done", "permission", "batch", "joining"} /\ tool' = tool
          /\ \/ Finish("failed")
             \/ (Suspend("opening") \/ Suspend("compacting")) /\ UNCHANGED pending
      BY <2>2 DEF Start, Compacted, BuildContext, ContextBuilt, batch
    <3>2. \A k \in DOMAIN tool' : tool'[k] # "running"
      BY <3>1 DEF QuietInv
    <3> QED BY <3>1, <3>2, FinishQuiet DEF Terminal, Suspend, QuietInv
  <2> QED BY <1>4, <2>1, <2>2
<1>5. ASSUME Cancelled, pc \in {"compacting", "opening", "retrying", "permission", "closing"}
      PROVE  QuietInv'
  <2>1. \A k \in DOMAIN tool' : tool'[k] # "running"
    BY <1>5 DEF Cancelled, batch, QuietInv
  <2> QED BY <1>5, <2>1, FinishQuiet DEF Cancelled, Terminal
<1>6. ASSUME NEW kind \in Failures, AttemptFailed(kind), pc \in {"opening", "closing"}
      PROVE  QuietInv'
  <2>1. \A k \in DOMAIN tool' : tool'[k] # "running"
    BY <1>6 DEF AttemptFailed, batch, QuietInv
  <2> QED BY <1>6, <2>1, FinishQuiet DEF AttemptFailed, Terminal, QuietInv
<1>7. CASE Unwind \/ Opened \/ ReadDone \/ ReadLast \/ Retry
  <2>1. CASE Unwind
    BY <2>1, <1>5 DEF Unwind, Cancelled
  <2>2. CASE Opened
    BY <2>2, <1>5, <1>6 DEF Opened, Suspend, QuietInv, batch
  <2>3. CASE ReadDone \/ ReadLast
    BY <2>3 DEF ReadDone, ReadLast, CloseStream, QuietInv, lifecycle, batch
  <2>4. CASE Retry
    BY <2>4, <1>5 DEF Retry, Suspend, QuietInv, batch
  <2> QED BY <1>7, <2>1, <2>2, <2>3, <2>4
<1>8. CASE Closed
  <2>1. CASE Cancelled \/ \E kind \in Failures : AttemptFailed(kind)
    BY <1>5, <1>6, <1>8, <2>1 DEF Closed
  <2>2. CASE Finish("failed") /\ UNCHANGED <<messages, loop, batch, transcript>>
    <3>1. \A k \in DOMAIN tool' : tool'[k] # "running"
      BY <1>8, <2>2 DEF Closed, batch, QuietInv
    <3> QED BY <2>2, <3>1, FinishQuiet DEF Terminal
  <2>3. ASSUME ~interrupt, NEW cs \in Replies, Respond(cs)
        PROVE  QuietInv'
    <3>1. pc = "closing"
      BY <1>8 DEF Closed
    <3>2. CASE NoBatch
      <4>1. \A k \in DOMAIN tool' : tool'[k] # "running"
        BY <3>2 DEF NoBatch
      <4>2. CASE Finish("settled")
        BY <4>1, <4>2, FinishQuiet DEF Terminal
      <4>3. ASSUME NEW log, NEW past, NextTurn(log, past)
            PROVE  QuietInv'
        BY <3>1, <4>1, <4>3, NextTurnQuiet
      <4>4. CASE \E log, past : Conclude(log, past)
        BY <4>2, <4>3, <4>4 DEF Conclude
      <4>5. CASE \E first, granted, log : Authorise(cs, first, granted, log)
        BY <2>3, <3>1, <4>5, AuthoriseQuiet
      <4> QED BY <2>3, <4>4, <4>5 DEF Respond
    <3>3. CASE ~NoBatch
      BY <2>3, <3>1, <3>3, AuthoriseQuiet DEF Respond
    <3> QED BY <3>2, <3>3
  <2> QED BY <1>8, <2>1, <2>2, <2>3 DEF Closed
<1>9. CASE Answered
  BY <1>9, AuthoriseQuiet DEF Answered
<1>10. CASE BatchDone
  <2>1. pc = "batch" /\ \A k \in DOMAIN tool' : tool'[k] # "running"
    BY <1>10 DEF BatchDone, NoBatch
  <2>2. \E log, past : NextTurn(log, past)
    BY <1>10 DEF BatchDone
  <2> QED BY <2>1, <2>2, NextTurnQuiet
<1>11. CASE BatchInterrupted
  BY <1>11 DEF BatchInterrupted, QuietInv
<1>12. CASE Joined
  <2>1. \A k \in DOMAIN tool' : tool'[k] # "running"
    BY <1>12 DEF Joined, Cancelled, batch
  <2> QED BY <1>12, <2>1, FinishQuiet DEF Joined, Cancelled, Terminal
<1>13. CASE CompactionFails
  BY <1>13 DEF CompactionFails, Suspend, QuietInv, batch
<1>14. CASE CompactionAbandoned
  <2>1. \A k \in DOMAIN tool' : tool'[k] # "running"
    BY <1>14 DEF CompactionAbandoned, batch, QuietInv
  <2> QED BY <1>14, <2>1, FinishQuiet DEF CompactionAbandoned, Terminal
<1> QED
  BY <1>1, <1>2, <1>3, <1>4, <1>7, <1>8, <1>9, <1>10, <1>11, <1>12, <1>13, <1>14
     DEF Next, Worker

LEMMA QuietInvHolds == Spec => []QuietInv
<1>1. Init => QuietInv
  BY DEF Init, QuietInv
<1>2. QuietInv /\ [Next]_vars => QuietInv'
  BY QuietInvInductive
<1> QED BY <1>1, <1>2, PTL DEF Spec

(* When a run has ended, however it did, no tool of it still runs and no     *)
(* question of it is open.                                                   *)
THEOREM EndedRunsAreQuiet == Spec => []TerminalQuiescent
<1>1. QuietInv => TerminalQuiescent
  BY DEF QuietInv, TerminalQuiescent
<1> QED BY <1>1, QuietInvHolds, PTL

(* How the worker looks from the Host: it delivers a whole queue or none,    *)
(* steering first, and leaves no question without an answer behind.          *)
LEMMA WorkerAdvances ==
    ASSUME Worker, QuietInv, QueueInv
    PROVE  /\ state = "active" /\ pending.answer # "open"
           /\ UNCHANGED cancelRequested
           /\ state' \in {"active", "settled", "cancelled", "failed"}
           /\ pending'.answer \in {"none", "open"}
           /\ state' # "active" => pending'.answer = "none"
           /\ state' = "settled" => queue' = Empty
           /\ \/ UNCHANGED messages
              \/ Drain("steering")
              \/ Drain("follow_up") /\ queue["steering"] = <<>>
<1>1. pc # "done" /\ state = "active"
  BY DEF QuietInv, Worker, Start, NeverStarted, Compacted, CompactionFails,
         CompactionAbandoned, Unwind, Opened, ReadDone, ReadLast,
         Closed, Retry, Answered, BatchDone, BatchInterrupted, Joined
<1>2. NoRequest.answer = "none"
  BY DEF NoRequest
<1>3. pending.answer # "open"
  <2>1. CASE pc # "permission" \/ interrupt
    BY <1>2, <2>1 DEF QuietInv
  <2>2. CASE pc = "permission" /\ ~interrupt
    BY <2>2 DEF Worker, Start, NeverStarted, Compacted, CompactionFails,
         CompactionAbandoned, Unwind, Opened, ReadDone, ReadLast,
                Closed, Retry, Answered, BatchDone, BatchInterrupted, Joined
  <2> QED BY <2>1, <2>2
<1> DEFINE Ends(terminal) == /\ state' = terminal /\ pending'.answer = "none"
                             /\ UNCHANGED cancelRequested
           GoesOn == /\ state' = "active" /\ pending'.answer \in {"none", "open"}
                     /\ UNCHANGED cancelRequested
<1>4. \A terminal : Finish(terminal) => Ends(terminal)
  BY <1>2 DEF Finish
<1>5. pc # "permission" => \A where : Suspend(where) /\ UNCHANGED pending => GoesOn
  BY <1>1, <1>2 DEF Suspend, QuietInv
<1>6. \A log, sent : pc # "permission" /\ BuildContext(log, sent) => GoesOn \/ Ends("failed")
  BY <1>4, <1>5 DEF BuildContext, ContextBuilt
<1>7. \A log, past : pc # "permission" /\ NextTurn(log, past) => GoesOn \/ Ends("failed")
  BY <1>4, <1>6 DEF NextTurn
<1>8. \A cs, first, granted, log : Authorise(cs, first, granted, log) => GoesOn
  BY <1>1, <1>2 DEF Authorise, Suspend
<1>9. CASE Start \/ NeverStarted \/ Compacted
  <2>1. pc # "permission" /\ UNCHANGED messages
    BY <1>9 DEF Start, NeverStarted, Compacted
  <2>2. GoesOn \/ Ends("failed")
    BY <1>1, <1>2, <1>6, <1>9 DEF Start, NeverStarted, Compacted, BuildContext, QuietInv
  <2> QED BY <1>1, <1>3, <2>1, <2>2
<1>10. Cancelled => Ends("cancelled") /\ UNCHANGED messages
  BY <1>4 DEF Cancelled
<1>11. \A kind : pc # "permission" /\ AttemptFailed(kind)
                   => (GoesOn \/ Ends("failed")) /\ UNCHANGED messages
  BY <1>1, <1>2, <1>4 DEF AttemptFailed, QuietInv
<1>12. CASE \/ CompactionFails \/ CompactionAbandoned \/ Unwind
             \/ Opened \/ ReadDone \/ ReadLast \/ Retry \/ BatchInterrupted \/ Joined
  <2>1. CASE Unwind \/ Joined
    BY <1>1, <1>3, <1>4, <2>1 DEF Unwind, Joined, Cancelled
  <2>2. CASE Opened
    BY <1>1, <1>3, <1>5, <1>10, <1>11, <2>2 DEF Opened
  <2>3. CASE ReadDone \/ ReadLast \/ BatchInterrupted
    <3>1. /\ pc # "permission" /\ UNCHANGED <<state, cancelRequested, pending, messages>>
      BY <2>3 DEF ReadDone, ReadLast, CloseStream, BatchInterrupted, lifecycle
    <3> QED BY <1>1, <1>2, <1>3, <3>1 DEF QuietInv
  <2>4. CASE Retry
    BY <1>1, <1>3, <1>5, <1>10, <2>4 DEF Retry
  <2>5. CASE CompactionFails
    BY <1>1, <1>3, <1>5, <2>5 DEF CompactionFails
  <2>6. CASE CompactionAbandoned
    BY <1>1, <1>3, <1>4, <2>6 DEF CompactionAbandoned
  <2> QED BY <1>12, <2>1, <2>2, <2>3, <2>4, <2>5, <2>6
<1>13. CASE BatchDone
  <2>1. pc # "permission" /\ Drain("steering") /\ \E log, past : NextTurn(log, past)
    BY <1>13 DEF BatchDone
  <2> QED BY <1>1, <1>3, <1>7, <2>1
<1>14. CASE Answered
  BY <1>1, <1>3, <1>8, <1>14 DEF Answered
<1>15. CASE Closed
  <2>1. pc # "permission"
    BY <1>15 DEF Closed
  <2>2. CASE Cancelled \/ \E kind \in Failures : AttemptFailed(kind)
    BY <1>1, <1>3, <1>10, <1>11, <2>1, <2>2
  <2>3. CASE Finish("failed") /\ UNCHANGED messages
    BY <1>1, <1>3, <1>4, <2>3
  <2>4. ASSUME NEW cs \in Replies, Respond(cs)
        PROVE  \/ GoesOn /\ UNCHANGED messages
               \/ \E log, past : Conclude(log, past)
    BY <1>8, <2>4 DEF Respond
  <2>5. ASSUME NEW log, NEW past, Conclude(log, past)
        PROVE  \/ /\ GoesOn \/ Ends("failed")
                  /\ \/ Drain("steering")
                     \/ Drain("follow_up") /\ queue["steering"] = <<>>
               \/ Ends("settled") /\ UNCHANGED messages /\ queue = Empty
    BY <1>4, <1>7, <2>1, <2>5 DEF Conclude
  <2>6. UNCHANGED messages => queue' = queue
    BY DEF messages
  <2> QED BY <1>1, <1>3, <1>15, <2>2, <2>3, <2>4, <2>5, <2>6 DEF Closed
<1> QED BY <1>9, <1>12, <1>13, <1>14, <1>15 DEF Worker

(* Delivering a queue is a step of the contract. *)
LEMMA AdvanceImplemented ==
    ASSUME Worker, QuietInv, QueueInv
    PROVE  Promise!ContractNext
<1>1. /\ state = "active" /\ pending.answer # "open"
      /\ UNCHANGED cancelRequested
      /\ state' \in {"active", "settled", "cancelled", "failed"}
      /\ pending'.answer \in {"none", "open"}
      /\ state' # "active" => pending'.answer = "none"
      /\ state' = "settled" => queue' = Empty
      /\ \/ UNCHANGED messages
         \/ Drain("steering")
         \/ Drain("follow_up") /\ queue["steering"] = <<>>
  BY WorkerAdvances
<1>2. queue \in Waiting /\ injected \in Waiting
  BY DEF QueueInv
<1>3. ASSUME NEW drained \in {{}, {"steering"}, {"follow_up"}},
             "follow_up" \in drained => queue["steering"] = <<>>,
             injected' = [q \in Queues |->
                            IF q \in drained THEN injected[q] \o queue[q] ELSE injected[q]],
             queue' = [q \in Queues |-> IF q \in drained THEN <<>> ELSE queue[q]],
             UNCHANGED <<accepted, dropped>>
      PROVE  Promise!ContractNext
  <2>1. Promise!Advance(drained)
    BY <1>1, <1>3 DEF Promise!Advance, Promise!Queues, Promise!Empty, Queues, Empty
  <2> QED BY <2>1 DEF Promise!ContractNext
<1>4. CASE UNCHANGED messages
  <2>1. /\ injected' = [q \in Queues |->
                          IF q \in {} THEN injected[q] \o queue[q] ELSE injected[q]]
        /\ queue' = [q \in Queues |-> IF q \in {} THEN <<>> ELSE queue[q]]
    BY <1>2, <1>4 DEF messages, Waiting
  <2> QED BY <1>3, <1>4, <2>1 DEF messages
<1>5. ASSUME NEW r \in Queues, Drain(r), r = "follow_up" => queue["steering"] = <<>>
      PROVE  Promise!ContractNext
  <2>1. /\ injected' = [q \in Queues |->
                          IF q \in {r} THEN injected[q] \o queue[q] ELSE injected[q]]
        /\ queue' = [q \in Queues |-> IF q \in {r} THEN <<>> ELSE queue[q]]
        /\ UNCHANGED <<accepted, dropped>>
    BY <1>2, <1>5 DEF Drain, Waiting
  <2> QED BY <1>3, <1>5, <2>1 DEF Queues
<1> QED BY <1>1, <1>4, <1>5 DEF Queues

(* Every behaviour of the run, seen from the Host, is one of the contract:   *)
(* accepted messages are delivered or dropped in order, steering before      *)
(* follow-ups, one question at a time, and an ended run does nothing more.   *)
THEOREM RunKeepsContract == Spec => Contract
<1>1. Init => Promise!ContractInit
  BY DEF Init, Promise!ContractInit, Promise!Queues, Promise!Empty, Queues, Empty, NoRequest
<1>2. ASSUME QuietInv, QueueInv, [Next]_vars
      PROVE  [Promise!ContractNext]_(Promise!contractVars)
  <2>1. CASE UNCHANGED vars
    BY <2>1 DEF vars, lifecycle, messages, Promise!contractVars
  <2>2. ASSUME NEW q \in Queues, NEW m \in Texts[q], Enqueue(q, m)
        PROVE  Promise!ContractNext
    <3>1. Promise!Accept(q, m)
      BY <2>2 DEF Enqueue, lifecycle, ToSet, Promise!Accept, Promise!ToSet
    <3> QED BY <3>1 DEF Promise!ContractNext, Promise!Queues, Promise!Texts, Queues, Texts
  <2>3. CASE Cancel
    <3>1. Promise!Withdraw
      BY <2>3 DEF Cancel, NoRequest, Promise!Withdraw, Promise!Queues, Promise!Empty,
                  Queues, Empty
    <3> QED BY <3>1 DEF Promise!ContractNext
  <2>4. ASSUME NEW approved \in BOOLEAN, Resolve(approved)
        PROVE  Promise!ContractNext
    <3>1. pending'.answer \in {"approved", "denied"}
      BY <2>4 DEF Resolve
    <3>2. Promise!Answer
      BY <2>4, <3>1 DEF Resolve, lifecycle, messages, Promise!Answer
    <3> QED BY <3>2 DEF Promise!ContractNext
  <2>5. CASE Worker
    BY <1>2, <2>5, AdvanceImplemented
  <2>6. CASE Tools
    BY <2>6 DEF Tools, ToolBegin, ToolEnd, lifecycle, messages, Promise!contractVars
  <2> QED BY <1>2, <2>1, <2>2, <2>3, <2>4, <2>5, <2>6 DEF Next, Host
<1> QED
  BY <1>1, <1>2, QuietInvHolds, QueueInvHolds, PTL DEF Spec, Contract, Promise!Contract
-----------------------------------------------------------------------------
(* Cancellation, where the retry delay is raced against it *)

(* Once the Host has cancelled, the interrupt is still on its way, or the    *)
(* worker is where it can only end.                                          *)
CancelInv ==
    cancelRequested =>
        \/ interrupt
        \/ pc \in {"abandoning", "retrying", "joining", "done", "dead"}
        \/ pc = "closing" /\ reply = "cancelled"

LEMMA CancelInvInductive ==
    ASSUME RetryDelay, CancelInv, [Next]_vars
    PROVE  CancelInv'
<1> USE DEF CancelInv
<1>1. CASE UNCHANGED vars
  BY <1>1 DEF vars, lifecycle, loop
<1>2. CASE Host \/ Tools
  <2>1. CASE Cancel
    BY <2>1 DEF Cancel
  <2>2. CASE UNCHANGED <<lifecycle, loop>>
    BY <2>2 DEF lifecycle, loop
  <2> QED BY <1>2, <2>1, <2>2 DEF Host, Enqueue, Resolve, Tools, ToolBegin, ToolEnd
<1>3. Cancelled => CancelInv'
  BY DEF Cancelled, Finish
<1>4. ASSUME NEW kind, AttemptFailed(kind) PROVE CancelInv'
  BY <1>4 DEF AttemptFailed, Finish
<1>5. CASE ~cancelRequested /\ UNCHANGED cancelRequested
  BY <1>5
<1>6. CASE NeverStarted \/ Unwind \/ BatchInterrupted \/ Joined
  BY <1>3, <1>6 DEF NeverStarted, Unwind, BatchInterrupted, Joined, Finish
<1>11. CASE CompactionAbandoned
  BY <1>11 DEF CompactionAbandoned, Finish
<1>7. CASE Start \/ Compacted \/ CompactionFails \/ Opened \/ Answered \/ BatchDone
  <2>1. ~interrupt /\ pc \in {"created", "compacting", "opening", "permission", "batch"}
    BY <1>7 DEF Start, Compacted, CompactionFails, Opened, Answered, BatchDone
  <2>2. UNCHANGED cancelRequested
    BY <1>7 DEF Start, Compacted, CompactionFails, Opened, Answered, BatchDone, BuildContext, ContextBuilt,
                NextTurn, Suspend, Finish, Authorise, AttemptFailed, Cancelled
  <2> QED BY <1>5, <2>1, <2>2
<1>8. CASE ReadDone \/ ReadLast
  BY <1>8 DEF ReadDone, ReadLast, CloseStream, lifecycle
<1>9. CASE Retry
  BY <1>3, <1>9 DEF Retry, Suspend
<1>10. CASE Closed
  <2>1. CASE Cancelled \/ \E kind \in Failures : AttemptFailed(kind)
    BY <1>3, <1>4, <2>1
  <2>2. CASE Finish("failed")
    BY <2>2 DEF Finish
  <2>3. ASSUME reply = "done", ~interrupt, NEW cs \in Replies, Respond(cs)
        PROVE  CancelInv'
    <3>1. pc = "closing"
      BY <1>10 DEF Closed
    <3>2. UNCHANGED cancelRequested
      BY <2>3 DEF Respond, Conclude, Authorise, NextTurn, BuildContext, ContextBuilt, Suspend,
                  Finish
    <3> QED BY <1>5, <2>3, <3>1, <3>2
  <2> QED BY <1>10, <2>1, <2>2, <2>3 DEF Closed
<1> QED
  BY <1>1, <1>2, <1>6, <1>7, <1>8, <1>9, <1>10, <1>11 DEF Next, Worker

(* Finding 2 needs a zero retry delay. With a positive one a cancelled run   *)
(* asks the provider nothing more, and is stranded only if its worker had    *)
(* not begun.                                                                *)
THEOREM CancelStopsRequests ==
    ASSUME RetryDelay
    PROVE  Spec => NoRequestAfterCancel /\ [](Stranded => pc = "dead")
<1>1. Init => CancelInv
  BY DEF Init, CancelInv
<1>2. CancelInv /\ [Next]_vars => CancelInv'
  BY CancelInvInductive
<1>3. ASSUME CancelInv, [Next]_vars, pc # "opening", pc' = "opening"
      PROVE  ~cancelRequested
  <2>1. CASE UNCHANGED lifecycle
    BY <1>3, <2>1 DEF lifecycle
  <2>2. CASE Host \/ Tools \/ NeverStarted \/ Unwind \/ BatchInterrupted \/ Joined
             \/ ReadDone \/ ReadLast \/ CompactionFails \/ CompactionAbandoned
    <3>1. pc' = pc \/ pc' \in {"dead", "done", "joining", "closing", "abandoning"}
      BY <2>2 DEF CompactionFails, CompactionAbandoned, Suspend, Host, Enqueue, Cancel, Resolve, Tools, ToolBegin, ToolEnd, NeverStarted, Unwind,
                  BatchInterrupted, Joined, Cancelled, Finish, ReadDone, ReadLast, CloseStream,
                  lifecycle
    <3> QED BY <1>3, <3>1
  <2>3. CASE Start \/ Compacted \/ Opened \/ Answered \/ BatchDone
    <3>1. ~interrupt /\ pc \in {"created", "compacting", "opening", "permission", "batch"}
      BY <2>3 DEF Start, Compacted, Opened, Answered, BatchDone
    <3> QED BY <1>3, <3>1 DEF CancelInv
  <2>4. CASE Retry
    BY <1>3, <2>4 DEF Retry, Cancelled, Finish
  <2>5. CASE Closed
    <3>1. CASE \E cs \in Replies : reply = "done" /\ ~interrupt /\ Respond(cs)
      BY <1>3, <2>5, <3>1 DEF Closed, CancelInv
    <3>2. CASE ~\E cs \in Replies : reply = "done" /\ ~interrupt /\ Respond(cs)
      BY <1>3, <2>5, <3>2 DEF Closed, Cancelled, AttemptFailed, Finish
    <3> QED BY <3>1, <3>2
  <2> QED BY <1>3, <2>1, <2>2, <2>3, <2>4, <2>5 DEF Next, Worker, vars
<1>4. CancelInv /\ [Next]_vars => [pc # "opening" /\ pc' = "opening" => ~cancelRequested]_vars
  BY <1>3
<1>5. CancelInv /\ QuietInv => (Stranded => pc = "dead")
  BY DEF CancelInv, QuietInv, Stranded, NoRequest
<1> QED BY <1>1, <1>2, <1>4, <1>5, QuietInvHolds, PTL DEF Spec, NoRequestAfterCancel

-----------------------------------------------------------------------------
(* The work a run has left *)

LEMMA UnfinishedCount ==
    ASSUME BatchOK, NEW marks
    PROVE  /\ IsFiniteSet(Unfinished(marks))
           /\ Cardinality(Unfinished(marks)) \in 0..MaxCalls
<1>1. Len(calls) \in 0..MaxCalls /\ MaxCalls \in Nat
  BY RepliesType, RunAssumption DEF BatchOK
<1>2. Unfinished(marks) \subseteq 1..Len(calls)
  <2>1. DOMAIN tool = 1..Len(calls) \/ DOMAIN tool = {}
    BY DEF BatchOK
  <2> QED BY <2>1 DEF Unfinished
<1>3. IsFiniteSet(1..Len(calls)) /\ Cardinality(1..Len(calls)) = Len(calls)
  <2>1. \A n \in Nat : IsFiniteSet(1..n) /\ Cardinality(1..n) = n
    BY FS_Interval
  <2> QED BY <1>1, <2>1
<1>4. /\ IsFiniteSet(Unfinished(marks))
      /\ Cardinality(Unfinished(marks)) <= Len(calls)
  BY <1>2, <1>3, FS_Subset
<1> QED BY <1>1, <1>4, FS_CardinalityType

ToolWork == Cardinality(Unfinished({"waiting"}))
                + Cardinality(Unfinished({"waiting", "running"}))

(* A turn's work is a number, at most PerTurn, and not 0 before the end. *)
WorkBounds ==
    /\ ToolWork \in 0..(2 * MaxCalls)
    /\ TurnWork \in 0..PerTurn
    /\ pc \notin {"done", "dead"} => TurnWork > 0
    /\ turn \in 0..MaxTurns

LEMMA WorkBounded == TypeInv => WorkBounds
<1> SUFFICES ASSUME TypeInv PROVE WorkBounds
  OBVIOUS
<1>1. ToolWork \in 0..(2 * MaxCalls)
  BY UnfinishedCount, RunAssumption DEF ToolWork, TypeInv, TypeOK
<1>2. /\ MaxCalls \in Nat /\ MaxAttempts \in Nat \ {0} /\ attempt \in 0..MaxAttempts
      /\ pending.call \in 0..MaxCalls /\ interrupt \in BOOLEAN /\ turn \in 0..MaxTurns
  BY RunAssumption DEF TypeInv, TypeOK, LoopOK, LifecycleOK, Questions
<1>3. TurnWork \in Nat /\ TurnWork <= PerTurn /\ PerTurn \in Nat
  <2>1. PerTurn \in Nat
    BY <1>2 DEF PerTurn
  <2>2. TurnWork \in Nat
    BY <1>1, <1>2, <2>1 DEF TurnWork, ToolWork
  <2>3. TurnWork <= PerTurn
    BY <1>1, <1>2 DEF TurnWork, ToolWork, PerTurn
  <2> QED BY <2>1, <2>2, <2>3
<1>4. pc \notin {"done", "dead"} => TurnWork > 0
  BY <1>1, <1>2 DEF TurnWork, ToolWork, PerTurn, TypeInv, TypeOK, LifecycleOK
<1> QED BY <1>1, <1>2, <1>3, <1>4 DEF WorkBounds

LEMMA WorkBoundedNext == TypeInv' => WorkBounds'
BY WorkBounded, PTL

(* A tool that begins or ends takes its call off what is unfinished. *)
LEMMA ToolWorkShrinks ==
    ASSUME BatchOK, BatchOK', NEW k \in DOMAIN tool, UNCHANGED calls,
           NEW mark \in {"running", "success", "error", "cancelled"},
           tool[k] = "waiting" \/ (tool[k] = "running" /\ mark # "running"),
           tool \in [1..Len(calls) -> {"waiting", "running", "success", "error", "cancelled"}],
           tool' = [tool EXCEPT ![k] = mark]
    PROVE  ToolWork' < ToolWork
<1> DEFINE W == Unfinished({"waiting"})
           U == Unfinished({"waiting", "running"})
<1>1. /\ IsFiniteSet(W) /\ IsFiniteSet(U) /\ Cardinality(W) \in Nat /\ Cardinality(U) \in Nat
      /\ ToolWork = Cardinality(W) + Cardinality(U)
      /\ ToolWork' = Cardinality(W') + Cardinality(U')
  BY UnfinishedCount, RunAssumption DEF ToolWork
<1>2. DOMAIN tool' = DOMAIN tool
  OBVIOUS
<1>3. CASE tool[k] = "waiting"
  <2>1. k \in W /\ W' = W \ {k} /\ U' \subseteq U
    BY <1>2, <1>3 DEF Unfinished
  <2>2. Cardinality(W') = Cardinality(W) - 1
    BY <1>1, <2>1, FS_RemoveElement
  <2>3. Cardinality(U') <= Cardinality(U) /\ Cardinality(U') \in Nat
    BY <1>1, <2>1, FS_Subset, FS_CardinalityType
  <2> QED BY <1>1, <2>2, <2>3
<1>4. CASE tool[k] = "running" /\ mark # "running"
  <2>1. k \in U /\ U' = U \ {k} /\ W' \subseteq W
    BY <1>2, <1>4 DEF Unfinished
  <2>2. Cardinality(U') = Cardinality(U) - 1
    BY <1>1, <2>1, FS_RemoveElement
  <2>3. Cardinality(W') <= Cardinality(W) /\ Cardinality(W') \in Nat
    BY <1>1, <2>1, FS_Subset, FS_CardinalityType
  <2> QED BY <1>1, <2>2, <2>3
<1> QED BY <1>3, <1>4

(* Numbers that the steps are measured with. *)
Measured ==
    /\ MaxCalls \in Nat /\ MaxAttempts \in Nat \ {0}
    /\ attempt \in 0..MaxAttempts
    /\ pending.call \in 0..MaxCalls
    /\ interrupt \in BOOLEAN
    /\ ToolWork \in 0..(2 * MaxCalls)

LEMMA TypesMeasured == TypeInv => Measured
BY WorkBounded, RunAssumption
   DEF WorkBounds, Measured, TypeInv, TypeOK, LoopOK, LifecycleOK, Questions

LEMMA TypesMeasuredNext == TypeInv' => Measured'
BY TypesMeasured, PTL

LEMMA ToolsShrinkWork ==
    ASSUME TypeInv, TypeInv', NEW k \in 1..MaxCalls, ToolBegin(k) \/ ToolEnd(k)
    PROVE  turn' = turn /\ TurnWork' < TurnWork
<1>1. /\ pc \in {"batch", "joining"} /\ pc' = pc /\ turn' = turn
      /\ k \in DOMAIN tool /\ UNCHANGED calls
  BY DEF ToolBegin, ToolEnd, lifecycle, loop
<1>2. \E mark \in {"running", "success", "error", "cancelled"} :
         /\ tool[k] = "waiting" \/ (tool[k] = "running" /\ mark # "running")
         /\ tool' = [tool EXCEPT ![k] = mark]
  BY DEF ToolBegin, ToolEnd
<1>3. /\ BatchOK /\ BatchOK'
      /\ tool \in [1..Len(calls) -> {"waiting", "running", "success", "error", "cancelled"}]
  BY <1>1 DEF TypeInv, TypeOK, Placement
<1>4. ToolWork' < ToolWork
  BY <1>1, <1>2, <1>3, ToolWorkShrinks
<1>5. TurnWork' < TurnWork
  BY <1>1, <1>4, TypesMeasured, TypesMeasuredNext DEF Measured, TurnWork, ToolWork
<1> QED BY <1>1, <1>5

(* A step that keeps the turn and takes work off it. *)
Lessens == turn' = turn /\ TurnWork' < TurnWork

(* A step that begins a turn, the first one or one there is a reason for. *)
OpensTurn == turn' = turn + 1 /\ (turn = 0 \/ pc = "batch" \/ injected' # injected)

LEMMA EndLessens ==
    ASSUME WorkBounds, pc \notin {"done", "dead"}, pc' \in {"done", "dead"}, turn' = turn
    PROVE  Lessens
<1>1. TurnWork' = 0
  BY DEF TurnWork
<1> QED BY <1>1 DEF WorkBounds, Lessens

LEMMA FinishLessens ==
    ASSUME WorkBounds, pc \notin {"done", "dead"}, NEW terminal, Finish(terminal), turn' = turn
    PROVE  Lessens
BY EndLessens DEF Finish

LEMMA AttemptLessens ==
    ASSUME WorkBounds, Measured, Measured',
           \/ Compacted \/ CompactionFails
           \/ pc \in {"opening", "closing"} /\ \E kind \in Failures : AttemptFailed(kind)
           \/ Opened \/ ReadDone \/ ReadLast \/ Retry
    PROVE  Lessens
<1> USE DEF Measured, TurnWork, Lessens, Suspend, Finish
<1>1. pc \notin {"done", "dead"} /\ Cancelled => Lessens
  BY FinishLessens DEF Cancelled, loop
<1>2. ASSUME \E kind \in Failures : AttemptFailed(kind), pc \in {"opening", "closing"}
      PROVE  Lessens
  BY <1>2 DEF AttemptFailed
<1>3. CASE Compacted
  BY <1>3 DEF Compacted, ContextBuilt, PerTurn
<1>8. CASE CompactionFails
  BY <1>8 DEF CompactionFails, PerTurn, loop
<1>4. CASE Opened
  BY <1>1, <1>2, <1>4 DEF Opened, loop
<1>5. CASE ReadDone
  BY <1>5 DEF ReadDone, lifecycle
<1>6. CASE ReadLast
  BY <1>6 DEF ReadLast, CloseStream
<1>7. CASE Retry
  BY <1>1, <1>7 DEF Retry
<1> QED BY <1>2, <1>3, <1>4, <1>5, <1>6, <1>7, <1>8

(* The calls of an answer are taken up: up to the first question, or all. *)
LEMMA AuthoriseLessens ==
    ASSUME Measured, Measured', UNCHANGED loop, NEW cs \in Replies, NEW first \in Nat,
           \/ pc = "closing"
           \/ pc = "permission" /\ ~interrupt /\ first > pending.call,
           NEW granted, NEW log, Authorise(cs, first, granted, log)
    PROVE  Lessens
<1> USE DEF Measured, TurnWork, Lessens, loop
<1>1. /\ UNCHANGED interrupt
      /\ \/ pc' = "permission" /\ pending'.call >= first
         \/ pc' = "batch"
  <2>1. Len(cs) \in Nat
    BY RepliesType
  <2>2. PICK next \in first..(Len(cs) + 1) :
           /\ UNCHANGED interrupt
           /\ \/ pc' = "permission" /\ pending' = [call |-> next, answer |-> "open"]
              \/ pc' = "batch"
    BY DEF Authorise, Suspend
  <2> QED BY <2>1, <2>2
<1>2. CASE pc' = "permission" /\ pending'.call >= first
  BY <1>1, <1>2
<1>3. CASE pc' = "batch"
  BY <1>1, <1>3 DEF ToolWork
<1> QED BY <1>1, <1>2, <1>3

(* Messages that are delivered show in what the Host was told. *)
LEMMA DrainTells ==
    ASSUME injected \in Waiting, queue \in Waiting, NEW q \in Queues, queue[q] # <<>>,
           Drain(q)
    PROVE  injected' # injected
<1> DEFINE T == Steering \cup FollowUps
<1>1. injected[q] \in Seq(T) /\ queue[q] \in Seq(T)
  BY DEF Waiting
<1>2. injected'[q] = injected[q] \o queue[q]
  BY DEF Drain, Waiting
<1> HIDE DEF T
<1>3. Len(queue[q]) \in Nat /\ Len(queue[q]) # 0
  BY <1>1, EmptySeq
<1>4. Len(injected[q]) \in Nat /\ Len(injected'[q]) = Len(injected[q]) + Len(queue[q])
  BY <1>1, <1>2, ConcatProperties
<1>5. Len(injected'[q]) # Len(injected[q])
  <2>1. \A m, n \in Nat : m # 0 => n + m # n
    OBVIOUS
  <2> QED BY <2>1, <1>3, <1>4
<1> QED BY <1>5

(* Each step of the worker begins a turn, or lessens this one. *)
LEMMA WorkerLessens ==
    ASSUME TypeInv, WorkBounds, Measured, Measured', Worker
    PROVE  Lessens \/ OpensTurn
<1>1. pc \notin {"done", "dead"}
  BY DEF Worker, Start, NeverStarted, Compacted, CompactionFails, CompactionAbandoned, Unwind,
         Opened, ReadDone, ReadLast, Closed, Retry, Answered, BatchDone, BatchInterrupted, Joined
<1>2. ASSUME NEW terminal, Finish(terminal), UNCHANGED loop PROVE Lessens
  BY <1>1, <1>2, FinishLessens DEF loop
<1>3. \A log, past : NextTurn(log, past) => Lessens \/ turn' = turn + 1
  BY <1>2 DEF NextTurn
<1>4. CASE Start
  <2>1. turn = 0 /\ turn' = 1
    BY <1>4 DEF Start, TypeInv, Placement
  <2> QED BY <2>1 DEF OpensTurn
<1>5. CASE NeverStarted \/ CompactionAbandoned \/ Unwind \/ Joined
  BY <1>1, <1>2, <1>5, EndLessens
     DEF NeverStarted, CompactionAbandoned, Unwind, Joined, Cancelled, loop
<1>6. CASE Compacted \/ CompactionFails \/ Opened \/ ReadDone \/ ReadLast \/ Retry
  BY <1>6, AttemptLessens
<1>7. CASE Closed
  <2>1. pc = "closing"
    BY <1>7 DEF Closed
  <2>2. CASE \E kind \in Failures : AttemptFailed(kind)
    BY <2>1, <2>2, AttemptLessens
  <2>3. ASSUME NEW cs \in Replies, Respond(cs)
        PROVE  Lessens \/ OpensTurn
    <3>1. ASSUME NEW log, NEW past, Conclude(log, past)
          PROVE  Lessens \/ OpensTurn
      <4>1. injected \in Waiting /\ queue \in Waiting
        BY DEF TypeInv, TypeOK, MessagesOK
      <4>2. ASSUME NEW q \in Queues, queue[q] # <<>>, Drain(q),
                   NEW more, NEW then, NextTurn(more, then)
            PROVE  Lessens \/ OpensTurn
        BY <1>3, <4>1, <4>2, DrainTells DEF OpensTurn
      <4> QED BY <1>2, <3>1, <4>2 DEF Conclude, Queues
    <3>2. CASE /\ UNCHANGED loop
               /\ Authorise(cs, 1, [k \in 1..Len(cs) |-> "none"], audit)
      BY <2>1, <3>2, AuthoriseLessens
    <3> QED BY <2>3, <3>1, <3>2 DEF Respond
  <2> QED BY <1>2, <1>7, <2>2, <2>3 DEF Closed, Cancelled
<1>8. CASE Answered
  <2>1. /\ pc = "permission" /\ ~interrupt /\ UNCHANGED loop
        /\ calls \in Replies /\ pending.call \in Nat
        /\ \E granted, log : Authorise(calls, pending.call + 1, granted, log)
    BY <1>8 DEF Answered, Measured, TypeInv, TypeOK, BatchOK
  <2>2. pending.call + 1 \in Nat /\ pending.call + 1 > pending.call
    BY <2>1
  <2> QED BY <2>1, <2>2, AuthoriseLessens
<1>9. CASE BatchDone
  BY <1>3, <1>9 DEF BatchDone, OpensTurn
<1>10. CASE BatchInterrupted
  <2>1. /\ pc = "batch" /\ pc' = "joining" /\ turn' = turn
        /\ Unfinished({"waiting"})' \subseteq Unfinished({"waiting"})
        /\ Unfinished({"waiting", "running"})' \subseteq Unfinished({"waiting", "running"})
    BY <1>10 DEF BatchInterrupted, loop, Unfinished
  <2>2. BatchOK
    BY DEF TypeInv, TypeOK
  <2>3. ToolWork' <= ToolWork
    <3>1. \A S, T : IsFiniteSet(T) /\ S \subseteq T
                      => /\ Cardinality(S) \in Nat /\ Cardinality(T) \in Nat
                         /\ Cardinality(S) <= Cardinality(T)
      BY FS_Subset, FS_CardinalityType
    <3> QED BY <2>1, <2>2, <3>1, UnfinishedCount DEF ToolWork
  <2>4. TurnWork' < TurnWork
    BY <2>1, <2>3 DEF TurnWork, ToolWork, Measured
  <2> QED BY <2>1, <2>4 DEF Lessens
<1> QED
  BY <1>4, <1>5, <1>6, <1>7, <1>8, <1>9, <1>10 DEF Worker

LEMMA HostAddsNoWork ==
    ASSUME TypeInv, TypeInv', Host
    PROVE  turn' = turn /\ TurnWork' <= TurnWork
<1>1. UNCHANGED <<pc, loop, batch>>
  BY DEF Host, Enqueue, Cancel, Resolve, lifecycle
<1>2. /\ Measured /\ Measured' /\ ToolWork' = ToolWork
  BY <1>1, TypesMeasured, TypesMeasuredNext DEF batch, ToolWork, Unfinished
<1>3. \/ interrupt' = interrupt /\ pending'.call = pending.call
      \/ interrupt' = TRUE
  <2>1. pending \in Questions
    BY DEF TypeInv, TypeOK, LoopOK
  <2>2. \A approved \in BOOLEAN : Resolve(approved) => pending'.call = pending.call
    BY <2>1 DEF Resolve, Questions
  <2> QED BY <2>2 DEF Host, Enqueue, Cancel, Resolve, lifecycle
<1>4. TurnWork' <= TurnWork
  BY <1>1, <1>2, <1>3, WorkBounded, RunAssumption
     DEF TurnWork, ToolWork, PerTurn, Measured, loop
<1> QED BY <1>1, <1>4 DEF loop

(* With or without a turn limit, nothing goes round for ever inside a turn:  *)
(* whatever the Host does and whatever fails, each step of the worker or of  *)
(* a tool uses up work of the turn, at most PerTurn, and nothing gives it    *)
(* back. A further turn begins only with tool results or a Host message.     *)
THEOREM TurnsAreBounded == Spec => WorkShrinks
<1>1. ASSUME TypeInv, TypeInv', [Next]_vars
      PROVE  [\/ /\ turn' = turn
                 /\ TurnWork' <= TurnWork
                 /\ Worker \/ Tools => TurnWork' < TurnWork
              \/ /\ turn' = turn + 1
                 /\ TurnWork' <= PerTurn
                 /\ turn = 0 \/ pc = "batch" \/ injected' # injected]_vars
  <2>1. WorkBounds /\ WorkBounds' /\ Measured /\ Measured'
    BY <1>1, WorkBounded, WorkBoundedNext, TypesMeasured, TypesMeasuredNext
  <2>2. TurnWork \in Nat /\ TurnWork' \in Nat /\ TurnWork' <= PerTurn
    BY <2>1, RunAssumption DEF WorkBounds, PerTurn
  <2>3. CASE Tools
    BY <1>1, <2>2, <2>3, ToolsShrinkWork DEF Tools
  <2>4. CASE Worker
    BY <1>1, <2>1, <2>2, <2>4, WorkerLessens DEF Lessens, OpensTurn
  <2>5. CASE Host /\ ~Worker /\ ~Tools
    BY <1>1, <2>5, HostAddsNoWork
  <2> QED BY <1>1, <2>3, <2>4, <2>5 DEF Next
<1> QED BY <1>1, TypeInvHolds, PTL DEF Spec, WorkShrinks
=============================================================================
