----------------------- MODULE AgentRunDecisions_proofs -----------------------
(* Theorems about the Permission Decisions of AgentRun, for every value of   *)
(* its constants.                                                            *)
EXTENDS AgentRun_proofs

-----------------------------------------------------------------------------
(* Permission Decisions *)

(* No two decisions of a log are on the same call; those of a turn are on    *)
(* calls before a given one.                                                 *)
Distinct(log) ==
    \A m, n \in DOMAIN log :
        log[m].turn = log[n].turn /\ log[m].call = log[n].call => m = n

Below(log, t, k) == \A n \in DOMAIN log : log[n].turn = t => log[n].call < k

Undecided == {"created", "dead", "compacting", "abandoning", "opening", "reading", "closing", "retrying"}

(* Decisions are taken call by call: none of this turn before its message is *)
(* authoritative, then none beyond the call that is asked about.             *)
DecisionInv ==
    /\ Distinct(audit)
    /\ \A n \in DOMAIN audit : audit[n].turn <= turn
    /\ pc \in Undecided => \A n \in DOMAIN audit : audit[n].turn < turn
    /\ pending.answer = "open" => Below(audit, turn, pending.call)
    /\ pending.answer \in {"approved", "denied"} => Below(audit, turn, pending.call + 1)

LEMMA DecisionTypes ==
    ASSUME NEW log \in Seq(Decisions), NEW n \in DOMAIN log
    PROVE  /\ log[n] \in Decisions
           /\ log[n].turn \in 1..MaxTurns /\ log[n].call \in 1..MaxCalls
           /\ log[n].approved \in BOOLEAN
<1>1. log[n] \in Decisions
  OBVIOUS
<1> QED BY <1>1 DEF Decisions

(* A log stays distinct when decisions on further calls of one turn follow.  *)
LEMMA DistinctGrows ==
    ASSUME NEW log \in Seq(Decisions), NEW more \in Seq(Decisions),
           NEW t \in Int, NEW first \in Int, NEW next \in Int,
           Distinct(log), Distinct(more), Below(log, t, first),
           \A n \in DOMAIN log : log[n].turn <= t,
           \A n \in DOMAIN more : more[n].turn = t /\ more[n].call \in first..(next - 1),
           first <= next
    PROVE  /\ Distinct(Recorded(log, more))
           /\ Below(Recorded(log, more), t, next)
           /\ \A n \in DOMAIN Recorded(log, more) : Recorded(log, more)[n].turn <= t
<1> DEFINE both == log \o more
<1>1. /\ both \in Seq(Decisions) /\ DOMAIN both = 1..(Len(log) + Len(more))
      /\ DOMAIN log = 1..Len(log) /\ DOMAIN more = 1..Len(more)
      /\ Len(log) \in Nat /\ Len(more) \in Nat
  BY ConcatProperties
<1>2. \A n \in DOMAIN both :
        \/ n \in DOMAIN log /\ both[n] = log[n]
        \/ n - Len(log) \in DOMAIN more /\ both[n] = more[n - Len(log)]
  BY <1>1, ConcatProperties
<1> HIDE DEF both
<1>3. \A n \in DOMAIN log : log[n].call \in Int /\ log[n].turn \in Int
  BY DecisionTypes
<1>4. \A n \in DOMAIN more : more[n].turn = t /\ more[n].call \in Int
                             /\ first <= more[n].call /\ more[n].call < next
  OBVIOUS
<1>5. Distinct(both)
  <2> SUFFICES ASSUME NEW m \in DOMAIN both, NEW n \in DOMAIN both,
                      both[m].turn = both[n].turn, both[m].call = both[n].call
               PROVE  m = n
    BY DEF Distinct
  <2>1. CASE m \in DOMAIN log /\ both[m] = log[m] /\ n \in DOMAIN log /\ both[n] = log[n]
    BY <2>1 DEF Distinct
  <2>2. CASE /\ m \in DOMAIN log /\ both[m] = log[m]
             /\ n - Len(log) \in DOMAIN more /\ both[n] = more[n - Len(log)]
    BY <1>3, <1>4, <2>2 DEF Below
  <2>3. CASE /\ n \in DOMAIN log /\ both[n] = log[n]
             /\ m - Len(log) \in DOMAIN more /\ both[m] = more[m - Len(log)]
    BY <1>3, <1>4, <2>3 DEF Below
  <2>4. CASE /\ m - Len(log) \in DOMAIN more /\ both[m] = more[m - Len(log)]
             /\ n - Len(log) \in DOMAIN more /\ both[n] = more[n - Len(log)]
    <3>1. m - Len(log) = n - Len(log)
      BY <2>4 DEF Distinct
    <3> QED BY <1>1, <3>1
  <2> QED BY <1>2, <2>1, <2>2, <2>3, <2>4
<1>6. Below(both, t, next)
  <2> SUFFICES ASSUME NEW n \in DOMAIN both, both[n].turn = t PROVE both[n].call < next
    BY DEF Below
  <2>1. CASE n \in DOMAIN log /\ both[n] = log[n]
    BY <1>3, <2>1 DEF Below
  <2> QED BY <1>2, <1>4, <2>1
<1>7. Below(log, t, next)
  BY <1>3 DEF Below
<1>8. \A n \in DOMAIN both : both[n].turn <= t
  BY <1>2, <1>4
<1> QED BY <1>5, <1>6, <1>7, <1>8 DEF both, Recorded

(* A step that decides nothing and leaves no question behind.                *)
LEMMA DecisionsKept ==
    ASSUME TypeInv, DecisionInv, UNCHANGED audit, pending'.answer = "none",
           \/ turn' = turn /\ (pc' \in Undecided => pc \in Undecided)
           \/ turn' = turn + 1
    PROVE  DecisionInv'
<1>1. turn \in Int /\ \A n \in DOMAIN audit : audit[n].turn \in Int
  BY DecisionTypes DEF TypeInv, TypeOK, LoopOK, TranscriptOK
<1> QED BY <1>1 DEF DecisionInv, Distinct

(* The policy's decisions up to the next question, or to the batch.          *)
LEMMA AuthoriseDecides ==
    ASSUME turn \in 1..MaxTurns, UNCHANGED turn, NEW cs \in Replies,
           NEW first \in 1..(Len(cs) + 1), NEW granted, NEW log \in Seq(Decisions),
           Distinct(log), Below(log, turn, first), \A n \in DOMAIN log : log[n].turn <= turn,
           Authorise(cs, first, granted, log)
    PROVE  DecisionInv'
<1> USE RunAssumption
<1>1. Len(cs) \in 0..MaxCalls /\ DOMAIN cs = 1..Len(cs)
  BY RepliesType
<1>2. PICK next \in first..(Len(cs) + 1) :
        /\ \E decided \in Ascending({k \in first..(next - 1) : cs[k] \in {"allow", "deny"}}) :
              audit' = Recorded(log, [n \in DOMAIN decided |->
                         Decision(turn, decided[n], cs[decided[n]] = "allow")])
        /\ \/ pc' = "permission" /\ pending' = [call |-> next, answer |-> "open"]
           \/ pc' = "batch" /\ pending' = NoRequest
  BY DEF Authorise, Suspend
<1> DEFINE S == {k \in first..(next - 1) : cs[k] \in {"allow", "deny"}}
<1>3. PICK decided \in Ascending(S) :
        audit' = Recorded(log, [n \in DOMAIN decided |->
                   Decision(turn, decided[n], cs[decided[n]] = "allow")])
  BY <1>2
<1>4. S \in SUBSET (1..Len(cs)) /\ S \subseteq first..(next - 1)
  BY <1>1
<1> HIDE DEF S
<1>5. decided \in Seq(S) /\ DOMAIN decided = 1..Len(decided) /\ Len(decided) \in Nat
  <2>1. Len(cs) \in Nat
    BY <1>1
  <2>2. \A n \in Nat : \A T \in SUBSET (1..n) : \A list \in Ascending(T) : list \in Seq(T)
    BY AscendingType
  <2>3. decided \in Seq(S)
    BY <1>3, <1>4, <2>1, <2>2
  <2> QED BY <2>3
<1>6. \A n \in 1..Len(decided) :
        /\ decided[n] \in S
        /\ decided[n] \in Int /\ decided[n] \in 1..MaxCalls /\ decided[n] \in first..(next - 1)
  <2>1. \A n \in 1..Len(decided) : decided[n] \in S
    BY <1>5
  <2>2. \A k \in S : k \in Int /\ k \in 1..MaxCalls /\ k \in first..(next - 1)
    BY <1>1, <1>4
  <2> QED BY <2>1, <2>2
<1>7. \A m, n \in 1..Len(decided) : decided[m] = decided[n] => m = n
  <2>1. \A m, n \in 1..Cardinality(S) : m < n => decided[m] < decided[n]
    BY <1>3 DEF Ascending
  <2>2. DOMAIN decided = 1..Cardinality(S)
    BY <1>3 DEF Ascending
  <2> SUFFICES ASSUME NEW m \in 1..Len(decided), NEW n \in 1..Len(decided),
                      decided[m] = decided[n]
               PROVE  m = n
    OBVIOUS
  <2>3. decided[m] \in Int /\ ~(decided[m] < decided[n]) /\ ~(decided[n] < decided[m])
    BY <1>6
  <2>4. ~(m < n) /\ ~(n < m)
    BY <1>5, <2>1, <2>2, <2>3
  <2> QED BY <1>5, <2>4
<1> DEFINE more == [n \in DOMAIN decided |->
                      Decision(turn, decided[n], cs[decided[n]] = "allow")]
<1>8. \A n \in DOMAIN more :
        /\ more[n].turn = turn /\ more[n].call = decided[n]
        /\ more[n].call \in first..(next - 1) /\ more[n] \in Decisions
  <2> SUFFICES ASSUME NEW n \in 1..Len(decided)
               PROVE  /\ more[n].turn = turn /\ more[n].call = decided[n]
                      /\ more[n].call \in first..(next - 1) /\ more[n] \in Decisions
    BY <1>5
  <2>1. decided[n] \in first..(next - 1) /\ decided[n] \in 1..MaxCalls
    BY <1>6
  <2>2. more[n] = Decision(turn, decided[n], cs[decided[n]] = "allow")
    BY <1>5
  <2>3. (cs[decided[n]] = "allow") \in BOOLEAN
    OBVIOUS
  <2> QED BY <2>1, <2>2, <2>3 DEF Decision, Decisions
<1>9. DOMAIN more = 1..Len(decided)
  BY <1>5
<1>10. audit' = Recorded(log, more)
  BY <1>3
<1> HIDE DEF more
<1>11. more \in Seq(Decisions)
  <2>1. more = [n \in DOMAIN more |-> more[n]]
    BY DEF more
  <2>2. more \in [1..Len(decided) -> Decisions]
    BY <1>8, <1>9, <2>1
  <2> QED BY <1>5, <2>2
<1>12. Distinct(more)
  BY <1>7, <1>8, <1>9 DEF Distinct
<1>13. /\ Distinct(audit') /\ Below(audit', turn, next)
       /\ \A n \in DOMAIN audit' : audit'[n].turn <= turn
  <2>1. turn \in Int /\ first \in Int /\ next \in Int /\ first <= next
    BY <1>1
  <2>2. \A n \in DOMAIN more : more[n].turn = turn /\ more[n].call \in first..(next - 1)
    BY <1>8
  <2> QED BY <1>10, <1>11, <1>12, <2>1, <2>2, DistinctGrows
<1>14. CASE pc' = "permission" /\ pending' = [call |-> next, answer |-> "open"]
  BY <1>13, <1>14 DEF DecisionInv, Undecided, Distinct, Below
<1>15. CASE pc' = "batch" /\ pending' = NoRequest
  BY <1>13, <1>15 DEF DecisionInv, Undecided, Distinct, Below, NoRequest
<1> QED BY <1>2, <1>14, <1>15

(* The Host's decisions: one on the call that is asked about.                *)
LEMMA HostDecides ==
    ASSUME TypeInv, DecisionInv, pending.answer = "open", NEW ok \in BOOLEAN,
           audit' = Recorded(audit, <<Decision(turn, pending.call, ok)>>)
    PROVE  /\ Distinct(audit') /\ Below(audit', turn, pending.call + 1)
           /\ \A n \in DOMAIN audit' : audit'[n].turn <= turn
<1> USE RunAssumption
<1>1. /\ turn \in 1..MaxTurns /\ pending.call \in 1..MaxCalls /\ audit \in Seq(Decisions)
  BY DEF TypeInv, TypeOK, LoopOK, TranscriptOK, Placement, Questions
<1> DEFINE more == <<Decision(turn, pending.call, ok)>>
<1>2. /\ more \in Seq(Decisions) /\ Distinct(more)
      /\ \A n \in DOMAIN more :
            more[n].turn = turn /\ more[n].call \in pending.call..((pending.call + 1) - 1)
  <2>1. DOMAIN more = {1} /\ more[1] = Decision(turn, pending.call, ok)
    OBVIOUS
  <2>2. Decision(turn, pending.call, ok) \in Decisions
    BY <1>1 DEF Decision, Decisions
  <2>3. more \in Seq(Decisions)
    BY <2>2
  <2>4. Distinct(more)
    BY <2>1 DEF Distinct
  <2>5. more[1].turn = turn /\ more[1].call = pending.call
    BY <2>1 DEF Decision
  <2> QED BY <1>1, <2>1, <2>3, <2>4, <2>5
<1> HIDE DEF more
<1>3. audit' = Recorded(audit, more)
  BY DEF more
<1>4. /\ turn \in Int /\ pending.call \in Int /\ pending.call + 1 \in Int
      /\ pending.call <= pending.call + 1
  BY <1>1
<1>5. Distinct(audit) /\ Below(audit, turn, pending.call)
      /\ \A n \in DOMAIN audit : audit[n].turn <= turn
  BY DEF DecisionInv
<1> QED BY <1>1, <1>2, <1>3, <1>4, <1>5, DistinctGrows

LEMMA DecisionInvInductive ==
    ASSUME TypeInv, DecisionInv, QuietInv, [Next]_vars
    PROVE  DecisionInv'
<1> USE RunAssumption
<1>0. NoRequest.answer = "none"
  BY DEF NoRequest
<1>1. CASE UNCHANGED <<pc, pending, turn, audit>>
  BY <1>1 DEF DecisionInv, Distinct, Below
<1>2. CASE UNCHANGED vars \/ Tools \/ \E q \in Queues : \E m \in Texts[q] : Enqueue(q, m)
  BY <1>1, <1>2 DEF vars, Tools, ToolBegin, ToolEnd, Enqueue, lifecycle, loop, transcript
<1>3. CASE Cancel
  <2>1. pending'.answer = "none" /\ UNCHANGED <<pc, turn>>
    BY <1>0, <1>3 DEF Cancel, loop
  <2>2. CASE pending.answer = "open"
    <3>1. audit' = Recorded(audit, <<Decision(turn, pending.call, FALSE)>>)
      BY <1>3, <2>2 DEF Cancel
    <3>2. Distinct(audit') /\ \A n \in DOMAIN audit' : audit'[n].turn <= turn
      BY <2>2, <3>1, HostDecides
    <3>3. pc' = "permission"
      BY <2>1, <2>2 DEF TypeInv, Placement
    <3> QED BY <2>1, <3>2, <3>3 DEF DecisionInv, Undecided, Distinct
  <2>3. CASE pending.answer # "open"
    BY <1>3, <2>1, <2>3, DecisionsKept DEF Cancel
  <2> QED BY <2>2, <2>3
<1>4. ASSUME NEW approved \in BOOLEAN, Resolve(approved)
      PROVE  DecisionInv'
  <2>1. /\ pending.answer = "open" /\ UNCHANGED <<pc, turn>>
        /\ audit' = Recorded(audit, <<Decision(turn, pending.call, approved)>>)
        /\ pending' = [pending EXCEPT !.answer = IF approved THEN "approved" ELSE "denied"]
    BY <1>4 DEF Resolve, lifecycle, loop
  <2>2. pc = "permission"
    BY <2>1 DEF TypeInv, Placement
  <2>3. pending'.call = pending.call /\ pending'.answer \in {"approved", "denied"}
    BY <2>1 DEF TypeInv, TypeOK, LoopOK, Questions
  <2>4. /\ Distinct(audit') /\ Below(audit', turn, pending.call + 1)
        /\ \A n \in DOMAIN audit' : audit'[n].turn <= turn
    BY <2>1, HostDecides
  <2> QED BY <2>1, <2>2, <2>3, <2>4 DEF DecisionInv, Undecided, Distinct, Below
<1>5. ASSUME Finish("failed") \/ Finish("cancelled") \/ Finish("settled"), UNCHANGED <<turn, audit>>
      PROVE  DecisionInv'
  <2>1. pending'.answer = "none" /\ pc' \notin Undecided
    BY <1>0, <1>5 DEF Finish, Undecided
  <2> QED BY <1>5, <2>1, DecisionsKept
<1>6. ASSUME NEW log, NEW past, NextTurn(log, past), pc # "permission", UNCHANGED audit
      PROVE  DecisionInv'
  <2>1. CASE turn < MaxTurns
    <3>1. turn' = turn + 1 /\ BuildContext(log, log)
      BY <1>6, <2>1 DEF NextTurn
    <3>2. pending'.answer = "none"
      BY <1>0, <1>6, <3>1 DEF BuildContext, ContextBuilt, Finish, QuietInv
    <3> QED BY <1>6, <3>1, <3>2, DecisionsKept
  <2>2. CASE ~(turn < MaxTurns)
    BY <1>5, <1>6, <2>2 DEF NextTurn, loop
  <2> QED BY <2>1, <2>2
<1>7. CASE Start \/ NeverStarted \/ Compacted
  <2>1. pc \in Undecided /\ pending.answer = "none" /\ UNCHANGED audit
    BY <1>0, <1>7 DEF Start, NeverStarted, Compacted, Undecided, QuietInv, transcript
  <2>2. pending'.answer = "none"
    BY <1>0, <1>7, <2>1 DEF Start, NeverStarted, Compacted, BuildContext, ContextBuilt, Finish
  <2>3. turn' = turn \/ turn' = turn + 1
    BY <1>7 DEF Start, NeverStarted, Compacted, loop, TypeInv, Placement
  <2> QED BY <2>1, <2>2, <2>3, DecisionsKept
<1>8. ASSUME NEW kind, AttemptFailed(kind), pc \in Undecided
      PROVE  DecisionInv'
  <2>1. UNCHANGED <<turn, audit>> /\ pending'.answer = "none"
    BY <1>0, <1>8 DEF AttemptFailed, transcript, Finish, QuietInv, Undecided
  <2> QED BY <1>8, <2>1, DecisionsKept
<1>9. CASE \/ CompactionFails \/ CompactionAbandoned \/ Unwind
            \/ Opened \/ ReadDone \/ ReadLast \/ Retry
  <2>1. Cancelled => DecisionInv'
    BY <1>5 DEF Cancelled, loop, transcript
  <2>2. CASE Unwind
    BY <1>5, <2>2 DEF Unwind, loop, transcript
  <2>3. ASSUME pc \in Undecided, UNCHANGED <<turn, audit, pending>>
        PROVE  DecisionInv'
    <3>1. pending'.answer = "none"
      BY <1>0, <2>3 DEF QuietInv, Undecided
    <3> QED BY <2>3, <3>1, DecisionsKept
  <2>4. CASE Opened
    BY <1>8, <2>1, <2>3, <2>4 DEF Opened, Undecided, loop, transcript
  <2>5. CASE ReadDone \/ ReadLast \/ Retry
    BY <2>1, <2>3, <2>5 DEF ReadDone, ReadLast, Retry, CloseStream, Undecided, transcript
  <2>6. CASE CompactionFails
    BY <2>3, <2>6 DEF CompactionFails, Undecided, loop, transcript
  <2>7. CASE CompactionAbandoned
    BY <1>5, <2>7 DEF CompactionAbandoned, loop, transcript
  <2> QED BY <1>9, <2>2, <2>4, <2>5, <2>6, <2>7
<1>10. CASE Closed
  <2>1. pc = "closing" /\ pc \in Undecided
    BY <1>10 DEF Closed, Undecided
  <2>2. CASE Cancelled
    BY <1>5, <2>2 DEF Cancelled, loop, transcript
  <2>3. CASE \E kind \in Failures : AttemptFailed(kind)
    BY <1>8, <2>1, <2>3
  <2>4. CASE Finish("failed") /\ UNCHANGED <<messages, loop, batch, transcript>>
    BY <1>5, <2>4 DEF loop, transcript
  <2>5. ASSUME NEW cs \in Replies, Respond(cs)
        PROVE  DecisionInv'
    <3>1. CASE UNCHANGED audit /\ \E log, past : Conclude(log, past)
      BY <1>5, <1>6, <2>1, <3>1 DEF Conclude, loop
    <3>2. CASE /\ Authorise(cs, 1, [k \in 1..Len(cs) |-> "none"], audit)
               /\ UNCHANGED turn
      <4>1. /\ turn \in 1..MaxTurns /\ audit \in Seq(Decisions) /\ 1 \in 1..(Len(cs) + 1)
        BY <2>1, RepliesType DEF TypeInv, TypeOK, LoopOK, TranscriptOK, Placement
      <4>2. \A n \in DOMAIN audit : audit[n].turn \in Int /\ audit[n].turn < turn
        BY <2>1, <4>1, DecisionTypes DEF DecisionInv
      <4>3. /\ Distinct(audit) /\ Below(audit, turn, 1)
            /\ \A n \in DOMAIN audit : audit[n].turn <= turn
        BY <4>1, <4>2 DEF DecisionInv, Below
      <4> QED BY <3>2, <4>1, <4>3, AuthoriseDecides
    <3> QED BY <2>5, <3>1, <3>2 DEF Respond, loop
  <2> QED BY <1>10, <2>2, <2>3, <2>4, <2>5 DEF Closed
<1>11. CASE Answered
  <2>1. /\ pc = "permission" /\ pending.answer \in {"approved", "denied"} /\ UNCHANGED turn
        /\ \E granted : Authorise(calls, pending.call + 1, granted, audit)
    BY <1>11 DEF Answered, loop
  <2>2. /\ turn \in 1..MaxTurns /\ calls \in Replies /\ pending.call \in 1..Len(calls)
        /\ audit \in Seq(Decisions)
    BY <2>1 DEF TypeInv, TypeOK, LoopOK, BatchOK, TranscriptOK, Placement
  <2>3. pending.call + 1 \in 1..(Len(calls) + 1)
    BY <2>2, RepliesType
  <2>4. /\ Distinct(audit) /\ Below(audit, turn, pending.call + 1)
        /\ \A n \in DOMAIN audit : audit[n].turn <= turn
    BY <2>1 DEF DecisionInv
  <2> QED BY <2>1, <2>2, <2>3, <2>4, AuthoriseDecides
<1>12. CASE BatchDone
  <2>1. pc = "batch" /\ UNCHANGED audit /\ \E log, past : NextTurn(log, past)
    BY <1>12 DEF BatchDone
  <2> QED BY <1>6, <2>1
<1>13. CASE BatchInterrupted \/ Joined
  <2>1. CASE BatchInterrupted
    <3>1. /\ pending'.answer = "none" /\ UNCHANGED <<turn, audit>> /\ pc' \notin Undecided
      BY <1>0, <2>1 DEF BatchInterrupted, QuietInv, loop, transcript, Undecided
    <3> QED BY <3>1, DecisionsKept
  <2>2. CASE Joined
    BY <1>5, <2>2 DEF Joined, Cancelled, loop, transcript
  <2> QED BY <1>13, <2>1, <2>2
<1> QED
  BY <1>2, <1>3, <1>4, <1>7, <1>9, <1>10, <1>11, <1>12, <1>13 DEF Next, Host, Worker

LEMMA DecisionInvHolds == Spec => []DecisionInv
<1>1. Init => DecisionInv
  BY DEF Init, DecisionInv, Distinct, Below, NoRequest
<1>2. TypeInv /\ DecisionInv /\ QuietInv /\ [Next]_vars => DecisionInv'
  BY DecisionInvInductive
<1> QED BY <1>1, <1>2, TypeInvHolds, QuietInvHolds, PTL DEF Spec

(* However an answer, a cancellation and the policy race, the Session never   *)
(* holds two Permission Decisions on one call.                                *)
THEOREM DecisionsAreUnique == Spec => []OneDecisionPerCall
<1>1. ASSUME DecisionInv
      PROVE  OneDecisionPerCall
  <2> SUFFICES ASSUME NEW t \in 1..MaxTurns, NEW k \in 1..MaxCalls
               PROVE  Cardinality(DecisionsOn(t, k)) <= 1
    BY DEF OneDecisionPerCall
  <2>1. \A m, n \in DecisionsOn(t, k) : m = n
    BY <1>1 DEF DecisionInv, Distinct, DecisionsOn
  <2>2. CASE DecisionsOn(t, k) = {}
    BY <2>2, FS_EmptySet
  <2>3. CASE DecisionsOn(t, k) # {}
    <3>1. PICK n : DecisionsOn(t, k) = {n}
      BY <2>1, <2>3
    <3> QED BY <3>1, FS_Singleton
  <2> QED BY <2>2, <2>3
<1> QED BY <1>1, DecisionInvHolds, PTL

-----------------------------------------------------------------------------
(* Authority *)

Covers(list, S) == \A k \in S : \E i \in DOMAIN list : list[i] = k

(* An ascending list of a set leaves out none of it. *)
LEMMA AscendingCovers ==
    ASSUME NEW n \in Nat, NEW S \in SUBSET (1..n), NEW list \in Ascending(S)
    PROVE  Covers(list, S)
<1>1. IsFiniteSet(S)
  <2>1. IsFiniteSet(1..n)
    BY FS_Interval
  <2> QED BY <2>1, FS_Subset
<1> DEFINE size == Cardinality(S)
<1>2. size \in Nat
  BY <1>1, FS_CardinalityType
<1> HIDE DEF size
<1>3. /\ list \in [1..size -> S]
      /\ \A i, j \in 1..size : i < j => list[i] < list[j]
  BY DEF Ascending, size
<1>4. \A i, j \in 1..size : list[i] = list[j] => i = j
  <2> SUFFICES ASSUME NEW i \in 1..size, NEW j \in 1..size, list[i] = list[j]
               PROVE  i = j
    OBVIOUS
  <2>1. list[i] \in Int
    <3>1. list[i] \in S /\ \A x \in S : x \in Int
      BY <1>3
    <3> QED BY <3>1
  <2>2. ~(i < j) /\ ~(j < i)
    BY <1>3, <2>1
  <2> QED BY <1>2, <2>2
<1>5. list \in Injection(1..size, S)
  BY <1>3, <1>4 DEF Injection, IsInjective
<1>6. Cardinality(1..size) = size
  BY <1>2, FS_Interval
<1>7. list \in Surjection(1..size, S)
  BY <1>1, <1>5, <1>6, FS_Injection DEF size
<1> QED BY <1>3, <1>7 DEF Surjection, Covers

(* An approval of a call that is on record stays there. *)
Approved(marks, t, k) ==
    \E n \in DOMAIN marks : marks[n].turn = t /\ marks[n].call = k /\ marks[n].approved

LEMMA ApprovalStays ==
    ASSUME NEW log \in Seq(Decisions), NEW more \in Seq(Decisions), NEW t, NEW k
    PROVE  /\ Approved(log, t, k) => Approved(Recorded(log, more), t, k)
           /\ WithSession /\ Approved(more, t, k) => Approved(Recorded(log, more), t, k)
<1>1. /\ DOMAIN (log \o more) = 1..(Len(log) + Len(more))
      /\ DOMAIN log = 1..Len(log) /\ DOMAIN more = 1..Len(more)
      /\ Len(log) \in Nat /\ Len(more) \in Nat
      /\ \A n \in 1..Len(log) : (log \o more)[n] = log[n]
      /\ \A n \in 1..Len(more) : (log \o more)[n + Len(log)] = more[n]
  BY ConcatProperties
<1>2. \A n \in DOMAIN log : n \in DOMAIN (log \o more)
  BY <1>1
<1>3. \A n \in DOMAIN more : n + Len(log) \in DOMAIN (log \o more)
  BY <1>1
<1> QED BY <1>1, <1>2, <1>3 DEF Approved, Recorded

(* Each success in a conversation is covered by an approval on record. *)
Covered(log, marks) ==
    \A n \in DOMAIN log : log[n].role = "tool" /\ log[n].status = "success" =>
        Approved(marks, log[n].turn, log[n].call)

LEMMA CoveredGrows ==
    ASSUME NEW log \in Seq(Entries), NEW more \in Seq(Entries), NEW marks,
           Covered(log, marks), Covered(more, marks)
    PROVE  Covered(Recorded(log, more), marks)
<1>1. /\ DOMAIN (log \o more) = 1..(Len(log) + Len(more))
      /\ DOMAIN log = 1..Len(log) /\ DOMAIN more = 1..Len(more)
      /\ Len(log) \in Nat /\ Len(more) \in Nat
      /\ \A n \in 1..Len(log) : (log \o more)[n] = log[n]
      /\ \A n \in 1..Len(more) : (log \o more)[n + Len(log)] = more[n]
  BY ConcatProperties
<1>2. ASSUME NEW n \in DOMAIN (log \o more)
      PROVE  \/ n \in DOMAIN log /\ (log \o more)[n] = log[n]
             \/ n - Len(log) \in DOMAIN more /\ (log \o more)[n] = more[n - Len(log)]
  <2>1. CASE n <= Len(log)
    BY <1>1, <2>1
  <2>2. CASE ~(n <= Len(log))
    <3>1. n - Len(log) \in 1..Len(more) /\ (n - Len(log)) + Len(log) = n
      BY <1>1, <2>2
    <3> QED BY <1>1, <3>1
  <2> QED BY <2>1, <2>2
<1>3. Covered(log \o more, marks)
  BY <1>2 DEF Covered
<1> QED BY <1>3 DEF Recorded

LEMMA CoveredStays ==
    ASSUME NEW log, NEW marks \in Seq(Decisions), NEW more \in Seq(Decisions),
           Covered(log, marks)
    PROVE  Covered(log, Recorded(marks, more))
BY ApprovalStays DEF Covered

LEMMA UsersCovered ==
    ASSUME queue \in Waiting, NEW q \in Queues, NEW marks
    PROVE  Users(q) \in Seq(Entries) /\ Covered(Users(q), marks)
<1>1. queue[q] \in Seq(Steering \cup FollowUps)
  BY DEF Waiting
<1>2. \A n \in DOMAIN Users(q) : Users(q)[n].role = "user"
  BY <1>1 DEF Users, User
<1> QED BY <1>2, UsersType DEF Covered

(* The chain of authority: an open question is about a call the policy asks  *)
(* about; a granted call was allowed or asked about, and its approval is on  *)
(* record; a tool that runs or has succeeded was granted; and so for every   *)
(* success in the Session.                                                   *)
AuthorityInv ==
    /\ pending.answer # "none" => calls[pending.call] = "ask"
    /\ pending.answer = "approved" /\ WithSession => Approved(audit, turn, pending.call)
    /\ \A k \in 1..Len(calls) : grant[k] = "approved" =>
          /\ calls[k] \in {"allow", "ask"}
          /\ WithSession => Approved(audit, turn, k)
    /\ \A k \in DOMAIN tool : tool[k] \in {"running", "success"} => grant[k] = "approved"
    /\ Covered(session, audit)
    /\ ~WithSession => session = <<>>
    /\ pc = "created" => calls = <<>> /\ tool = <<>>

LEMMA AuthoriseCovers ==
    ASSUME turn \in 1..MaxTurns, UNCHANGED turn, NEW cs \in Replies,
           NEW first \in 1..(Len(cs) + 1),
           NEW granted \in [1..Len(cs) -> {"none", "approved", "denied"}],
           NEW log \in Seq(Decisions), Covered(session', log), ~WithSession => session' = <<>>,
           \A k \in 1..Len(cs) : granted[k] = "approved" =>
              cs[k] \in {"allow", "ask"} /\ (WithSession => Approved(log, turn, k)),
           Authorise(cs, first, granted, log)
    PROVE  AuthorityInv'
<1> USE RunAssumption
<1>1. Len(cs) \in 0..MaxCalls /\ DOMAIN cs = 1..Len(cs) /\ Len(cs) \in Nat
  BY RepliesType
<1>2. PICK next \in first..(Len(cs) + 1) :
        /\ IsNextAsk(cs, first, next)
        /\ calls' = cs
        /\ grant' = [k \in 1..Len(cs) |->
                       IF k \in first..(next - 1) THEN PolicyGrant(cs[k]) ELSE granted[k]]
        /\ \E decided \in Ascending({k \in first..(next - 1) : cs[k] \in {"allow", "deny"}}) :
              audit' = Recorded(log, [n \in DOMAIN decided |->
                         Decision(turn, decided[n], cs[decided[n]] = "allow")])
        /\ \/ /\ next \in DOMAIN cs
              /\ pending' = [call |-> next, answer |-> "open"]
              /\ tool' = <<>>
           \/ /\ pending' = NoRequest
              /\ tool' = [k \in 1..Len(cs) |->
                            IF cs[k] = "rejected" THEN "error" ELSE "waiting"]
        /\ pc' # "created"
  BY DEF Authorise, Suspend
<1> DEFINE S == {k \in first..(next - 1) : cs[k] \in {"allow", "deny"}}
<1>3. PICK decided \in Ascending(S) :
        audit' = Recorded(log, [n \in DOMAIN decided |->
                   Decision(turn, decided[n], cs[decided[n]] = "allow")])
  BY <1>2
<1>4. /\ S \in SUBSET (1..Len(cs))
      /\ \A k \in S : k \in 1..MaxCalls
      /\ \A k \in first..(next - 1) : cs[k] = "allow" => k \in S
  BY <1>1
<1> HIDE DEF S
<1>5. decided \in Seq(S) /\ DOMAIN decided = 1..Len(decided) /\ Len(decided) \in Nat
  <2>1. \A n \in Nat : \A T \in SUBSET (1..n) : \A list \in Ascending(T) : list \in Seq(T)
    BY AscendingType
  <2>2. decided \in Seq(S)
    BY <1>1, <1>3, <1>4, <2>1
  <2> QED BY <2>2
<1>6. \A k \in S : \E i \in DOMAIN decided : decided[i] = k
  <2>1. \A n \in Nat : \A T \in SUBSET (1..n) : \A list \in Ascending(T) : Covers(list, T)
    BY AscendingCovers
  <2>2. Covers(decided, S)
    BY <1>1, <1>3, <1>4, <2>1
  <2> QED BY <2>2 DEF Covers
<1> DEFINE more == [n \in DOMAIN decided |->
                      Decision(turn, decided[n], cs[decided[n]] = "allow")]
<1>7. more \in Seq(Decisions)
  <2>1. \A n \in 1..Len(decided) : decided[n] \in S
    BY <1>5
  <2>2. \A n \in 1..Len(decided) : decided[n] \in 1..MaxCalls
    BY <1>4, <2>1
  <2> DEFINE verdict(n) == Decision(turn, decided[n], cs[decided[n]] = "allow")
  <2>3. \A k \in 1..MaxCalls : \A ok \in BOOLEAN : Decision(turn, k, ok) \in Decisions
    BY DEF Decision, Decisions
  <2>4. \A n \in 1..Len(decided) : verdict(n) \in Decisions
    BY <2>2, <2>3
  <2> HIDE DEF verdict
  <2>5. [n \in DOMAIN decided |-> verdict(n)] \in Seq(Decisions)
    BY <1>5, <2>4
  <2> QED BY <2>5 DEF verdict
<1>8. \A i \in DOMAIN decided : cs[decided[i]] = "allow" => Approved(more, turn, decided[i])
  BY DEF Approved, Decision
<1>9. DOMAIN more = DOMAIN decided /\ audit' = Recorded(log, more)
  BY <1>3
<1> HIDE DEF more
<1>10. \A k \in first..(next - 1) : cs[k] = "allow" /\ WithSession => Approved(audit', turn, k)
  BY <1>4, <1>6, <1>7, <1>8, <1>9, ApprovalStays
<1>11. \A k \in 1..Len(cs) : Approved(log, turn, k) => Approved(audit', turn, k)
  BY <1>7, <1>9, ApprovalStays
<1>12. ASSUME NEW k \in 1..Len(cs), grant'[k] = "approved"
       PROVE  cs[k] \in {"allow", "ask"} /\ (WithSession => Approved(audit', turn, k))
  <2>1. CASE k \in first..(next - 1)
    <3>1. PolicyGrant(cs[k]) = "approved"
      BY <1>2, <1>12, <2>1
    <3>2. cs[k] = "allow"
      BY <3>1 DEF PolicyGrant
    <3> QED BY <1>10, <2>1, <3>2
  <2>2. CASE k \notin first..(next - 1)
    <3>1. granted[k] = "approved"
      BY <1>2, <1>12, <2>2
    <3> QED BY <1>11, <3>1
  <2> QED BY <2>1, <2>2
<1>13. Covered(session', audit')
  BY <1>7, <1>9, CoveredStays
<1>14. \A k \in DOMAIN tool' : tool'[k] \notin {"running", "success"}
  <2>1. CASE tool' = <<>>
    BY <2>1, EmptySeq
  <2>2. CASE tool' = [k \in 1..Len(cs) |-> IF cs[k] = "rejected" THEN "error" ELSE "waiting"]
    BY <2>2
  <2>3. \/ tool' = <<>>
        \/ tool' = [k \in 1..Len(cs) |-> IF cs[k] = "rejected" THEN "error" ELSE "waiting"]
    BY <1>2
  <2> QED BY <2>1, <2>2, <2>3
<1>15. /\ pending'.answer # "approved"
       /\ pending'.answer # "none" => calls'[pending'.call] = "ask"
  BY <1>2 DEF IsNextAsk, NoRequest
<1>16. \A k \in 1..Len(calls') : grant'[k] = "approved" =>
          /\ calls'[k] \in {"allow", "ask"}
          /\ WithSession => Approved(audit', turn', k)
  BY <1>2, <1>12
<1>17. /\ ~WithSession => session' = <<>>
       /\ pc' # "created"
  BY <1>2
<1> QED BY <1>13, <1>14, <1>15, <1>16, <1>17 DEF AuthorityInv, Approved

(* A step of the worker that touches neither batch nor decisions.            *)
LEMMA AuthorityKept ==
    ASSUME AuthorityInv, UNCHANGED <<calls, grant, tool, turn, audit>>,
           pending' = pending \/ pending' = NoRequest, pc' # "created" \/ pc' = pc,
           Covered(session', audit), ~WithSession => session' = <<>>
    PROVE  AuthorityInv'
<1>1. NoRequest.answer = "none"
  BY DEF NoRequest
<1> QED BY <1>1 DEF AuthorityInv, Approved, Covered

(* A step that leaves the batch behind. *)
LEMMA AuthorityCleared ==
    ASSUME calls' = <<>>, tool' = <<>>, UNCHANGED audit, pending'.answer = "none",
           Covered(session', audit), ~WithSession => session' = <<>>
    PROVE  AuthorityInv'
BY DEF AuthorityInv, Covered, Approved

LEMMA RecordedOrNot ==
    ASSUME NEW log, NEW more, ~WithSession => log = <<>>
    PROVE  ~WithSession => Recorded(log, more) = <<>>
BY DEF Recorded

(* The Host: it cancels, or approves the call it was asked about.            *)
LEMMA HostAuthority ==
    ASSUME TypeInv, AuthorityInv, Host
    PROVE  AuthorityInv'
<1> USE RunAssumption
<1>1. ASSUME NEW q \in Queues, NEW m \in Texts[q], Enqueue(q, m)
      PROVE  AuthorityInv'
  BY <1>1 DEF Enqueue, lifecycle, loop, batch, transcript, AuthorityInv, Covered, Approved
<1>2. ASSUME pending.answer = "open", NEW ok \in BOOLEAN
      PROVE  /\ <<Decision(turn, pending.call, ok)>> \in Seq(Decisions)
             /\ audit \in Seq(Decisions)
             /\ ok => Approved(<<Decision(turn, pending.call, ok)>>, turn, pending.call)
  <2>1. pending.call \in 1..MaxCalls /\ turn \in 1..MaxTurns
    BY <1>2 DEF TypeInv, TypeOK, LoopOK, Placement, Questions
  <2>2. Decision(turn, pending.call, ok) \in Decisions
    BY <2>1 DEF Decision, Decisions
  <2>3. <<Decision(turn, pending.call, ok)>> \in Seq(Decisions) /\ audit \in Seq(Decisions)
    BY <2>2 DEF TypeInv, TypeOK, TranscriptOK
  <2>4. ok => Approved(<<Decision(turn, pending.call, ok)>>, turn, pending.call)
    BY DEF Approved, Decision
  <2> QED BY <2>3, <2>4
<1>3. ASSUME UNCHANGED <<pc, turn, calls, grant, tool, session>>,
             NEW more \in Seq(Decisions), audit' = Recorded(audit, more) \/ audit' = audit,
             pending'.answer # "none" => calls[pending'.call] = "ask",
             pending'.answer = "approved" /\ WithSession => Approved(audit', turn, pending'.call)
      PROVE  AuthorityInv'
  <2>1. audit \in Seq(Decisions)
    BY DEF TypeInv, TypeOK, TranscriptOK
  <2>2. Covered(session, audit')
    BY <1>3, <2>1, CoveredStays DEF AuthorityInv
  <2>3. \A k : Approved(audit, turn, k) => Approved(audit', turn, k)
    BY <1>3, <2>1, ApprovalStays
  <2> QED BY <1>3, <2>2, <2>3 DEF AuthorityInv, Approved, Covered
<1>4. CASE Cancel
  <2>1. /\ UNCHANGED <<pc, turn, calls, grant, tool, session>> /\ pending'.answer = "none"
    BY <1>4 DEF Cancel, loop, batch, NoRequest
  <2>2. CASE pending.answer = "open"
    <3>1. audit' = Recorded(audit, <<Decision(turn, pending.call, FALSE)>>)
      BY <1>4, <2>2 DEF Cancel
    <3> QED BY <1>2, <1>3, <2>1, <2>2, <3>1
  <2>3. CASE pending.answer # "open"
    <3>1. audit' = audit /\ <<>> \in Seq(Decisions)
      BY <1>4, <2>3 DEF Cancel
    <3> QED BY <1>3, <2>1, <3>1
  <2> QED BY <2>2, <2>3
<1>5. ASSUME NEW approved \in BOOLEAN, Resolve(approved)
      PROVE  AuthorityInv'
  <2>1. /\ pending.answer = "open" /\ UNCHANGED <<pc, turn, calls, grant, tool, session>>
        /\ audit' = Recorded(audit, <<Decision(turn, pending.call, approved)>>)
        /\ pending' = [pending EXCEPT !.answer = IF approved THEN "approved" ELSE "denied"]
    BY <1>5 DEF Resolve, lifecycle, loop, batch
  <2>2. /\ pending'.call = pending.call
        /\ pending'.answer = IF approved THEN "approved" ELSE "denied"
    BY <2>1 DEF TypeInv, TypeOK, LoopOK, Questions
  <2>3. /\ <<Decision(turn, pending.call, approved)>> \in Seq(Decisions)
        /\ approved /\ WithSession => Approved(audit', turn, pending.call)
    BY <1>2, <2>1, ApprovalStays
  <2>4. calls[pending'.call] = "ask"
    BY <2>1, <2>2 DEF AuthorityInv
  <2>5. pending'.answer = "approved" /\ WithSession => Approved(audit', turn, pending'.call)
    BY <2>2, <2>3
  <2> DEFINE more == <<Decision(turn, pending.call, approved)>>
  <2>6. more \in Seq(Decisions) /\ audit' = Recorded(audit, more)
    BY <2>1, <2>3
  <2> HIDE DEF more
  <2> QED BY <1>3, <2>1, <2>4, <2>5, <2>6
<1> QED BY <1>1, <1>4, <1>5 DEF Host

(* The tools: only a granted call begins, only a running one succeeds.       *)
LEMMA ToolsAuthority ==
    ASSUME TypeInv, AuthorityInv, Tools \/ BatchInterrupted
    PROVE  AuthorityInv'
<1>1. UNCHANGED <<pending, turn, calls, grant, audit, session>> /\ pc' # "created"
  BY DEF Tools, ToolBegin, ToolEnd, BatchInterrupted, lifecycle, loop, transcript
<1>2. tool \in [1..Len(calls) -> {"waiting", "running", "success", "error", "cancelled"}]
  BY DEF Tools, ToolBegin, ToolEnd, BatchInterrupted, TypeInv, Placement
<1>3. \A k \in DOMAIN tool' : tool'[k] \in {"running", "success"} => grant[k] = "approved"
  <2>1. CASE BatchInterrupted
    BY <1>2, <2>1 DEF BatchInterrupted, AuthorityInv
  <2>2. ASSUME NEW j \in 1..MaxCalls, ToolBegin(j)
        PROVE  \A k \in DOMAIN tool' : tool'[k] \in {"running", "success"} => grant[k] = "approved"
    BY <1>2, <2>2 DEF ToolBegin, AuthorityInv
  <2>3. ASSUME NEW j \in 1..MaxCalls, ToolEnd(j)
        PROVE  \A k \in DOMAIN tool' : tool'[k] \in {"running", "success"} => grant[k] = "approved"
    <3>1. grant[j] = "approved"
      BY <1>2, <2>3 DEF ToolEnd, AuthorityInv
    <3>2. /\ DOMAIN tool' = DOMAIN tool
          /\ \A k \in DOMAIN tool : k # j => tool'[k] = tool[k]
      BY <1>2, <2>3 DEF ToolEnd
    <3> QED BY <3>1, <3>2 DEF AuthorityInv
  <2> QED BY <2>1, <2>2, <2>3 DEF Tools
<1> QED BY <1>1, <1>3 DEF AuthorityInv, Approved, Covered

(* The context, the attempt, and every end: the batch is left alone.         *)
LEMMA ContextAuthority ==
    ASSUME TypeInv, AuthorityInv, QuietInv, Start \/ NeverStarted \/ Compacted
    PROVE  AuthorityInv'
<1>1. session \in Seq(Entries)
  BY DEF TypeInv, TypeOK, TranscriptOK
<1>2. Covered(session, audit) /\ (~WithSession => session = <<>>)
  BY DEF AuthorityInv
<1> DEFINE sent == Recorded(session, <<User(Prompt)>>)
<1>3. Covered(sent, audit) /\ (~WithSession => sent = <<>>)
  <2>1. <<User(Prompt)>> \in Seq(Entries)
    BY EntryTypes
  <2>2. Covered(<<User(Prompt)>>, audit)
    BY DEF Covered, User
  <2> QED BY <1>1, <1>2, <2>1, <2>2, CoveredGrows, RecordedOrNot
<1>4. /\ session' = session \/ session' = sent
      /\ UNCHANGED <<calls, grant, tool, audit>> /\ pc' # "created"
      /\ pending' = pending \/ pending' = NoRequest
  BY DEF Start, NeverStarted, Compacted, BuildContext, ContextBuilt, Suspend, Finish, batch,
         transcript
<1> HIDE DEF sent
<1>5. CASE Start
  <2>1. calls' = <<>> /\ tool' = <<>> /\ pending'.answer = "none"
    BY <1>4, <1>5 DEF Start, AuthorityInv, QuietInv, NoRequest
  <2> QED BY <1>2, <1>3, <1>4, <2>1, AuthorityCleared
<1>6. CASE NeverStarted \/ Compacted
  <2>1. UNCHANGED turn
    BY <1>6 DEF NeverStarted, Compacted, loop
  <2> QED BY <1>2, <1>3, <1>4, <2>1, AuthorityKept
<1> QED BY <1>5, <1>6

LEMMA AttemptAuthority ==
    ASSUME AuthorityInv,
           \/ Unwind \/ Opened \/ ReadDone \/ ReadLast \/ Retry \/ Joined
           \/ CompactionFails \/ CompactionAbandoned
           \/ Cancelled \/ \E kind \in Failures : AttemptFailed(kind)
           \/ Finish("failed") /\ UNCHANGED <<messages, loop, batch, transcript>>
    PROVE  AuthorityInv'
<1>1. UNCHANGED <<calls, grant, tool, turn, audit, session>>
  BY DEF CompactionFails, CompactionAbandoned, Unwind, Opened, ReadDone, ReadLast, Retry, Joined,
         Cancelled, AttemptFailed,
         CloseStream, loop, batch, transcript
<1>2. /\ pending' = pending \/ pending' = NoRequest
      /\ pc' # "created" \/ pc' = pc
  BY DEF CompactionFails, CompactionAbandoned, Unwind, Opened, ReadDone, ReadLast, Retry, Joined,
         Cancelled, AttemptFailed,
         CloseStream, Suspend, Finish, lifecycle
<1>3. Covered(session', audit) /\ (~WithSession => session' = <<>>)
  BY <1>1 DEF AuthorityInv
<1> QED BY <1>1, <1>2, <1>3, AuthorityKept

(* The next turn, and the end of a turn without calls. *)
LEMMA NextTurnAuthority ==
    ASSUME QuietInv, pc # "permission", NEW log, NEW past, NextTurn(log, past),
           calls' = <<>>, tool' = <<>>, UNCHANGED audit,
           Covered(log, audit), ~WithSession => log = <<>>
    PROVE  AuthorityInv'
<1>1. session' = log /\ pending'.answer = "none"
  BY DEF NextTurn, BuildContext, ContextBuilt, Finish, QuietInv, NoRequest
<1> QED BY <1>1, AuthorityCleared

LEMMA ConcludeAuthority ==
    ASSUME TypeInv, QuietInv, pc # "permission",
           NEW log \in Seq(Entries), NEW past, Conclude(log, past),
           calls' = <<>>, tool' = <<>>, UNCHANGED audit,
           Covered(log, audit), ~WithSession => log = <<>>
    PROVE  AuthorityInv'
<1>1. ASSUME NEW q \in Queues,
             NextTurn(Recorded(log, Users(q)), past \o Users(q))
      PROVE  AuthorityInv'
  <2>1. Users(q) \in Seq(Entries) /\ Covered(Users(q), audit)
    BY UsersCovered DEF TypeInv, TypeOK, MessagesOK
  <2>2. /\ Covered(Recorded(log, Users(q)), audit)
        /\ ~WithSession => Recorded(log, Users(q)) = <<>>
    BY <2>1, CoveredGrows, RecordedOrNot
  <2> QED BY <1>1, <2>2, NextTurnAuthority
<1>2. CASE Finish("settled") /\ session' = log
  BY <1>2, AuthorityCleared DEF Finish, NoRequest
<1> QED BY <1>1, <1>2 DEF Conclude, Queues

LEMMA RespondAuthority ==
    ASSUME TypeInv, AuthorityInv, QuietInv, pc = "closing", NEW cs \in Replies, Respond(cs)
    PROVE  AuthorityInv'
<1> USE RunAssumption
<1>1. /\ turn \in 1..MaxTurns /\ session \in Seq(Entries) /\ audit \in Seq(Decisions)
      /\ Covered(session, audit) /\ (~WithSession => session = <<>>)
  BY DEF TypeInv, TypeOK, LoopOK, TranscriptOK, Placement, AuthorityInv
<1> DEFINE log == Recorded(session, <<Assistant(turn, cs)>>)
           past == Append(history, Assistant(turn, cs))
<1>2. /\ log \in Seq(Entries) /\ Covered(log, audit) /\ (~WithSession => log = <<>>)
  <2>1. <<Assistant(turn, cs)>> \in Seq(Entries)
    BY <1>1, EntryTypes
  <2>2. Covered(<<Assistant(turn, cs)>>, audit)
    BY DEF Covered, Assistant
  <2> QED BY <1>1, <2>1, <2>2, CoveredGrows, RecordedType, RecordedOrNot
<1>3. \/ NoBatch /\ Conclude(log, past) /\ UNCHANGED audit
      \/ /\ Authorise(cs, 1, [k \in 1..Len(cs) |-> "none"], audit)
         /\ session' = log /\ UNCHANGED turn
  BY DEF Respond, loop
<1> HIDE DEF log, past
<1>4. CASE NoBatch /\ Conclude(log, past) /\ UNCHANGED audit
  BY <1>2, <1>4, ConcludeAuthority DEF NoBatch
<1>5. CASE /\ Authorise(cs, 1, [k \in 1..Len(cs) |-> "none"], audit)
           /\ session' = log /\ UNCHANGED turn
  <2> DEFINE granted == [k \in 1..Len(cs) |-> "none"]
  <2>1. /\ granted \in [1..Len(cs) -> {"none", "approved", "denied"}]
        /\ \A k \in 1..Len(cs) : granted[k] # "approved"
        /\ 1 \in 1..(Len(cs) + 1)
    BY RepliesType
  <2>2. Authorise(cs, 1, granted, audit)
    BY <1>5
  <2> HIDE DEF granted
  <2> QED BY <1>1, <1>2, <1>5, <2>1, <2>2, AuthoriseCovers
<1> QED BY <1>3, <1>4, <1>5

LEMMA AnsweredAuthority ==
    ASSUME TypeInv, AuthorityInv, Answered
    PROVE  AuthorityInv'
<1> USE RunAssumption
<1> DEFINE granted == [grant EXCEPT ![pending.call] = pending.answer]
<1>1. /\ turn \in 1..MaxTurns /\ calls \in Replies
      /\ pending.call \in 1..Len(calls) /\ pending.answer \in {"approved", "denied"}
      /\ grant \in [1..Len(calls) -> {"none", "approved", "denied"}]
      /\ audit \in Seq(Decisions)
      /\ Authorise(calls, pending.call + 1, granted, audit)
      /\ UNCHANGED <<turn, session>>
  BY DEF Answered, TypeInv, TypeOK, LoopOK, BatchOK, TranscriptOK, Placement, loop
<1>2. pending.call + 1 \in 1..(Len(calls) + 1)
  BY <1>1, RepliesType
<1>3. granted \in [1..Len(calls) -> {"none", "approved", "denied"}]
  BY <1>1
<1>4. \A k \in 1..Len(calls) : granted[k] = "approved" =>
        calls[k] \in {"allow", "ask"} /\ (WithSession => Approved(audit, turn, k))
  BY <1>1 DEF AuthorityInv
<1>5. Covered(session', audit) /\ (~WithSession => session' = <<>>)
  BY <1>1 DEF AuthorityInv
<1> HIDE DEF granted
<1> QED BY <1>1, <1>2, <1>3, <1>4, <1>5, AuthoriseCovers

(* The results of a batch: what succeeded had been granted. *)
LEMMA BatchDoneAuthority ==
    ASSUME TypeInv, AuthorityInv, QuietInv, BatchDone
    PROVE  AuthorityInv'
<1> USE RunAssumption
<1>1. /\ pc = "batch" /\ turn \in 1..MaxTurns
      /\ calls \in Replies /\ completion \in Seq(1..Len(calls))
      /\ \A k \in DOMAIN tool : tool[k] \notin {"waiting", "running"}
      /\ tool \in [1..Len(calls) -> {"waiting", "running", "success", "error", "cancelled"}]
      /\ session \in Seq(Entries)
  BY DEF BatchDone, TypeInv, TypeOK, LoopOK, BatchOK, TranscriptOK, Placement
<1>2. Len(calls) \in 0..MaxCalls /\ DOMAIN calls = 1..Len(calls)
  BY <1>1, RepliesType
<1>3. \A k \in 1..Len(calls) : tool[k] \in Ended
  BY <1>1 DEF Ended
<1>4. PICK rejected \in Ascending({k \in DOMAIN calls : calls[k] = "rejected"}) :
        \E past : NextTurn(Recorded(Recorded(session, InOrderOf(completion \o rejected)),
                                    Users("steering")), past)
  BY DEF BatchDone
<1>5. completion \o rejected \in Seq(1..Len(calls))
  <2> DEFINE S == {k \in DOMAIN calls : calls[k] = "rejected"}
  <2>1. S \in SUBSET (1..Len(calls))
    BY <1>2
  <2>2. rejected \in Ascending(S)
    BY <1>4
  <2> HIDE DEF S
  <2>3. rejected \in Seq(S)
    <3>1. Len(calls) \in Nat
      BY <1>2
    <3>2. \A n \in Nat : \A T \in SUBSET (1..n) : \A list \in Ascending(T) : list \in Seq(T)
      BY AscendingType
    <3> QED BY <2>1, <2>2, <3>1, <3>2
  <2>4. Len(rejected) \in Nat /\ rejected \in [1..Len(rejected) -> S]
    BY <2>3
  <2>5. rejected \in [1..Len(rejected) -> 1..Len(calls)]
    BY <2>1, <2>4
  <2>6. rejected \in Seq(1..Len(calls))
    BY <2>4, <2>5
  <2> QED BY <1>1, <2>6, ConcatProperties
<1> DEFINE ks == completion \o rejected
           results == InOrderOf(ks)
<1>6. results \in Seq(Entries)
  BY <1>1, <1>2, <1>3, <1>5, ResultsType
<1>7. WithSession => Covered(results, audit)
  <2>1. \A k \in 1..Len(calls) : tool[k] = "success" /\ WithSession => Approved(audit, turn, k)
    BY <1>1 DEF AuthorityInv
  <2> HIDE DEF ks
  <2>2. /\ DOMAIN results = 1..Len(ks)
        /\ \A n \in 1..Len(ks) : results[n] = Result(turn, ks[n], tool[ks[n]])
    BY DEF InOrderOf
  <2>3. \A n \in 1..Len(ks) : ks[n] \in 1..Len(calls)
    BY <1>5 DEF ks
  <2> HIDE DEF results
  <2> QED BY <2>1, <2>2, <2>3 DEF Covered, Result
<1> HIDE DEF results
<1> DEFINE log == Recorded(session, results)
<1>8. /\ log \in Seq(Entries) /\ Covered(log, audit) /\ (~WithSession => log = <<>>)
  <2>1. Covered(session, audit) /\ (~WithSession => session = <<>>)
    BY DEF AuthorityInv
  <2>2. CASE WithSession
    BY <1>1, <1>6, <1>7, <2>1, <2>2, CoveredGrows, RecordedType
  <2>3. CASE ~WithSession
    BY <1>1, <2>1, <2>3 DEF Recorded
  <2> QED BY <2>2, <2>3
<1> HIDE DEF log
<1>9. Users("steering") \in Seq(Entries) /\ Covered(Users("steering"), audit)
  <2>1. queue \in Waiting /\ "steering" \in Queues
    BY DEF TypeInv, TypeOK, MessagesOK, Queues
  <2> QED BY <2>1, UsersCovered
<1>10. /\ Covered(Recorded(log, Users("steering")), audit)
       /\ ~WithSession => Recorded(log, Users("steering")) = <<>>
  BY <1>8, <1>9, CoveredGrows, RecordedOrNot
<1>11. \E past : NextTurn(Recorded(log, Users("steering")), past)
  BY <1>4 DEF log, results, ks
<1>12. calls' = <<>> /\ tool' = <<>> /\ UNCHANGED audit
  BY DEF BatchDone, NoBatch
<1> QED BY <1>1, <1>10, <1>11, <1>12, NextTurnAuthority

LEMMA AuthorityInvInductive ==
    ASSUME TypeInv, QuietInv, AuthorityInv, [Next]_vars
    PROVE  AuthorityInv'
<1>1. CASE UNCHANGED vars
  BY <1>1 DEF vars, lifecycle, loop, batch, transcript, AuthorityInv, Covered, Approved
<1>2. CASE Host
  BY <1>2, HostAuthority
<1>3. CASE Tools
  BY <1>3, ToolsAuthority
<1>4. CASE Worker
  <2>1. CASE Start \/ NeverStarted \/ Compacted
    BY <2>1, ContextAuthority
  <2>2. CASE \/ Unwind \/ Opened \/ ReadDone \/ ReadLast \/ Retry \/ Joined
             \/ CompactionFails \/ CompactionAbandoned
    BY <2>2, AttemptAuthority
  <2>3. CASE Closed
    <3>1. pc = "closing"
      BY <2>3 DEF Closed
    <3>2. CASE \/ Cancelled \/ \E kind \in Failures : AttemptFailed(kind)
               \/ Finish("failed") /\ UNCHANGED <<messages, loop, batch, transcript>>
      BY <3>2, AttemptAuthority
    <3>3. CASE \E cs \in Replies : Respond(cs)
      BY <3>1, <3>3, RespondAuthority
    <3> QED BY <2>3, <3>2, <3>3 DEF Closed
  <2>4. CASE Answered
    BY <2>4, AnsweredAuthority
  <2>5. CASE BatchDone
    BY <2>5, BatchDoneAuthority
  <2>6. CASE BatchInterrupted
    BY <2>6, ToolsAuthority
  <2> QED BY <1>4, <2>1, <2>2, <2>3, <2>4, <2>5, <2>6 DEF Worker
<1> QED BY <1>1, <1>2, <1>3, <1>4 DEF Next

LEMMA AuthorityInvHolds == Spec => []AuthorityInv
<1>1. Init => AuthorityInv
  BY DEF Init, AuthorityInv, Covered, NoRequest
<1>2. TypeInv /\ QuietInv /\ AuthorityInv /\ [Next]_vars => AuthorityInv'
  BY AuthorityInvInductive
<1> QED BY <1>1, <1>2, TypeInvHolds, QuietInvHolds, PTL DEF Spec

(* No effect without authority: a tool that runs or has run was allowed by   *)
(* the policy or approved by the Host, and with a Session every success has  *)
(* its approval on record.                                                   *)
THEOREM EffectsAreAuthorised == Spec => []EffectsAuthorised
<1>1. ASSUME TypeInv, AuthorityInv
      PROVE  EffectsAuthorised
  <2>1. ASSUME NEW k \in DOMAIN tool, tool[k] \in {"running", "success"}
        PROVE  /\ calls[k] \in {"allow", "ask"} /\ grant[k] = "approved"
               /\ WithSession => \E n \in DecisionsOn(turn, k) : audit[n].approved
    <3>1. k \in 1..Len(calls)
      BY <1>1 DEF TypeInv, TypeOK, BatchOK
    <3> QED BY <1>1, <2>1, <3>1 DEF AuthorityInv, Approved, DecisionsOn
  <2>2. ASSUME NEW e \in ToSet(session), e.role = "tool", e.status = "success"
        PROVE  \E n \in DecisionsOn(e.turn, e.call) : audit[n].approved
    <3>1. PICK n \in DOMAIN session : session[n] = e
      BY DEF ToSet
    <3>2. Approved(audit, e.turn, e.call)
      BY <1>1, <2>2, <3>1 DEF AuthorityInv, Covered
    <3> QED BY <3>2 DEF Approved, DecisionsOn
  <2> QED BY <2>1, <2>2 DEF EffectsAuthorised
<1> QED BY <1>1, TypeInvHolds, AuthorityInvHolds, PTL
=============================================================================
