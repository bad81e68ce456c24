----------------------------- MODULE RunContract -----------------------------
(***************************************************************************)
(* What an AgentRun promises the Host that holds it, with the agent loop   *)
(* left out: every message the run accepts is injected or dropped, once    *)
(* and in the order it was accepted; steering goes before follow-ups; at   *)
(* most one Permission Request is open, and nothing ends while it is; a    *)
(* settled run has left no accepted message behind; an ended run does      *)
(* nothing more.  AgentRun implements this specification.                  *)
(***************************************************************************)
EXTENDS Sequences, SequencesExt

CONSTANTS Steering, FollowUps   \* the messages a Host may send, by queue

VARIABLES
    status,     \* "active", or the one terminal state of the run
    withdrawn,  \* the Host has cancelled the run
    waiting,    \* accepted messages not yet injected or dropped, by queue
    accepted,   \* messages announced as queued, in order, by queue
    delivered,  \* messages announced as injected, in order, by queue
    discarded,  \* messages announced as dropped, in order, by queue
    question    \* the Permission Request: "none", "open" or "answered"

contractVars ==
    <<status, withdrawn, waiting, accepted, delivered, discarded, question>>

Queues == {"steering", "follow_up"}
Texts == [steering |-> Steering, follow_up |-> FollowUps]
Empty == [q \in Queues |-> <<>>]

ContractInit ==
    /\ status = "active"
    /\ withdrawn = FALSE
    /\ waiting = Empty
    /\ accepted = Empty
    /\ delivered = Empty
    /\ discarded = Empty
    /\ question = "none"

(* The Host queues a message on a run that is active and not cancelled. *)
Accept(q, m) ==
    /\ status = "active"
    /\ ~withdrawn
    /\ m \notin ToSet(accepted[q])
    /\ accepted' = [accepted EXCEPT ![q] = Append(@, m)]
    /\ waiting' = [waiting EXCEPT ![q] = Append(@, m)]
    /\ UNCHANGED <<status, withdrawn, delivered, discarded, question>>

(* The Host cancels: what waits is dropped and the question is closed. *)
Withdraw ==
    /\ status = "active"
    /\ ~withdrawn
    /\ withdrawn' = TRUE
    /\ discarded' = [q \in Queues |-> discarded[q] \o waiting[q]]
    /\ waiting' = Empty
    /\ question' = "none"
    /\ UNCHANGED <<status, accepted, delivered>>

Answer ==
    /\ status = "active"
    /\ ~withdrawn
    /\ question = "open"
    /\ question' = "answered"
    /\ UNCHANGED <<status, withdrawn, waiting, accepted, delivered, discarded>>

(* The run goes on: it delivers whole queues, steering before follow-ups, *)
(* asks for permission, or ends.                                          *)
Advance(drained) ==
    /\ status = "active"
    /\ question # "open"
    /\ "follow_up" \in drained => waiting["steering"] = <<>>
    /\ delivered' = [q \in Queues |->
                       IF q \in drained THEN delivered[q] \o waiting[q]
                                        ELSE delivered[q]]
    /\ waiting' = [q \in Queues |-> IF q \in drained THEN <<>> ELSE waiting[q]]
    /\ status' \in {"active", "settled", "cancelled", "failed"}
    /\ question' \in {"none", "open"}
    /\ status' # "active" => question' = "none"
    /\ status' = "settled" => waiting' = Empty
    /\ UNCHANGED <<withdrawn, accepted, discarded>>

ContractNext ==
    \/ \E q \in Queues : \E m \in Texts[q] : Accept(q, m)
    \/ Withdraw
    \/ Answer
    \/ \E drained \in {{}, {"steering"}, {"follow_up"}} : Advance(drained)

Contract == ContractInit /\ [][ContractNext]_contractVars
=============================================================================
