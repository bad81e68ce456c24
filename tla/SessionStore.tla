---------------------------- MODULE SessionStore ----------------------------
(* What a SessionStore promises its Session: an append is one transaction    *)
(* over a whole batch of records. A call that returns has made its batch     *)
(* durable, a call that raises has left nothing, and only a call of which    *)
(* neither is known (its rollback failed, it was interrupted, or the process *)
(* died) leaves the choice open; even then a batch is there whole or not.    *)
EXTENDS Naturals, Sequences

VARIABLES
    visible,   \* the batches a load finds
    stable,    \* how many of them no crash can take away
    batch,     \* the batch of the call in progress
    fate       \* "idle", "running", "returned", "raised" or "unsure"

storeVars == <<visible, stable, batch, fate>>

Init == visible = <<>> /\ stable = 0 /\ batch = <<>> /\ fate = "idle"

Start ==
    /\ fate = "idle" /\ fate' = "running"
    /\ batch' # <<>>
    /\ UNCHANGED <<visible, stable>>

(* Writing down what is already visible is nothing a load can tell.          *)
Settle ==
    /\ UNCHANGED <<fate, batch, visible>>
    /\ stable' \in stable..Len(visible)

Return ==
    /\ fate = "running" /\ fate' = "returned"
    /\ visible' = Append(visible, batch)
    /\ stable' = Len(visible')
    /\ UNCHANGED batch

Raise ==
    /\ fate = "running" /\ fate' = "raised"
    /\ stable' \in stable..Len(visible)
    /\ UNCHANGED <<visible, batch>>

Doubt ==
    /\ fate = "running" /\ fate' = "unsure"
    /\ visible' \in {visible, Append(visible, batch)}
    /\ UNCHANGED <<stable, batch>>

Finish ==
    /\ fate \in {"returned", "raised", "unsure"} /\ fate' = "idle"
    /\ batch' = <<>>
    /\ UNCHANGED <<visible, stable>>

Crash ==
    LET known == IF fate = "running" THEN Append(visible, batch) ELSE visible
    IN  /\ fate' = "idle" /\ batch' = <<>>
        /\ Len(visible') \in stable..Len(known)
        /\ visible' = SubSeq(known, 1, Len(visible'))
        /\ stable' \in stable..Len(visible')

Next == Start \/ Return \/ Raise \/ Doubt \/ Finish \/ Settle \/ Crash

Spec == Init /\ [][Next]_storeVars
=============================================================================
