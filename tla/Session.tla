------------------------------- MODULE Session -------------------------------
(* A Session: an append-only tree of entries with one Active Branch, its     *)
(* handles in memory, and the log of a JsonlSessionStore they share.         *)
(*                                                                           *)
(* A call of a handle is synchronous: it prepares records, runs one append   *)
(* of the store to its end, and only then changes the handle. Nothing else   *)
(* runs meanwhile, but the store may fail, and the process may die.          *)
EXTENDS JsonlSessionStore

CONSTANTS
    Handles,       \* Session objects of one process, for one session_id
    MaxEntries,    \* bound on the entries of the tree
    MaxRecords     \* bound on the records of the log

ASSUME SessionAssumption == MaxEntries \in Nat /\ MaxRecords \in Nat

VARIABLES
    mem,           \* what each handle holds in memory, or NoSession
    call,          \* the call in progress: the handle, and what it adds
    doubted,       \* handles that do not know the outcome of their last append
    spoilt         \* whether such a handle has gone on

vars == <<storeVars, mem, call, doubted, spoilt>>

Kinds == {"configuration", "message", "custom", "compaction"}
Entry(id, parent, kind, covers) == [id |-> id, parent |-> parent, kind |-> kind, covers |-> covers]
NoEntry == Entry(0, 0, "none", 0)

(* PersistenceRecord *)
Record(seq, kind, entry, leaf) == [seq |-> seq, kind |-> kind, entry |-> entry, leaf |-> leaf]

NoSession == [entries |-> <<>>, leaf |-> 0, next |-> 0, closed |-> TRUE]
NewSession == [entries |-> <<>>, leaf |-> 0, next |-> 1, closed |-> FALSE]
NoCall == [handle |-> "none", records |-> <<>>, from |-> NoSession]

-----------------------------------------------------------------------------
(* The tree *)

WithEntry(entries, entry) ==
    [id \in DOMAIN entries \cup {entry.id} |-> IF id = entry.id THEN entry ELSE entries[id]]

(* _branch_to: the entries from the root to an entry.                        *)
BranchTo(entries, leaf) ==
    LET path[id \in DOMAIN entries] ==
            LET entry == entries[id]
            IN  Append(IF entry.parent = 0 THEN <<>> ELSE path[entry.parent], entry)
    IN  path[leaf]

Messages(branch) == SelectSeq(branch, LAMBDA e : e.kind = "message")
Checkpoints(branch) == SelectSeq(branch, LAMBDA e : e.kind = "compaction")

(* _validate_v2_compaction_payload: a checkpoint covers a prefix of the      *)
(* messages of its branch, and more of them than the checkpoint before it.   *)
LegalCoverage(branch, covers) ==
    LET before == Checkpoints(branch)
        covered == IF before = <<>> THEN 0 ELSE Last(before).covers
    IN  covers > covered /\ covers <= Len(Messages(branch))

-----------------------------------------------------------------------------
(* _replay *)

Refused == [NoSession EXCEPT !.leaf = -1]

LegalEntry(session, entry) ==
    /\ entry.id \notin DOMAIN session.entries
    /\ IF session.entries = <<>>
       THEN entry.parent = 0 /\ entry.kind = "configuration"
       ELSE entry.parent \in DOMAIN session.entries
    /\ entry.kind = "compaction" => LegalCoverage(BranchTo(session.entries, entry.parent), entry.covers)

ReplayRecord(session, record) ==
    LET counted == [session EXCEPT !.next = @ + 1]
    IN  IF session = Refused \/ record.seq # session.next THEN Refused
        ELSE CASE record.kind = "entry" /\ ~session.closed /\ LegalEntry(session, record.entry) ->
                    [counted EXCEPT !.entries = WithEntry(@, record.entry),
                                    !.leaf = record.entry.id]
               [] record.kind = "active_leaf" /\ ~session.closed /\ record.leaf \in DOMAIN session.entries ->
                    [counted EXCEPT !.leaf = record.leaf]
               [] record.kind = "closed" /\ ~session.closed -> [counted EXCEPT !.closed = TRUE]
               [] record.kind = "resumed" /\ session.closed -> [counted EXCEPT !.closed = FALSE]
               [] OTHER -> Refused

Replay(records) ==
    LET session[n \in 0..Len(records)] ==
            IF n = 0 THEN NewSession
            ELSE ReplayRecord(session[n - 1], records[n])
    IN  session[Len(records)]

Log == FlattenSeq(Visible(file))

-----------------------------------------------------------------------------
(* Calls *)

Init ==
    /\ StoreInit
    /\ mem = [h \in Handles |-> NoSession]
    /\ call = NoCall
    /\ doubted = {} /\ spoilt = FALSE

(* A call hands its records to the store. A handle that goes on after an     *)
(* append of which it does not know the outcome builds on a log that may     *)
(* not be the one it knows.                                                  *)
Call(h, session, records, lines) ==
    /\ Len(Log) + Len(records) <= MaxRecords
    /\ StartAppend(lines)
    /\ call' = [handle |-> h, records |-> records, from |-> session]
    /\ spoilt' = (spoilt \/ (h \in doubted /\ session = mem[h]))
    /\ UNCHANGED <<mem, doubted>>

(* Unique entry ids: the next that no line and no handle knows.              *)
Known == {record.entry.id : record \in UNION {ToSet(line.content) : line \in ToSet(file)}}
             \cup UNION {DOMAIN mem[h].entries : h \in Handles}
FreshId == 1 + (CHOOSE n \in Known \cup {0} : \A m \in Known : m <= n)

One(h, session, kind, entry, leaf) ==
    LET record == Record(session.next, kind, entry, leaf)
    IN  Call(h, session, <<record>>, <<Line(record)>>)

(* Session.create: only where nothing is stored.                             *)
Create(h) ==
    /\ mem[h].closed
    /\ ~Corrupt(file) /\ Log = <<>>
    /\ FreshId <= MaxEntries
    /\ One(h, NewSession, "entry",
           Entry(FreshId, 0, "configuration", 0), 0)

(* Fault: whether the stored Session was closed is not looked at.            *)
ResumeUnclosed(h) ==
    LET session == Replay(Log)
    IN  /\ mem[h].closed
        /\ ~Corrupt(file) /\ Log # <<>>
        /\ session # Refused
        /\ One(h, session, "resumed", NoEntry, 0)

(* Session.resume: replay what is stored, which must end in a close.         *)
Resume(h) ==
    LET session == Replay(Log)
    IN  /\ mem[h].closed
        /\ ~Corrupt(file) /\ Log # <<>>
        /\ session # Refused /\ session.closed
        /\ One(h, session, "resumed", NoEntry, 0)

(* record_authoritative_message, record_user_message, record_tool_result,    *)
(* record_permission_decision: one entry under the active leaf.              *)
RecordMessage(h) ==
    /\ ~mem[h].closed
    /\ FreshId <= MaxEntries
    /\ One(h, mem[h], "entry", Entry(FreshId, mem[h].leaf, "message", 0), 0)

(* append_custom_many: a chain of entries in one batch.                      *)
AppendCustomMany(h) ==
    LET first == Entry(FreshId, mem[h].leaf, "custom", 0)
        second == Entry(FreshId + 1, FreshId, "custom", 0)
        records == <<Record(mem[h].next, "entry", first, 0),
                     Record(mem[h].next + 1, "entry", second, 0)>>
    IN  /\ ~mem[h].closed
        /\ FreshId + 1 <= MaxEntries
        /\ Call(h, mem[h], records, Framed(records))

(* record_compaction *)
RecordCompaction(h) ==
    LET branch == BranchTo(mem[h].entries, mem[h].leaf)
    IN  /\ ~mem[h].closed
        /\ FreshId <= MaxEntries
        /\ \E covers \in 1..MaxEntries :
              /\ LegalCoverage(branch, covers)
              /\ One(h, mem[h], "entry", Entry(FreshId, mem[h].leaf, "compaction", covers), 0)

(* fork: any entry may become the parent of what follows.                    *)
Fork(h) ==
    /\ ~mem[h].closed
    /\ \E id \in DOMAIN mem[h].entries :
          id # mem[h].leaf /\ One(h, mem[h], "active_leaf", NoEntry, id)

Close(h) ==
    /\ ~mem[h].closed
    /\ One(h, mem[h], "closed", NoEntry, 0)

(* Fault: fork leaves the handle on the leaf it had.                         *)
AppliedWithoutLeaf(session, record) ==
    LET counted == [session EXCEPT !.next = @ + 1]
    IN  CASE record.kind = "entry" ->
               [counted EXCEPT !.entries = WithEntry(@, record.entry),
                               !.leaf = record.entry.id]
          [] record.kind = "active_leaf" -> counted
          [] record.kind = "closed" -> [counted EXCEPT !.closed = TRUE]
          [] record.kind = "resumed" -> [counted EXCEPT !.closed = FALSE]

(* What a call does to its handle once the store has returned.               *)
Applied(session, record) ==
    LET counted == [session EXCEPT !.next = @ + 1]
    IN  CASE record.kind = "entry" ->
               [counted EXCEPT !.entries = WithEntry(@, record.entry),
                               !.leaf = record.entry.id]
          [] record.kind = "active_leaf" -> [counted EXCEPT !.leaf = record.leaf]
          [] record.kind = "closed" -> [counted EXCEPT !.closed = TRUE]
          [] record.kind = "resumed" -> [counted EXCEPT !.closed = FALSE]

AppliedAll(session, records) ==
    LET after[n \in 0..Len(records)] ==
            IF n = 0 THEN session ELSE Applied(after[n - 1], records[n])
    IN  after[Len(records)]

Returned ==
    /\ phase = "returned"
    /\ mem' = [mem EXCEPT ![call.handle] = AppliedAll(call.from, call.records)]
    /\ doubted' = doubted \ {call.handle}

(* Fault: the handle changes before its record is stored.                    *)
RaisedAfterChange ==
    /\ phase \in {"raised", "unsure"}
    /\ mem' = [mem EXCEPT ![call.handle] = AppliedAll(call.from, call.records)]
    /\ doubted' = IF phase = "unsure" THEN doubted \cup {call.handle} ELSE doubted

(* The handle is as it was before the call; create and resume yield none.    *)
Raised ==
    /\ phase \in {"raised", "unsure"}
    /\ doubted' = IF phase = "unsure" THEN doubted \cup {call.handle} ELSE doubted
    /\ UNCHANGED mem

EndCall == EndAppend /\ (Returned \/ Raised) /\ call' = NoCall /\ UNCHANGED spoilt

(* The process dies: its handles are gone, the file remains.                 *)
Crash ==
    /\ StoreCrash
    /\ mem' = [h \in Handles |-> NoSession]
    /\ call' = NoCall
    /\ doubted' = {} /\ UNCHANGED spoilt

Next ==
    \/ \E h \in Handles :
          Create(h) \/ Resume(h) \/ RecordMessage(h) \/ AppendCustomMany(h)
             \/ RecordCompaction(h) \/ Fork(h) \/ Close(h)
    \/ StoreStep /\ UNCHANGED <<mem, call, doubted, spoilt>>
    \/ EndCall
    \/ Crash

Spec == Init /\ [][Next]_vars

-----------------------------------------------------------------------------
(* Properties *)

InProgress == phase \in {"repair", "write", "sync", "rollback"}

(* What a load would find if the call in progress had not begun.             *)
Stored == IF phase \in {"write", "sync", "rollback"} THEN SubSeq(file, 1, size) ELSE file

Promise == INSTANCE SessionStore WITH
    visible <- Visible(Stored),
    stable <- Len(Visible(SubSeq(file, 1, durable))),
    batch <- call.records,
    fate <- IF InProgress THEN "running" ELSE phase

(* However appends fail, are interrupted or die, and whatever they leave of  *)
(* their lines, the store keeps its promise: batches are there whole or not  *)
(* at all, and what was returned stays.                                      *)
StorePromise == Promise!Spec

(* No such tail ever makes the file one a load refuses as corrupt.           *)
LoadsAccepted == ~Corrupt(file)

(* As long as no handle has gone on after an append of unknown outcome, the  *)
(* log replays: what a handle adds is what a later resume accepts.           *)
Recoverable == ~spoilt /\ Log # <<>> => Replay(Log) # Refused

(* An open handle holds in memory what a replay of the log would give it:    *)
(* the tree, the active leaf and the next sequence number.                   *)
HandleFollowsLog ==
    ~spoilt /\ phase = "idle" =>
        \A h \in Handles \ doubted : ~mem[h].closed => mem[h] = Replay(Log)

(* The close record is a lock: of the handles that know what they stored at  *)
(* most one is open.                                                         *)
SingleWriter ==
    ~spoilt => \A g, h \in Handles \ doubted : ~mem[g].closed /\ ~mem[h].closed => g = h

(* "raising means none of the records are visible", so a Session whose close *)
(* returned can be resumed, also after an append of it has raised.           *)
ClosedSessionsResume ==
    phase = "returned" /\ call.records[1].kind = "closed" => Replay(Log) # Refused
=============================================================================
