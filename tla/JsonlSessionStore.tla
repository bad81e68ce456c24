-------------------------- MODULE JsonlSessionStore --------------------------
(* The JSONL SessionStore: a file of lines, one call at a time.              *)
(*                                                                           *)
(* An append is several effects on the file (truncation of an interrupted    *)
(* tail, write, fsync, truncation of what failed), each of which may fail,   *)
(* be interrupted, or be the last thing the process does. A load is a scan   *)
(* of the file that exposes a batch only after its commit frame.             *)
EXTENDS Naturals, Sequences, FiniteSets, SequencesExt

VARIABLES
    file,      \* the lines of the file; a torn line has no end
    durable,   \* how many of them a crash cannot take away
    phase,     \* where the call in progress stands
    payload,   \* the lines it appends
    size       \* previous_size: the length its rollback returns to

storeVars == <<file, durable, phase, payload, size>>

(* Lines: a record, the frames around a batch (whose digest stands for the   *)
(* records themselves), or what a write or a crash left of a line.           *)
Line(record) == [type |-> "record", content |-> <<record>>]
Frame(type, records) == [type |-> type, content |-> records]
Torn == [type |-> "torn", content |-> <<>>]

(* append writes a record as its line, append_many frames a batch.           *)
Framed(records) ==
    <<Frame("begin", records)>> \o [n \in DOMAIN records |-> Line(records[n])]
        \o <<Frame("commit", records)>>

(* What an interrupted write of lines can leave behind.                      *)
Parts(lines) ==
    {SubSeq(lines, 1, n) : n \in 0..Len(lines)}
        \cup {Append(SubSeq(lines, 1, n), Torn) : n \in 0..(Len(lines) - 1)}

(* What a crash can leave of a file whose first n lines are safe.            *)
Remains(lines, n) ==
    {SubSeq(lines, 1, n) \o part : part \in Parts(SubSeq(lines, n + 1, Len(lines)))}

-----------------------------------------------------------------------------
(* _scan *)

(* The begin frame of the batch that line n of a file would be part of.      *)
OpenFrames(lines, n) ==
    {b \in 1..(n - 1) : /\ lines[b].type = "begin"
                        /\ \A m \in (b + 1)..(n - 1) : lines[m].type # "commit"}

InBatch(lines, n) == OpenFrames(lines, n) # {}

(* The scan stops at a line without an end; in a batch also at what is no    *)
(* JSON, such as a line without an end that more bytes have followed.        *)
Stops(lines) ==
    {n \in DOMAIN lines : lines[n].type = "torn" /\ (n = Len(lines) \/ InBatch(lines, n))}

Read(lines) == LET stops == Stops(lines)
               IN  {n \in DOMAIN lines : \A stop \in stops : n < stop}

(* A batch is exposed at its commit frame, if that frame fits it.            *)
Fits(lines, n) ==
    \E b \in OpenFrames(lines, n) :
        /\ lines[b].content = lines[n].content
        /\ Len(lines[n].content) = n - b - 1
        /\ \A m \in 1..(n - b - 1) : lines[b + m].content = <<lines[n].content[m]>>

Corrupt(lines) ==
    \E n \in Read(lines) :
        \/ lines[n].type = "torn"
        \/ lines[n].type = "begin" /\ InBatch(lines, n)
        \/ lines[n].type = "commit" /\ ~Fits(lines, n)

(* A batch ends with its commit frame; a record outside of a frame is a      *)
(* batch of its own.                                                         *)
EndsBatch(lines, n) ==
    /\ n \in Read(lines)
    /\ \/ lines[n].type = "commit"
       \/ lines[n].type = "record" /\ ~InBatch(lines, n)

SafeLength(lines) == Max({n \in DOMAIN lines : EndsBatch(lines, n)} \cup {0})

(* The batches a load has found when it has read n lines.                    *)
Exposed(lines) ==
    LET found[n \in 0..Len(lines)] ==
            IF n = 0 THEN <<>>
            ELSE IF EndsBatch(lines, n) THEN Append(found[n - 1], lines[n].content)
            ELSE found[n - 1]
    IN  found

Visible(lines) == Exposed(lines)[Len(lines)]

-----------------------------------------------------------------------------
(* append, append_many *)

StoreInit ==
    /\ file = <<>> /\ durable = 0 /\ size = 0
    /\ phase = "idle" /\ payload = <<>>

StartAppend(lines) ==
    /\ phase = "idle" /\ phase' = "repair"
    /\ payload' = lines
    /\ UNCHANGED <<file, durable, size>>

(* Fault: what an interrupted write left is not removed.                     *)
RepairNothing ==
    /\ phase = "repair" /\ phase' = "write"
    /\ size' = Len(file)
    /\ UNCHANGED <<file, durable, payload>>

(* _repair_interrupted_tail: nothing is written behind an interrupted tail.  *)
(* A file the scan refuses, or a truncation that fails, fails the call.      *)
RepairTail ==
    LET safe == SafeLength(file)
        kept == SubSeq(file, 1, safe)
    IN  /\ phase = "repair"
        /\ UNCHANGED payload
        /\ \/ /\ ~Corrupt(file)
              /\ file' = kept
              /\ durable' = IF safe < Len(file) THEN safe ELSE durable
              /\ size' = safe /\ phase' = "write"
           \/ /\ Corrupt(file) \/ safe < Len(file)
              /\ file' \in IF Corrupt(file) THEN {file} ELSE {file, kept}
              /\ durable' = IF durable < Len(file') THEN durable ELSE Len(file')
              /\ phase' = "raised"
              /\ UNCHANGED size

(* _append_text up to its flush; an error leaves what was written so far.    *)
WritePayload ==
    /\ phase = "write"
    /\ \/ file' = file \o payload /\ phase' = "sync"
       \/ file' \in {file \o part : part \in Parts(payload)} /\ phase' = "rollback"
    /\ UNCHANGED <<durable, payload, size>>

(* Fault: the call returns when its lines are written, without fsync.        *)
SyncNothing ==
    /\ phase = "sync" /\ phase' = "returned"
    /\ UNCHANGED <<file, durable, payload, size>>

SyncPayload ==
    /\ phase = "sync"
    /\ \/ phase' = "returned" /\ durable' = Len(file)
       \/ phase' = "rollback" /\ UNCHANGED durable
    /\ UNCHANGED <<file, payload, size>>

(* _append_transactionally: truncate to where the call began. When that      *)
(* fails too the call raises a SessionStateError and nothing more is tried.  *)
RollBack ==
    /\ phase = "rollback"
    /\ \/ /\ file' = SubSeq(file, 1, size) /\ durable' = size
          /\ phase' = "raised"
       \/ /\ file' \in {file, SubSeq(file, 1, size)}
          /\ phase' = "unsure"
          /\ UNCHANGED durable
    /\ UNCHANGED <<payload, size>>

(* An interrupt (KeyboardInterrupt) is no Exception: it ends the call where  *)
(* it is, and nothing is rolled back.                                        *)
Interrupt ==
    /\ \/ phase = "repair" /\ UNCHANGED file
       \/ phase = "write" /\ file' \in {file \o part : part \in Parts(payload)}
       \/ phase = "sync" /\ UNCHANGED file
       \/ phase = "rollback" /\ file' \in {file, SubSeq(file, 1, size)}
    /\ phase' = "unsure"
    /\ UNCHANGED <<durable, payload, size>>

StoreStep == RepairTail \/ WritePayload \/ SyncPayload \/ RollBack \/ Interrupt

EndAppend ==
    /\ phase' = "idle" /\ payload' = <<>>
    /\ UNCHANGED <<file, durable, size>>

(* The process dies, the machine with it or not.                             *)
StoreCrash ==
    /\ LET written == IF phase = "write" THEN file \o payload ELSE file
       IN  file' \in Remains(written, durable)
    /\ durable' \in {durable, Len(file')} /\ size' = 0
    /\ phase' = "idle" /\ payload' = <<>>

=============================================================================
