----------------------------- MODULE RecordFile -----------------------------
(***************************************************************************)
(* record.File: the issuance record as the bytes of a file, appended to by *)
(* the goroutines of a process that can be killed, can lose power and can  *)
(* be started again on the same file.                                      *)
(*                                                                         *)
(* A row is a line of JSON.  What a reader can tell apart is the start of  *)
(* a row and its end, which carries the newline, so the file is a sequence *)
(* of those: a whole row is <<start, end>> and a torn one <<start>>.        *)
(* The file is opened O_APPEND, so a write always goes to the end of what  *)
(* is there, torn or not.                                                  *)
(*                                                                         *)
(* The disk is the operating system's: a sync that fails may leave pages   *)
(* marked as clean that were never written, and the next sync, which has   *)
(* nothing to do for them, succeeds.  A power loss shows it: they are a    *)
(* hole in the file.                                                       *)
(***************************************************************************)
EXTENDS Integers, Sequences, FiniteSets

CONSTANTS
    Rows,        \* issuances: each is recorded by one call of Record
    MaxOutages   \* bound on the ends of the process

ASSUME RecordAssumption == MaxOutages \in Nat

VARIABLES
    file,      \* the pieces in the file as the operating system has it
    synced,    \* how many of them the last sync that succeeded covered
    dropped,   \* where pieces are that a failed sync left off the disk
    process,   \* "open", "closed" (after Recorder.Close) or "down"
    call,      \* where the call of Record for each row is
    acked,     \* rows Record returned nil for
    outages,   \* ends of the process so far
    tears      \* times a failure left a row without its end, or may have

vars == <<file, synced, dropped, process, call, acked, outages, tears>>

Start(r) == [row |-> r, part |-> "start"]
End(r) == [row |-> r, part |-> "end"]
Hole(r) == [row |-> r, part |-> "hole"]
Pieces == UNION {{Start(r), End(r), Hole(r)} : r \in Rows}

\* File.mu is held from the write to the end of the sync.
Locked == \E r \in Rows : call[r] = "written"

\* Where a row's bytes are, whole and in one piece.
WholeAt(r, k) ==
    /\ k \in 1 .. Len(file) - 1
    /\ file[k] = Start(r)
    /\ file[k + 1] = End(r)

Init ==
    /\ file = <<>>
    /\ synced = 0
    /\ dropped = {}
    /\ process = "open"
    /\ call = [r \in Rows |-> "none"]
    /\ acked = {}
    /\ outages = 0
    /\ tears = 0

\* Record is called for an issuance and waits for the mutex.
Record(r) ==
    /\ process # "down"
    /\ call[r] = "none"
    /\ call' = [call EXCEPT ![r] = "waiting"]
    /\ UNCHANGED <<file, synced, dropped, process, acked, outages, tears>>

\* The line is written without its newline.
LineUnterminated(r) == <<Start(r)>>

Line(r) == <<Start(r), End(r)>>

\* The write puts the whole line at the end of the file.
Write(r) ==
    /\ process = "open"
    /\ call[r] = "waiting"
    /\ ~Locked
    /\ file' = file \o Line(r)
    /\ call' = [call EXCEPT ![r] = "written"]
    /\ UNCHANGED <<synced, dropped, process, acked, outages, tears>>

\* The write fails: the disk is full or an I/O error cut it short, and a part
\* of the line may be in the file; or the file is closed.  Record returns the
\* error and nothing takes the part away.
WriteFails(r) ==
    /\ process # "down"
    /\ call[r] = "waiting"
    /\ ~Locked
    /\ \/ file' = file /\ UNCHANGED tears
       \/ /\ process = "open"
          /\ file' = Append(file, Start(r))
          /\ tears' = tears + 1
    /\ call' = [call EXCEPT ![r] = "failed"]
    /\ UNCHANGED <<synced, dropped, process, acked, outages>>

SyncedAll == Len(file)

\* The sync succeeds and Record returns nil.
Sync(r) ==
    /\ call[r] = "written"
    /\ synced' = SyncedAll
    /\ acked' = acked \cup {r}
    /\ call' = [call EXCEPT ![r] = "recorded"]
    /\ UNCHANGED <<file, dropped, process, outages, tears>>

\* A sync that failed is tried again.
AfterFailedSyncRetries == "written"

AfterFailedSync == "failed"

\* The sync fails and Record returns the error.  The line is in the file, and
\* any of what was not yet on the disk may have been given up.
SyncFails(r) ==
    /\ call[r] = "written"
    /\ call' = [call EXCEPT ![r] = AfterFailedSync]
    /\ \E given \in SUBSET (synced + 1 .. Len(file)) :
         /\ dropped' = dropped \cup given
         /\ tears' = IF given = {} THEN tears ELSE tears + 1
    /\ UNCHANGED <<file, synced, process, acked, outages>>

\* main's deferred recorder.Close, which takes the mutex: handlers that
\* outlive the shutdown grace still run.
Close ==
    /\ process = "open"
    /\ ~Locked
    /\ process' = "closed"
    /\ UNCHANGED <<file, synced, dropped, call, acked, outages, tears>>

\* The calls of a process that ended did not return.
Ended == [r \in Rows |-> IF call[r] \in {"waiting", "written"} THEN "failed" ELSE call[r]]

\* The process exits or is killed: the operating system has what it wrote.
Exit ==
    /\ process # "down"
    /\ outages < MaxOutages
    /\ process' = "down"
    /\ call' = Ended
    /\ outages' = outages + 1
    /\ UNCHANGED <<file, synced, dropped, acked, tears>>

\* The file as a power loss leaves it: n pieces long, with holes.
Survives(n, holes) ==
    [k \in 1 .. n |-> IF k \in holes THEN Hole(file[k].row) ELSE file[k]]

\* The loss leaves a row that was whole without its end, last in the file.
TearsLast(n, holes) ==
    /\ n > 0
    /\ \/ WholeAt(file[n].row, n)
       \/ file[n].part = "end" /\ n \in holes

\* The machine loses power: what was not synced may be lost from the end or
\* be a hole, and so may what a failed sync gave up.
PowerLoss ==
    /\ process # "down"
    /\ outages < MaxOutages
    /\ \E n \in synced .. Len(file) :
         \E holes \in SUBSET ((synced + 1 .. n) \cup {k \in dropped : k <= n}) :
           /\ file' = Survives(n, holes)
           /\ synced' = n
           /\ tears' = IF TearsLast(n, holes) THEN tears + 1 ELSE tears
    /\ dropped' = {}
    /\ process' = "down"
    /\ call' = Ended
    /\ outages' = outages + 1
    /\ UNCHANGED acked

\* Open of a file that exists truncates it.
OpenTruncated == <<>>

\* Open, with O_APPEND|O_CREATE: what is in the file stays as it is.
OpenFile == file

Restart ==
    /\ process = "down"
    /\ process' = "open"
    /\ file' = OpenFile
    /\ UNCHANGED <<synced, dropped, call, acked, outages, tears>>

Next ==
    \/ \E r \in Rows :
         Record(r) \/ Write(r) \/ WriteFails(r) \/ Sync(r) \/ SyncFails(r)
    \/ Close \/ Exit \/ PowerLoss \/ Restart

Spec == Init /\ [][Next]_vars
-----------------------------------------------------------------------------
TypeOK ==
    /\ file \in Seq(Pieces)
    /\ synced \in 0 .. Len(file)
    /\ dropped \subseteq 1 .. Len(file)
    /\ process \in {"open", "closed", "down"}
    /\ call \in [Rows -> {"none", "waiting", "written", "recorded", "failed"}]
    /\ acked \subseteq Rows
    /\ outages \in 0 .. MaxOutages
    /\ tears \in Nat

Present == {r \in Rows : \E k \in 1 .. Len(file) : WholeAt(r, k)}

\* The rows a reader of lines finds: a line ends at a newline, and the bytes of
\* a row are a line of their own only if what is before them ended one.
Readable ==
    {r \in Rows : \E k \in 1 .. Len(file) :
        WholeAt(r, k) /\ (k = 1 \/ file[k - 1].part = "end")}

\* An acknowledged row is on the disk in one piece: no crash, power loss,
\* restart or concurrent writer takes it away, cuts it or interleaves it, and no
\* sync that succeeded for it did so because an earlier one had failed.
AckedIsDurable ==
    \A r \in acked : \E k \in 1 .. synced :
        WholeAt(r, k) /\ k + 1 <= synced /\ {k, k + 1} \cap dropped = {}

\* A row that a failure tore, or a sync gave up, can cost the row written after
\* it, acknowledged or not, and never more than that one.
EachTearCostsOneRow ==
    Cardinality(acked \ Readable) <= tears

\* The file implements the account its callers rely on.
Promised == INSTANCE Account WITH account <- Present
KeepsAccount == Promised!Spec

\* The package comment: a truncated tail is the expected worst case, so every
\* row Record acknowledged is a line that a reader can parse.
TailIsWorstCase == acked \subseteq Readable
=============================================================================
