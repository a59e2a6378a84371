----------------------------- MODULE TLSSource -----------------------------
(***************************************************************************)
(* tlsconf.Source: the server's certificate, key and trust bundle, read    *)
(* from three files that others rewrite, and looked at again at every      *)
(* handshake.                                                              *)
(*                                                                         *)
(* Source.mu serialises the handshakes against one another, and nothing    *)
(* serialises them against the writers: every stat and every read is a     *)
(* system call of its own, and the files may change between any two.       *)
(*                                                                         *)
(* A file is the number of times it was rewritten and whether it is whole. *)
(* That is also its stamp: the code takes a rewrite to change the mtime    *)
(* ("the writers here all touch mtime"), and cutting a file to change its  *)
(* size, so no two states of a file have one stamp.                        *)
(***************************************************************************)
EXTENDS Integers, Sequences

CONSTANTS
    Procs,      \* connections in their handshake
    NoProc,     \* Source.mu is free
    Rewrites    \* Rewrites[f]: bound on how often file f is rewritten

Files == {"cert", "key", "bundle"}

ASSUME SourceAssumption ==
    /\ NoProc \notin Procs
    /\ Rewrites \in [Files -> Nat]

VARIABLES
    disk,      \* the files
    mu,        \* Source.mu: the handshake that holds it
    current,   \* Source.current
    stamps,    \* Source.stamps
    conn,      \* where each connection is in materialForHandshake, with its locals
    glitch,    \* the recorded stamps are those of a load that failed by accident
    reports    \* times "changed but failed to load" was logged

vars == <<disk, mu, current, stamps, conn, glitch, reports>>

\* The order the files are looked at in: stampAll's, and load's.
Order == <<"cert", "key", "bundle">>

Stamp(d) == [i \in 1 .. 3 |-> d[Order[i]]]

\* The material three reads give.  LoadX509KeyPair refuses a pair that does not
\* match, so the key is the one of the certificate.
Material(read) == [cert |-> read[1], bundle |-> read[3]]

Idle == [at |-> "idle"]

\* Locals of materialForHandshake: `stamps`, and in load `stamps` and what was
\* read.  `began` is the disk when the handshake took the mutex.
Looking(began, seen, again, read) ==
    [at |-> "looking", began |-> began, seen |-> seen, again |-> again, read |-> read]

Init ==
    /\ disk = [f \in Files |-> [gen |-> 0, whole |-> TRUE]]
    /\ mu = NoProc
    /\ stamps = Stamp(disk)
    /\ current = Material(Stamp(disk))
    /\ conn = [p \in Procs |-> Idle]
    /\ glitch = FALSE
    /\ reports = 0
-----------------------------------------------------------------------------
\* A writer replaces some of the files at once: one by rename, or all by the
\* swap of a directory.
Replace(fs) ==
    /\ \A f \in fs : disk[f].whole /\ disk[f].gen < Rewrites[f]
    /\ disk' = [f \in Files |-> IF f \in fs THEN [disk[f] EXCEPT !.gen = @ + 1] ELSE disk[f]]
    /\ UNCHANGED <<mu, current, stamps, conn, glitch, reports>>

\* A writer rewrites a file in place: it is half written, then whole.
BeginWrite(f) ==
    /\ disk[f].whole
    /\ disk[f].gen < Rewrites[f]
    /\ disk' = [disk EXCEPT ![f] = [gen |-> @.gen + 1, whole |-> FALSE]]
    /\ UNCHANGED <<mu, current, stamps, conn, glitch, reports>>

EndWrite(f) ==
    /\ ~disk[f].whole
    /\ disk' = [disk EXCEPT ![f].whole = TRUE]
    /\ UNCHANGED <<mu, current, stamps, conn, glitch, reports>>
-----------------------------------------------------------------------------
\* GetConfigForClient calls materialForHandshake, which takes the mutex.
Enter(p) ==
    /\ conn[p] = Idle
    /\ mu = NoProc
    /\ mu' = p
    /\ conn' = [conn EXCEPT ![p] = Looking(disk, <<>>, <<>>, <<>>)]
    /\ UNCHANGED <<disk, current, stamps, glitch, reports>>

\* The handshake goes on with Source.current and the mutex is released.
Leave(p) ==
    /\ mu' = NoProc
    /\ conn' = [conn EXCEPT ![p] = Idle]

\* What the next stat or read of a list of them sees.
Look(done) == Append(done, disk[Order[Len(done) + 1]])

Statting(p) == conn[p].at = "looking" /\ Len(conn[p].seen) < 3
Restatting(p) ==
    conn[p].at = "looking" /\ Len(conn[p].seen) = 3 /\ Len(conn[p].again) < 3
Reading(p) == conn[p].at = "looking" /\ Len(conn[p].again) = 3

\* materialForHandshake's stampAll, a file at a time; once it has all three,
\* either nothing changed and the handshake goes on, or load begins.
Stat(p) ==
    LET seen == Look(conn[p].seen)
    IN  /\ Statting(p)
        /\ \/ /\ seen = stamps
              /\ Leave(p)
           \/ /\ seen # stamps
              /\ conn' = [conn EXCEPT ![p].seen = seen]
              /\ UNCHANGED mu
        /\ UNCHANGED <<disk, current, stamps, glitch, reports>>

\* A file cannot be statted: last known good, and the stamps stay.
StatFails(p) ==
    /\ Statting(p)
    /\ Leave(p)
    /\ UNCHANGED <<disk, current, stamps, glitch, reports>>

\* load's own stampAll.
Restat(p) ==
    /\ Restatting(p)
    /\ conn' = [conn EXCEPT ![p].again = Look(@)]
    /\ UNCHANGED <<disk, mu, current, stamps, glitch, reports>>

\* A failed load leaves the stamps as they were.
StampsUnrecorded(p) == stamps

\* A failed load's own stamps are recorded: it returns none.
StampsOfFailedLoad(p) == <<>>

StampsOnFailure(p) == conn[p].seen

\* A failed load falls back to what NewSource loaded.
FirstKnownGood == Material([i \in 1 .. 3 |-> [gen |-> 0, whole |-> TRUE]])

LastKnownGood == current

\* load failed: last known good, and the stamps that led to it are recorded.
LoadFails(p, byAccident) ==
    /\ Leave(p)
    /\ stamps' = StampsOnFailure(p)
    /\ glitch' = byAccident
    /\ current' = LastKnownGood
    /\ reports' = reports + 1
    /\ UNCHANGED disk

\* A stat or a read of load fails although the files are good: out of file
\* descriptors, an I/O error, a file system that is away for a moment.
LoadGlitches(p) == (Restatting(p) \/ Reading(p)) /\ LoadFails(p, TRUE)

\* The stamps after the reads, not those before.
StampsAfterReads(p) == Stamp(disk)

StampsOnSuccess(p) == conn[p].again

\* A key pair loads if the key is whole and matches; a bundle, or the chain of a
\* certificate, that is cut between two certificates is one with fewer of them.
Refused(read) ==
    \/ Len(read) = 2 /\ ~(read[1].whole /\ read[2].whole /\ read[1].gen = read[2].gen)
    \/ Len(read) = 3 /\ ~read[3].whole

Loads(read) == Len(read) = 2 => read[2].whole /\ read[1].gen = read[2].gen

\* load reads the next file; the key pair is checked once both are read.
Read(p) ==
    LET read == Look(conn[p].read)
    IN  /\ Reading(p)
        /\ \/ Refused(read) /\ LoadFails(p, FALSE)
           \/ /\ Loads(read)
              /\ Len(read) < 3
              /\ conn' = [conn EXCEPT ![p].read = read]
              /\ UNCHANGED <<disk, mu, current, stamps, glitch, reports>>
           \/ /\ Loads(read)
              /\ Len(read) = 3
              /\ current' = Material(read)
              /\ stamps' = StampsOnSuccess(p)
              /\ glitch' = FALSE
              /\ Leave(p)
              /\ UNCHANGED <<disk, reports>>

Handshake(p) ==
    \/ Enter(p) \/ Stat(p) \/ StatFails(p) \/ Restat(p) \/ LoadGlitches(p) \/ Read(p)

Next ==
    \/ \E fs \in (SUBSET Files) \ {{}} : Replace(fs)
    \/ \E f \in Files : BeginWrite(f) \/ EndWrite(f)
    \/ \E p \in Procs : Handshake(p)

Spec == Init /\ [][Next]_vars
-----------------------------------------------------------------------------
FileState == [gen : Nat, whole : BOOLEAN]

TypeOK ==
    /\ disk \in [Files -> FileState]
    /\ \A f \in Files : disk[f].gen <= Rewrites[f]
    /\ mu \in Procs \cup {NoProc}
    /\ current \in [cert : FileState, bundle : FileState]
    /\ stamps \in Seq(FileState) /\ Len(stamps) = 3
    /\ \A p \in Procs :
         \/ conn[p] = Idle
         \/ /\ conn[p].at = "looking"
            /\ conn[p].began \in [Files -> FileState]
            /\ \A s \in {conn[p].seen, conn[p].again, conn[p].read} :
                 s \in Seq(FileState) /\ Len(s) <= 3
    /\ glitch \in BOOLEAN
    /\ reports \in Nat

Leaves(p) == conn[p] # Idle /\ conn'[p] = Idle

\* All three files are whole and the key is the certificate's.
Settled(d) == (\A f \in Files : d[f].whole) /\ d["cert"].gen = d["key"].gen

\* Rotated files take effect, and a CA removed from the bundle is de-trusted: a
\* handshake that began after the writers were done goes on with what they
\* wrote, however its predecessors' stats and reads fell between the writes.  A
\* file that cannot be statted or read, now or when it was last looked at, is
\* the exception.
QuietTakesEffect ==
    [][\A p \in Procs :
         (Stat(p) \/ Read(p)) /\ Leaves(p) /\ conn[p].began = disk /\ Settled(disk) /\ ~glitch'
           => current' = Material(Stamp(disk))]_vars

\* A CA that was de-trusted is not trusted again, and a certificate that was
\* replaced is not served again: no handshake puts back what an earlier look at
\* the files saw.
NeverBackward ==
    [][/\ current'.cert.gen >= current.cert.gen
       /\ current'.bundle.gen >= current.bundle.gen]_vars

\* A state of the files that does not load is reported once: there are no more
\* reports than there were changes of the files.
Changes == [f \in Files |-> 2 * disk[f].gen - (IF disk[f].whole THEN 0 ELSE 1)]
ReportedOncePerChange ==
    reports <= Changes["cert"] + Changes["key"] + Changes["bundle"]

\* ServerConfig: a rotated SVID or trust bundle takes effect without a restart.
\* So a handshake that finds nothing changed has what is on the disk.
RotationTakesEffect ==
    [][\A p \in Procs :
         Stat(p) /\ Leaves(p) /\ conn[p].began = disk /\ Settled(disk)
           => current = Material(Stamp(disk))]_vars
=============================================================================
