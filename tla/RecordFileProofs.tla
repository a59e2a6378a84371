-------------------------- MODULE RecordFileProofs --------------------------
(***************************************************************************)
(* What record.File promises for any number of rows and outages: a row it  *)
(* acknowledged is on the disk, whole; what a failure tore costs at most   *)
(* one row that is; and the file implements the account that the issuance  *)
(* path relies on.                                                         *)
(***************************************************************************)
EXTENDS RecordFile, FiniteSetTheorems, TLAPS

\* A row whose sync is under way is the last in the file, whole, beyond what an
\* earlier sync covered and untouched by one that failed.
WrittenIsLast ==
    \A r \in Rows : call[r] = "written" =>
        /\ process # "down"
        /\ WholeAt(r, Len(file) - 1)
        /\ synced < Len(file) - 1
        /\ {Len(file) - 1, Len(file)} \cap dropped = {}

\* A row that is still to be written has left nothing in the file.
UnwrittenIsAbsent ==
    \A r \in Rows : call[r] \in {"none", "waiting"} =>
        \A k \in 1 .. Len(file) : file[k].row # r

IInv == TypeOK /\ AckedIsDurable /\ WrittenIsLast /\ UnwrittenIsAbsent

\* What a piece is, without the union.
LEMMA PiecesAre ==
  /\ \A r \in Rows : {Start(r), End(r), Hole(r)} \subseteq Pieces
  /\ \A p \in Pieces : p.row \in Rows /\ p \in {Start(p.row), End(p.row), Hole(p.row)}
  <1>1. ASSUME NEW p \in Pieces
        PROVE  p.row \in Rows /\ p \in {Start(p.row), End(p.row), Hole(p.row)}
    <2>1. PICK r \in Rows : p \in {Start(r), End(r), Hole(r)}
      BY DEF Pieces
    <2>2. p.row = r
      BY <2>1 DEF Start, End, Hole
    <2> QED
      BY <2>1, <2>2
  <1> QED
    BY <1>1 DEF Pieces

\* A whole row is of the rows, and it takes pieces of two kinds to make one.
LEMMA PartsDiffer ==
  \A r, s : /\ Start(r) # End(s) /\ Start(r) # Hole(s) /\ End(r) # Hole(s)
            /\ (Start(r) = Start(s) => r = s)
            /\ Start(r).row = r
  BY DEF Start, End, Hole

LEMMA InitIInv == ASSUME Init PROVE IInv
  <1>1. file = <<>> /\ file \in Seq(Pieces) /\ Len(file) = 0
    BY DEF Init
  <1>2. TypeOK
    BY <1>1, RecordAssumption DEF Init, TypeOK
  <1>3. AckedIsDurable /\ WrittenIsLast /\ UnwrittenIsAbsent
    BY <1>1 DEF Init, AckedIsDurable, WrittenIsLast, UnwrittenIsAbsent
  <1> QED
    BY <1>2, <1>3 DEF IInv

\* Steps that leave the file and what is on the disk alone, and begin no sync.
LEMMA CallKeeps ==
  ASSUME IInv, UNCHANGED <<file, synced, dropped, acked>>, TypeOK',
         \A r \in Rows : call'[r] = "written" => call[r] = "written" /\ process' # "down",
         \A r \in Rows : call'[r] \in {"none", "waiting"} => call[r] \in {"none", "waiting"}
  PROVE  IInv'
  <1>1. AckedIsDurable'
    BY DEF IInv, AckedIsDurable, WholeAt
  <1>2. WrittenIsLast'
    BY DEF IInv, WrittenIsLast, WholeAt
  <1>3. UnwrittenIsAbsent'
    BY DEF IInv, UnwrittenIsAbsent
  <1> QED
    BY <1>1, <1>2, <1>3 DEF IInv

LEMMA RecordKeeps == ASSUME IInv, NEW r \in Rows, Record(r) PROVE IInv'
  <1>1. TypeOK'
    BY DEF IInv, TypeOK, Record
  <1> QED
    BY <1>1, CallKeeps DEF IInv, TypeOK, Record

LEMMA CloseKeeps == ASSUME IInv, Close PROVE IInv'
  <1>1. TypeOK'
    BY DEF IInv, TypeOK, Close
  <1> QED
    BY <1>1, CallKeeps DEF IInv, TypeOK, Close

LEMMA ExitKeeps == ASSUME IInv, Exit PROVE IInv'
  <1>1. TypeOK'
    BY RecordAssumption DEF IInv, TypeOK, Exit, Ended
  <1> QED
    BY <1>1, CallKeeps DEF IInv, TypeOK, Exit, Ended

LEMMA RestartKeeps == ASSUME IInv, Restart PROVE IInv'
  <1>1. TypeOK'
    BY DEF IInv, TypeOK, Restart, OpenFile
  <1> QED
    BY <1>1, CallKeeps DEF IInv, TypeOK, Restart, OpenFile

\* What is appended to a file leaves its rows where they are.
LEMMA AppendKeepsRows ==
  ASSUME NEW line \in Seq(Pieces), file \in Seq(Pieces), file' = file \o line
  PROVE  /\ file' \in Seq(Pieces)
         /\ Len(file') = Len(file) + Len(line)
         /\ \A k \in 1 .. Len(file) : file'[k] = file[k]
         /\ \A k \in 1 .. Len(line) : file'[Len(file) + k] = line[k]
         /\ \A r, k : WholeAt(r, k) => WholeAt(r, k)'
  <1>1. /\ file' \in Seq(Pieces)
        /\ Len(file') = Len(file) + Len(line)
        /\ \A k \in 1 .. Len(file) : file'[k] = file[k]
        /\ \A k \in 1 .. Len(line) : file'[Len(file) + k] = line[k]
    OBVIOUS
  <1>2. \A r, k : WholeAt(r, k) => WholeAt(r, k)'
    BY <1>1 DEF WholeAt
  <1> QED
    BY <1>1, <1>2

\* Rows that are acknowledged stay where they are when the file only grows.
LEMMA GrowthKeepsAcked ==
  ASSUME AckedIsDurable, UNCHANGED <<acked, synced, dropped>>,
         \A r, k : WholeAt(r, k) => WholeAt(r, k)'
  PROVE  AckedIsDurable'
  <1> SUFFICES ASSUME NEW r \in acked
               PROVE  \E k \in 1 .. synced :
                        WholeAt(r, k)' /\ k + 1 <= synced /\ {k, k + 1} \cap dropped = {}
    BY DEF AckedIsDurable
  <1>1. PICK k \in 1 .. synced : WholeAt(r, k) /\ k + 1 <= synced /\ {k, k + 1} \cap dropped = {}
    BY DEF AckedIsDurable
  <1> QED
    BY <1>1

LEMMA WriteKeeps == ASSUME IInv, NEW r \in Rows, Write(r) PROVE IInv'
  <1> USE DEF IInv
  <1>1. file \in Seq(Pieces) /\ Line(r) \in Seq(Pieces) /\ Len(Line(r)) = 2
    BY PiecesAre DEF TypeOK, Line
  <1>2. file' = file \o Line(r)
    BY DEF Write
  <1>3. /\ file' \in Seq(Pieces)
        /\ Len(file') = Len(file) + 2
        /\ \A k \in 1 .. Len(file) : file'[k] = file[k]
        /\ file'[Len(file) + 1] = Start(r) /\ file'[Len(file) + 2] = End(r)
        /\ \A s, k : WholeAt(s, k) => WholeAt(s, k)'
    <2>1. Line(r)[1] = Start(r) /\ Line(r)[2] = End(r)
      BY DEF Line
    <2>2. /\ file' \in Seq(Pieces)
          /\ Len(file') = Len(file) + Len(Line(r))
          /\ \A k \in 1 .. Len(file) : file'[k] = file[k]
          /\ \A k \in 1 .. Len(Line(r)) : file'[Len(file) + k] = Line(r)[k]
          /\ \A s, k : WholeAt(s, k) => WholeAt(s, k)'
      BY <1>1, <1>2, AppendKeepsRows
    <2>3. 1 \in 1 .. Len(Line(r)) /\ 2 \in 1 .. Len(Line(r))
      BY <1>1
    <2> QED
      BY <1>1, <2>1, <2>2, <2>3
  <1>4. Len(file) \in Nat /\ synced \in 0 .. Len(file) /\ dropped \subseteq 1 .. Len(file)
    BY <1>1 DEF TypeOK
  <1>5. TypeOK'
    BY <1>3, <1>4 DEF TypeOK, Write
  <1>6. AckedIsDurable'
    BY <1>3, GrowthKeepsAcked DEF Write
  <1>7. WrittenIsLast'
    <2> SUFFICES ASSUME NEW s \in Rows, call'[s] = "written"
                 PROVE  /\ process' # "down"
                        /\ WholeAt(s, Len(file) - 1)'
                        /\ synced' < Len(file') - 1
                        /\ {Len(file') - 1, Len(file')} \cap dropped' = {}
      BY DEF WrittenIsLast
    <2>1. s = r
      BY DEF Write, Locked, TypeOK
    <2>2. WholeAt(r, Len(file) - 1)'
      BY <1>3, <1>4 DEF WholeAt
    <2> QED
      BY <2>1, <2>2, <1>3, <1>4 DEF Write
  <1>8. UnwrittenIsAbsent'
    <2> SUFFICES ASSUME NEW s \in Rows, call'[s] \in {"none", "waiting"},
                        NEW k \in 1 .. Len(file')
                 PROVE  file'[k].row # s
      BY DEF UnwrittenIsAbsent
    <2>1. s # r /\ call[s] \in {"none", "waiting"}
      BY DEF Write, TypeOK
    <2>2. CASE k \in 1 .. Len(file)
      BY <2>1, <2>2, <1>3 DEF UnwrittenIsAbsent
    <2>3. CASE k \in {Len(file) + 1, Len(file) + 2}
      BY <2>1, <2>3, <1>3 DEF Start, End
    <2> QED
      BY <2>2, <2>3, <1>3, <1>4
  <1> QED
    BY <1>5, <1>6, <1>7, <1>8

LEMMA WriteFailsKeeps == ASSUME IInv, NEW r \in Rows, WriteFails(r) PROVE IInv'
  <1>1. CASE file' = file /\ UNCHANGED tears
    <2>1. TypeOK'
      BY <1>1 DEF IInv, TypeOK, WriteFails
    <2> QED
      BY <1>1, <2>1, CallKeeps DEF IInv, TypeOK, WriteFails
  <1>2. CASE file' = Append(file, Start(r)) /\ tears' = tears + 1
    <2> USE DEF IInv
    <2>1. /\ file \in Seq(Pieces) /\ <<Start(r)>> \in Seq(Pieces)
          /\ Len(<<Start(r)>>) = 1 /\ <<Start(r)>>[1] = Start(r)
      BY PiecesAre DEF TypeOK
    <2>2. file' = file \o <<Start(r)>>
      <3>1. Start(r) \in Pieces
        BY PiecesAre
      <3> QED
        BY <1>2, <2>1, <3>1
    <2>3. /\ file' \in Seq(Pieces)
          /\ Len(file') = Len(file) + 1
          /\ \A k \in 1 .. Len(file) : file'[k] = file[k]
          /\ file'[Len(file) + 1] = Start(r)
          /\ \A s, k : WholeAt(s, k) => WholeAt(s, k)'
      <3> DEFINE part == <<Start(r)>>
      <3>1. part \in Seq(Pieces) /\ Len(part) = 1 /\ part[1] = Start(r) /\ file' = file \o part
        BY <2>1, <2>2
      <3> HIDE DEF part
      <3>2. /\ file' \in Seq(Pieces)
            /\ Len(file') = Len(file) + Len(part)
            /\ \A k \in 1 .. Len(file) : file'[k] = file[k]
            /\ \A k \in 1 .. Len(part) : file'[Len(file) + k] = part[k]
            /\ \A s, k : WholeAt(s, k) => WholeAt(s, k)'
        BY <2>1, <3>1, AppendKeepsRows
      <3>3. 1 \in 1 .. Len(part)
        BY <3>1
      <3> QED
        BY <3>1, <3>2, <3>3
    <2>4. Len(file) \in Nat /\ synced \in 0 .. Len(file) /\ dropped \subseteq 1 .. Len(file)
      BY <2>1 DEF TypeOK
    <2>5. TypeOK'
      BY <1>2, <2>3, <2>4 DEF TypeOK, WriteFails
    <2>6. AckedIsDurable'
      BY <2>3, GrowthKeepsAcked DEF WriteFails
    <2>7. WrittenIsLast'
      BY DEF WrittenIsLast, WriteFails, Locked, TypeOK
    <2>8. UnwrittenIsAbsent'
      <3> SUFFICES ASSUME NEW s \in Rows, call'[s] \in {"none", "waiting"},
                          NEW k \in 1 .. Len(file')
                   PROVE  file'[k].row # s
        BY DEF UnwrittenIsAbsent
      <3>1. s # r /\ call[s] \in {"none", "waiting"}
        BY DEF WriteFails, TypeOK
      <3>2. CASE k \in 1 .. Len(file)
        BY <3>1, <3>2, <2>3 DEF UnwrittenIsAbsent
      <3>3. CASE k = Len(file) + 1
        BY <3>1, <3>3, <2>3 DEF Start
      <3> QED
        BY <3>2, <3>3, <2>3, <2>4
    <2> QED
      BY <2>5, <2>6, <2>7, <2>8
  <1> QED
    BY <1>1, <1>2 DEF WriteFails

LEMMA SyncKeeps == ASSUME IInv, NEW r \in Rows, Sync(r) PROVE IInv'
  <1> USE DEF IInv
  <1>1. file \in Seq(Pieces) /\ file' = file /\ dropped' = dropped /\ synced' = Len(file)
    BY DEF TypeOK, Sync, SyncedAll
  <1>2. Len(file) \in Nat /\ synced \in 0 .. Len(file)
    BY <1>1 DEF TypeOK
  <1>3. TypeOK'
    BY <1>1, <1>2 DEF TypeOK, Sync
  <1>4. /\ WholeAt(r, Len(file) - 1)
        /\ {Len(file) - 1, Len(file)} \cap dropped = {}
        /\ synced < Len(file) - 1
    BY DEF WrittenIsLast, Sync
  <1>5. AckedIsDurable'
    <2> SUFFICES ASSUME NEW s \in acked'
                 PROVE  \E k \in 1 .. synced' :
                          WholeAt(s, k)' /\ k + 1 <= synced' /\ {k, k + 1} \cap dropped' = {}
      BY DEF AckedIsDurable
    <2>1. CASE s = r
      <3>1. Len(file) - 1 \in 1 .. synced'
        BY <1>1, <1>2, <1>4
      <3>2. PICK k \in 1 .. synced' : k = Len(file) - 1
        BY <3>1
      <3>3. WholeAt(s, k)' /\ k + 1 <= synced' /\ {k, k + 1} \cap dropped' = {}
        BY <2>1, <1>1, <1>2, <1>4, <3>2 DEF WholeAt
      <3> QED
        BY <3>3
    <2>2. CASE s \in acked
      <3>1. PICK k \in 1 .. synced : WholeAt(s, k) /\ k + 1 <= synced /\ {k, k + 1} \cap dropped = {}
        BY <2>2 DEF AckedIsDurable
      <3>2. k \in 1 .. synced' /\ k + 1 <= synced' /\ WholeAt(s, k)'
        BY <1>1, <1>2, <3>1 DEF WholeAt
      <3> QED
        BY <1>1, <3>1, <3>2
    <2> QED
      BY <2>1, <2>2 DEF Sync
  <1>6. \A s \in Rows : call'[s] # "written"
    <2> SUFFICES ASSUME NEW s \in Rows, call'[s] = "written" PROVE FALSE
      OBVIOUS
    <2>1. s # r /\ call[s] = "written"
      BY DEF Sync, TypeOK
    <2>2. file[Len(file) - 1] = Start(s) /\ file[Len(file) - 1] = Start(r)
      BY <2>1, <1>4 DEF WrittenIsLast, WholeAt
    <2> QED
      BY <2>1, <2>2, PartsDiffer
  <1>7. WrittenIsLast'
    BY <1>6 DEF WrittenIsLast
  <1>8. UnwrittenIsAbsent'
    BY <1>1 DEF UnwrittenIsAbsent, Sync, TypeOK
  <1> QED
    BY <1>3, <1>5, <1>7, <1>8

LEMMA SyncFailsKeeps == ASSUME IInv, NEW r \in Rows, SyncFails(r) PROVE IInv'
  <1> USE DEF IInv
  <1>1. PICK given \in SUBSET (synced + 1 .. Len(file)) :
          /\ dropped' = dropped \cup given
          /\ tears' = IF given = {} THEN tears ELSE tears + 1
    BY DEF SyncFails
  <1>2. file \in Seq(Pieces) /\ Len(file) \in Nat /\ synced \in 0 .. Len(file)
    BY DEF TypeOK
  <1>3. TypeOK'
    BY <1>1, <1>2 DEF TypeOK, SyncFails, AfterFailedSync
  <1>4. AckedIsDurable'
    <2> SUFFICES ASSUME NEW s \in acked
                 PROVE  \E k \in 1 .. synced :
                          WholeAt(s, k)' /\ k + 1 <= synced /\ {k, k + 1} \cap dropped' = {}
      BY DEF AckedIsDurable, SyncFails
    <2>1. PICK k \in 1 .. synced : WholeAt(s, k) /\ k + 1 <= synced /\ {k, k + 1} \cap dropped = {}
      BY DEF AckedIsDurable
    <2>2. k \notin given /\ k + 1 \notin given
      BY <1>1, <1>2, <2>1
    <2> QED
      BY <1>1, <2>1, <2>2 DEF WholeAt, SyncFails
  <1>5. \A s \in Rows : call'[s] # "written"
    <2> SUFFICES ASSUME NEW s \in Rows, call'[s] = "written" PROVE FALSE
      OBVIOUS
    <2>1. s # r /\ call[s] = "written" /\ call[r] = "written"
      BY DEF SyncFails, AfterFailedSync, TypeOK
    <2>2. file[Len(file) - 1] = Start(s) /\ file[Len(file) - 1] = Start(r)
      BY <2>1 DEF WrittenIsLast, WholeAt
    <2> QED
      BY <2>1, <2>2, PartsDiffer
  <1>6. WrittenIsLast'
    BY <1>5 DEF WrittenIsLast
  <1>7. UnwrittenIsAbsent'
    BY DEF UnwrittenIsAbsent, SyncFails, AfterFailedSync, TypeOK
  <1> QED
    BY <1>3, <1>4, <1>6, <1>7

\* What survives a power loss: no row that was not there, and every piece that
\* is no hole in its place.
LEMMA SurvivesBounds ==
  ASSUME file \in Seq(Pieces), NEW n \in 0 .. Len(file), NEW holes,
         file' = Survives(n, holes)
  PROVE  /\ file' \in Seq(Pieces)
         /\ Len(file') = n
         /\ \A k \in 1 .. n : file'[k].row = file[k].row
         /\ \A k \in 1 .. n : k \notin holes => file'[k] = file[k]
         /\ \A r, k : WholeAt(r, k)' => WholeAt(r, k)
  <1>1. n \in Nat /\ Len(file) \in Nat
    OBVIOUS
  <1>2. ASSUME NEW k \in 1 .. n
        PROVE  /\ file'[k] = IF k \in holes THEN Hole(file[k].row) ELSE file[k]
               /\ file[k] \in Pieces
               /\ file'[k] \in Pieces
               /\ file'[k].row = file[k].row
    <2>1. file'[k] = IF k \in holes THEN Hole(file[k].row) ELSE file[k]
      BY DEF Survives
    <2>2. file[k] \in Pieces
      BY <1>1
    <2>3. file[k].row \in Rows /\ Hole(file[k].row) \in Pieces
      BY <2>2, PiecesAre
    <2>4. Hole(file[k].row).row = file[k].row
      BY DEF Hole
    <2> QED
      BY <2>1, <2>2, <2>3, <2>4
  <1>3. file' = [k \in 1 .. n |-> file'[k]]
    BY DEF Survives
  <1>4. file' \in Seq(Pieces) /\ Len(file') = n
    BY <1>1, <1>2, <1>3
  <1>5. ASSUME NEW r, NEW k, WholeAt(r, k)' PROVE WholeAt(r, k)
    <2>1. k \in 1 .. n /\ k + 1 \in 1 .. n /\ file'[k] = Start(r) /\ file'[k + 1] = End(r)
      BY <1>1, <1>4, <1>5 DEF WholeAt
    <2>2. k \notin holes /\ k + 1 \notin holes
      BY <1>2, <2>1, PartsDiffer
    <2> QED
      BY <1>1, <1>2, <2>1, <2>2 DEF WholeAt
  <1> QED
    BY <1>2, <1>4, <1>5

LEMMA PowerLossKeeps ==
  ASSUME IInv, PowerLoss
  PROVE  IInv' /\ \A r, k : WholeAt(r, k)' => WholeAt(r, k)
  <1> USE DEF IInv
  <1>1. PICK n \in synced .. Len(file) :
          \E holes \in SUBSET ((synced + 1 .. n) \cup {k \in dropped : k <= n}) :
             /\ file' = Survives(n, holes)
             /\ synced' = n
             /\ tears' = IF TearsLast(n, holes) THEN tears + 1 ELSE tears
    BY DEF PowerLoss
  <1>2. PICK holes \in SUBSET ((synced + 1 .. n) \cup {k \in dropped : k <= n}) :
          /\ file' = Survives(n, holes)
          /\ tears' = IF TearsLast(n, holes) THEN tears + 1 ELSE tears
    BY <1>1
  <1>3. /\ file \in Seq(Pieces) /\ Len(file) \in Nat
        /\ synced \in 0 .. Len(file) /\ n \in 0 .. Len(file)
    BY <1>1 DEF TypeOK
  <1>4. /\ file' \in Seq(Pieces)
        /\ Len(file') = n
        /\ \A k \in 1 .. n : file'[k].row = file[k].row
        /\ \A k \in 1 .. n : k \notin holes => file'[k] = file[k]
        /\ \A r, k : WholeAt(r, k)' => WholeAt(r, k)
    BY <1>2, <1>3, SurvivesBounds
  <1>5. tears' \in Nat
    BY <1>2 DEF TypeOK
  <1>6. TypeOK'
    <2>1. call' \in [Rows -> {"none", "waiting", "written", "recorded", "failed"}]
      BY DEF PowerLoss, Ended, TypeOK
    <2>2. synced' \in 0 .. Len(file') /\ dropped' \subseteq 1 .. Len(file')
      BY <1>1, <1>3, <1>4 DEF PowerLoss
    <2> QED
      BY <1>4, <1>5, <2>1, <2>2, RecordAssumption DEF PowerLoss, TypeOK
  <1>7. AckedIsDurable'
    <2> SUFFICES ASSUME NEW s \in acked
                 PROVE  \E k \in 1 .. n : WholeAt(s, k)' /\ k + 1 <= n
      BY <1>1 DEF AckedIsDurable, PowerLoss
    <2>1. PICK k \in 1 .. synced : WholeAt(s, k) /\ k + 1 <= synced /\ {k, k + 1} \cap dropped = {}
      BY DEF AckedIsDurable
    <2>2. k \in 1 .. n /\ k + 1 \in 1 .. n /\ k \notin holes /\ k + 1 \notin holes
      BY <1>2, <1>3, <1>1, <2>1
    <2>3. file'[k] = file[k] /\ file'[k + 1] = file[k + 1]
      BY <1>4, <2>2
    <2> QED
      BY <1>3, <1>4, <2>1, <2>2, <2>3 DEF WholeAt
  <1>8. WrittenIsLast'
    BY DEF WrittenIsLast, PowerLoss, Ended, TypeOK
  <1>9. UnwrittenIsAbsent'
    <2> SUFFICES ASSUME NEW s \in Rows, call'[s] \in {"none", "waiting"}, NEW k \in 1 .. Len(file')
                 PROVE  file'[k].row # s
      BY DEF UnwrittenIsAbsent
    <2>1. call[s] \in {"none", "waiting"}
      BY DEF PowerLoss, Ended, TypeOK
    <2>2. k \in 1 .. n /\ k \in 1 .. Len(file)
      BY <1>3, <1>4
    <2> QED
      BY <1>4, <2>1, <2>2 DEF UnwrittenIsAbsent
  <1> QED
    BY <1>4, <1>6, <1>7, <1>8, <1>9
-----------------------------------------------------------------------------
THEOREM Invariance == Spec => []IInv
  <1>1. ASSUME IInv, [Next]_vars PROVE IInv'
    <2>1. CASE UNCHANGED vars
      <3>1. TypeOK'
        BY <1>1, <2>1 DEF vars, IInv, TypeOK
      <3>2. UNCHANGED <<file, synced, dropped, acked, process, call>>
        BY <2>1 DEF vars
      <3>3. \A r \in Rows : call[r] = "written" => process # "down"
        BY <1>1 DEF IInv, WrittenIsLast
      <3> QED
        BY <1>1, <3>1, <3>2, <3>3, CallKeeps
    <2>2. ASSUME NEW r \in Rows,
                 Record(r) \/ Write(r) \/ WriteFails(r) \/ Sync(r) \/ SyncFails(r)
          PROVE  IInv'
      BY <1>1, <2>2, RecordKeeps, WriteKeeps, WriteFailsKeeps, SyncKeeps, SyncFailsKeeps
    <2>3. CASE Close \/ Exit \/ PowerLoss \/ Restart
      BY <1>1, <2>3, CloseKeeps, ExitKeeps, PowerLossKeeps, RestartKeeps
    <2> QED
      BY <1>1, <2>1, <2>2, <2>3 DEF Next
  <1> QED
    BY <1>1, InitIInv, PTL DEF Spec

\* The variables of the record keep their types.
THEOREM TypeCorrect == Spec => []TypeOK
  BY Invariance, PTL DEF IInv

\* A row that Record returned nil for is on the disk, whole, whatever writes and
\* syncs failed before it and however the process and the machine ended since.
THEOREM AckedAreDurable == Spec => []AckedIsDurable
  BY Invariance, PTL DEF IInv
-----------------------------------------------------------------------------
\* An acknowledged row that is a line of its own whatever happens: its bytes and
\* what ended the line before it are on the disk.
Safe(r) ==
    \E k \in 1 .. synced :
        /\ WholeAt(r, k) /\ k + 1 <= synced /\ {k, k + 1} \cap dropped = {}
        /\ k = 1 \/ (file[k - 1].part = "end" /\ k - 1 \notin dropped)

Exposed == {r \in acked : ~Safe(r)}

\* What stands at n does not end a line, and is not the start of a row whose end
\* follows it, or a failed sync gave it up.
Torn(n) ==
    \/ n \in dropped
    \/ file[n].part # "end" /\ ~WholeAt(file[n].row, n)

\* A tear has yet to cost a row: the file may end with it when the next row that
\* is acknowledged is written, or after a power loss.
TearIsOpen == \E n \in 1 .. Len(file) : n >= synced /\ Torn(n)

\* Each tear has cost a row or may still cost the next, and not both.
TearsAccounted ==
    /\ IsFiniteSet(acked)
    /\ Cardinality(Exposed) <= tears
    /\ TearIsOpen => Cardinality(Exposed) < tears

\* Rows that are not readable are among those that are exposed.
LEMMA UnreadableAreExposed ==
  ASSUME TypeOK PROVE acked \ Readable \subseteq Exposed
  <1> SUFFICES ASSUME NEW r \in acked, Safe(r) PROVE r \in Readable
    BY DEF Exposed
  <1>1. PICK k \in 1 .. synced : WholeAt(r, k) /\ (k = 1 \/ file[k - 1].part = "end")
    BY DEF Safe
  <1>2. r \in Rows /\ k \in 1 .. Len(file)
    BY DEF TypeOK
  <1> QED
    BY <1>1, <1>2 DEF Readable

\* A step that exposes no row and opens no tear, or pays for the one it opens.
LEMMA TearsKept ==
  ASSUME TypeOK, TearsAccounted, IsFiniteSet(acked'), Exposed' \subseteq Exposed,
         \/ tears' = tears + 1
         \/ tears' = tears /\ (TearIsOpen' => TearIsOpen)
  PROVE  TearsAccounted'
  <1>1. IsFiniteSet(Exposed)
    BY FS_Subset DEF TearsAccounted, Exposed
  <1>2. /\ Cardinality(Exposed') \in Nat /\ Cardinality(Exposed) \in Nat
        /\ Cardinality(Exposed') <= Cardinality(Exposed)
    BY <1>1, FS_Subset, FS_CardinalityType
  <1>3. tears \in Nat
    BY DEF TypeOK
  <1> QED
    BY <1>2, <1>3 DEF TearsAccounted

\* What is safe stays safe while the file keeps what is on the disk.
LEMMA SafeStays ==
  ASSUME TypeOK, acked' = acked, synced' \in Nat, synced <= synced', synced' <= Len(file'),
         \A k \in 1 .. synced : k \notin dropped => file'[k] = file[k] /\ k \notin dropped'
  PROVE  Exposed' \subseteq Exposed
  <1> SUFFICES ASSUME NEW r \in acked, Safe(r) PROVE Safe(r)'
    BY DEF Exposed
  <1>1. PICK k \in 1 .. synced :
          /\ WholeAt(r, k) /\ k + 1 <= synced /\ {k, k + 1} \cap dropped = {}
          /\ k = 1 \/ (file[k - 1].part = "end" /\ k - 1 \notin dropped)
    BY DEF Safe
  <1>2. synced \in Nat /\ Len(file) \in Nat /\ Len(file') \in Nat
    BY DEF TypeOK
  <1>3. k \in 1 .. synced' /\ k + 1 <= synced' /\ k \in 1 .. Len(file') - 1
    BY <1>1, <1>2
  <1>4. /\ file'[k] = file[k] /\ file'[k + 1] = file[k + 1]
        /\ {k, k + 1} \cap dropped' = {}
    BY <1>1, <1>2
  <1>5. WholeAt(r, k)'
    BY <1>1, <1>3, <1>4 DEF WholeAt
  <1>6. CASE k = 1
    BY <1>1, <1>3, <1>4, <1>5, <1>6 DEF Safe
  <1>7. CASE k # 1
    <2>1. k - 1 \in 1 .. synced
      BY <1>2, <1>7
    <2>2. file'[k - 1] = file[k - 1] /\ k - 1 \notin dropped'
      BY <1>1, <1>7, <2>1
    <2> QED
      BY <1>1, <1>3, <1>4, <1>5, <1>7, <2>2 DEF Safe
  <1> QED
    BY <1>6, <1>7

LEMMA WriteKeepsTears ==
  ASSUME IInv, TearsAccounted, NEW r \in Rows, Write(r) PROVE TearsAccounted'
  <1>1. /\ TypeOK /\ file \in Seq(Pieces) /\ Len(file) \in Nat
        /\ Line(r) \in Seq(Pieces) /\ Len(Line(r)) = 2
        /\ Line(r)[1] = Start(r) /\ Line(r)[2] = End(r)
        /\ file' = file \o Line(r)
        /\ UNCHANGED <<synced, dropped, acked, tears>>
    BY PiecesAre DEF IInv, TypeOK, Line, Write
  <1>2. /\ Len(file') = Len(file) + 2
        /\ \A k \in 1 .. Len(file) : file'[k] = file[k]
        /\ \A k \in 1 .. Len(Line(r)) : file'[Len(file) + k] = Line(r)[k]
    BY <1>1, AppendKeepsRows
  <1>3. file'[Len(file) + 1] = Start(r) /\ file'[Len(file) + 2] = End(r)
    <2>1. 1 \in 1 .. Len(Line(r)) /\ 2 \in 1 .. Len(Line(r))
      BY <1>1
    <2> QED
      BY <1>1, <1>2, <2>1
  <1>6. ASSUME TearIsOpen' PROVE TearIsOpen
    <2>1. PICK n \in 1 .. Len(file') : n >= synced' /\ Torn(n)'
      BY <1>6 DEF TearIsOpen
    <2>2. CASE n \in 1 .. Len(file)
      <3>1. \A s : WholeAt(s, n) => WholeAt(s, n)'
        BY <1>1, AppendKeepsRows
      <3>2. file'[n] = file[n]
        BY <1>2, <2>2
      <3> QED
        BY <1>1, <2>1, <2>2, <3>1, <3>2 DEF Torn, TearIsOpen
    <2>3. CASE n \in {Len(file) + 1, Len(file) + 2}
      <3>1. n \notin dropped'
        BY <1>1, <2>3 DEF TypeOK
      <3>2. n = Len(file) + 1 /\ ~WholeAt(r, n)'
        BY <1>3, <2>1, <2>3, <3>1 DEF Torn, Start, End
      <3> QED
        BY <1>1, <1>2, <1>3, <3>2 DEF WholeAt
    <2> QED
      BY <1>1, <1>2, <2>2, <2>3
  <1>7. Exposed' \subseteq Exposed
    BY <1>1, <1>2, SafeStays DEF TypeOK
  <1> QED
    BY <1>1, <1>6, <1>7, TearsKept DEF TearsAccounted

LEMMA WriteFailsKeepsTears ==
  ASSUME IInv, TearsAccounted, NEW r \in Rows, WriteFails(r) PROVE TearsAccounted'
  <1>1. TypeOK /\ UNCHANGED <<synced, dropped, acked>>
    BY DEF IInv, WriteFails
  <1>2. CASE file' = file /\ UNCHANGED tears
    <2>1. Exposed' = Exposed /\ TearIsOpen' = TearIsOpen
      BY <1>1, <1>2 DEF Exposed, Safe, TearIsOpen, Torn, WholeAt
    <2> QED
      BY <1>1, <1>2, <2>1, TearsKept DEF TearsAccounted
  <1>3. CASE file' = Append(file, Start(r)) /\ tears' = tears + 1
    <2>1. file \in Seq(Pieces) /\ Start(r) \in Pieces
      BY <1>1, PiecesAre DEF TypeOK
    <2>2. /\ Len(file) \in Nat /\ Len(file') = Len(file) + 1
          /\ \A k \in 1 .. Len(file) : file'[k] = file[k]
      BY <1>3, <2>1
    <2>3. Exposed' \subseteq Exposed
      BY <1>1, <2>2, SafeStays DEF TypeOK
    <2> QED
      BY <1>1, <1>3, <2>3, TearsKept DEF TearsAccounted
  <1> QED
    BY <1>2, <1>3 DEF WriteFails

\* The row that is acknowledged is the last: if it is exposed, a tear was open,
\* and behind it none is.
LEMMA SyncKeepsTears ==
  ASSUME IInv, TearsAccounted, NEW r \in Rows, Sync(r) PROVE TearsAccounted'
  <1>1. /\ TypeOK /\ file \in Seq(Pieces) /\ Len(file) \in Nat /\ synced \in Nat
        /\ file' = file /\ dropped' = dropped /\ synced' = Len(file) /\ tears' = tears
        /\ acked' = acked \cup {r} /\ tears \in Nat /\ synced <= Len(file)
    BY DEF IInv, TypeOK, Sync, SyncedAll
  <1>2. /\ WholeAt(r, Len(file) - 1)
        /\ {Len(file) - 1, Len(file)} \cap dropped = {}
        /\ synced < Len(file) - 1
    BY DEF IInv, WrittenIsLast, Sync
  <1>3. ~TearIsOpen'
    <2> SUFFICES ASSUME NEW n \in 1 .. Len(file), n >= Len(file), Torn(n)' PROVE FALSE
      BY <1>1 DEF TearIsOpen
    <2>1. n = Len(file) /\ Len(file) - 1 + 1 = Len(file)
      BY <1>1
    <2>2. file'[n] = End(r) /\ n \notin dropped'
      BY <1>1, <1>2, <2>1 DEF WholeAt
    <2> QED
      BY <2>2 DEF Torn, End
  <1>4. ASSUME NEW s \in acked, Safe(s) PROVE Safe(s)'
    <2>1. PICK k \in 1 .. synced :
            /\ WholeAt(s, k) /\ k + 1 <= synced /\ {k, k + 1} \cap dropped = {}
            /\ k = 1 \/ (file[k - 1].part = "end" /\ k - 1 \notin dropped)
      BY <1>4 DEF Safe
    <2>2. k \in 1 .. synced' /\ k + 1 <= synced' /\ WholeAt(s, k)'
      BY <1>1, <2>1 DEF WholeAt
    <2> QED
      BY <1>1, <2>1, <2>2 DEF Safe
  <1>5. Exposed' \subseteq Exposed \cup {r}
    BY <1>1, <1>4 DEF Exposed
  <1>6. ASSUME ~TearIsOpen PROVE Safe(r)'
    <2>1. Len(file) - 1 \in 1 .. synced' /\ WholeAt(r, Len(file) - 1)'
      BY <1>1, <1>2 DEF WholeAt
    <2>2. ASSUME Len(file) - 1 # 1
          PROVE  file[Len(file) - 2].part = "end" /\ Len(file) - 2 \notin dropped
      <3>1. Len(file) - 2 \in 1 .. Len(file) /\ Len(file) - 2 >= synced
        BY <1>1, <1>2, <2>1, <2>2
      <3>2. ~Torn(Len(file) - 2)
        BY <1>6, <3>1 DEF TearIsOpen
      <3>3. ~WholeAt(file[Len(file) - 2].row, Len(file) - 2)
        <4> SUFFICES ASSUME file[Len(file) - 2 + 1] = End(file[Len(file) - 2].row) PROVE FALSE
          BY DEF WholeAt
        <4>1. file[Len(file) - 1] = Start(r) /\ Len(file) - 2 + 1 = Len(file) - 1
          BY <1>1, <1>2 DEF WholeAt
        <4> QED
          BY <4>1, PartsDiffer
      <3> QED
        BY <3>2, <3>3 DEF Torn
    <2>3. PICK k \in 1 .. synced' : k = Len(file) - 1
      BY <2>1
    <2>4. k + 1 <= synced' /\ {k, k + 1} \cap dropped' = {} /\ WholeAt(r, k)'
      BY <1>1, <1>2, <2>1, <2>3
    <2>5. k = 1 \/ (file'[k - 1].part = "end" /\ k - 1 \notin dropped')
      <3>1. k - 1 = Len(file) - 2
        BY <1>1, <2>3
      <3> QED
        BY <1>1, <2>2, <2>3, <3>1
    <2> QED
      BY <2>4, <2>5 DEF Safe
  <1>7. IsFiniteSet(acked') /\ IsFiniteSet(Exposed)
    BY <1>1, FS_AddElement, FS_Subset DEF TearsAccounted, Exposed
  <1>8. Cardinality(Exposed) \in Nat /\ Cardinality(Exposed') \in Nat
    <2>1. IsFiniteSet(Exposed')
      BY <1>7, FS_Subset DEF Exposed
    <2> QED
      BY <1>7, <2>1, FS_CardinalityType
  <1>9. Cardinality(Exposed') <= tears
    <2>1. CASE TearIsOpen
      <3>1. Cardinality(Exposed) < tears
        BY <2>1 DEF TearsAccounted
      <3>2. IsFiniteSet(Exposed \cup {r}) /\ Cardinality(Exposed \cup {r}) \in Nat
            /\ Cardinality(Exposed \cup {r}) <= Cardinality(Exposed) + 1
        <4>1. /\ IsFiniteSet(Exposed \cup {r})
              /\ Cardinality(Exposed \cup {r}) = IF r \in Exposed THEN Cardinality(Exposed)
                                                                ELSE Cardinality(Exposed) + 1
          BY <1>7, FS_AddElement
        <4> QED
          BY <1>8, <4>1
      <3>3. Cardinality(Exposed') <= Cardinality(Exposed \cup {r})
        BY <1>5, <3>2, FS_Subset
      <3> QED
        BY <1>1, <1>8, <3>1, <3>2, <3>3
    <2>2. CASE ~TearIsOpen
      <3>1. Exposed' \subseteq Exposed
        BY <1>5, <1>6, <2>2 DEF Exposed
      <3>2. Cardinality(Exposed') <= Cardinality(Exposed)
        BY <1>7, <3>1, FS_Subset
      <3> QED
        BY <1>1, <1>8, <3>2 DEF TearsAccounted
    <2> QED
      BY <2>1, <2>2
  <1> QED
    BY <1>1, <1>3, <1>7, <1>9 DEF TearsAccounted

LEMMA SyncFailsKeepsTears ==
  ASSUME IInv, TearsAccounted, NEW r \in Rows, SyncFails(r) PROVE TearsAccounted'
  <1>1. PICK given \in SUBSET (synced + 1 .. Len(file)) :
          /\ dropped' = dropped \cup given
          /\ tears' = IF given = {} THEN tears ELSE tears + 1
    BY DEF SyncFails
  <1>2. /\ TypeOK /\ UNCHANGED <<file, synced, acked>>
        /\ synced \in Nat /\ synced <= Len(file) /\ Len(file) \in Nat
    BY DEF IInv, TypeOK, SyncFails
  <1>3. Exposed' \subseteq Exposed
    <2>1. \A k \in 1 .. synced : k \notin dropped => k \notin dropped'
      BY <1>1, <1>2
    <2> QED
      BY <1>2, <2>1, SafeStays
  <1>4. given = {} => (TearIsOpen' => TearIsOpen)
    BY <1>1, <1>2 DEF TearIsOpen, Torn, WholeAt
  <1> QED
    BY <1>1, <1>2, <1>3, <1>4, TearsKept DEF TearsAccounted

\* What a power loss leaves last is the end of a row, or it counts as a tear, or
\* it was torn before.
LEMMA PowerLossKeepsTears ==
  ASSUME IInv, TearsAccounted, PowerLoss PROVE TearsAccounted'
  <1>1. PICK n \in synced .. Len(file) :
          \E holes \in SUBSET ((synced + 1 .. n) \cup {k \in dropped : k <= n}) :
             /\ file' = Survives(n, holes)
             /\ synced' = n
             /\ tears' = IF TearsLast(n, holes) THEN tears + 1 ELSE tears
    BY DEF PowerLoss
  <1>2. PICK holes \in SUBSET ((synced + 1 .. n) \cup {k \in dropped : k <= n}) :
          /\ file' = Survives(n, holes)
          /\ synced' = n
          /\ tears' = IF TearsLast(n, holes) THEN tears + 1 ELSE tears
    BY <1>1
  <1>3. /\ TypeOK /\ acked' = acked /\ dropped' = {}
        /\ file \in Seq(Pieces) /\ Len(file) \in Nat /\ synced \in Nat
        /\ synced <= Len(file) /\ n \in 0 .. Len(file) /\ synced <= n
    BY <1>1 DEF IInv, TypeOK, PowerLoss
  <1>4. /\ Len(file') = n
        /\ \A k \in 1 .. n : k \notin holes => file'[k] = file[k]
    BY <1>2, <1>3, SurvivesBounds
  <1>5. Exposed' \subseteq Exposed
    <2>1. \A k \in 1 .. synced : k \notin dropped => file'[k] = file[k] /\ k \notin dropped'
      BY <1>2, <1>3, <1>4
    <2> QED
      BY <1>2, <1>3, <1>4, <2>1, SafeStays
  <1>6. ASSUME ~TearsLast(n, holes), TearIsOpen' PROVE TearIsOpen
    <2>1. PICK k \in 1 .. n : k >= n /\ Torn(k)'
      BY <1>2, <1>4, <1>6 DEF TearIsOpen
    <2>2. n > 0 /\ n \in 1 .. Len(file) /\ n >= synced /\ Torn(n)'
      <3>1. k = n
        BY <1>3, <2>1
      <3> QED
        BY <1>3, <2>1, <3>1
    <2>3. ~WholeAt(file[n].row, n)
      BY <1>6, <2>2 DEF TearsLast
    <2>4. file[n].part # "end"
      <3> SUFFICES ASSUME file[n].part = "end" PROVE FALSE
        OBVIOUS
      <3>1. n \notin holes
        BY <1>6, <2>2 DEF TearsLast
      <3>2. file'[n] = file[n]
        BY <1>4, <2>2, <3>1
      <3> QED
        BY <1>3, <2>2, <3>2 DEF Torn
    <2> QED
      BY <2>2, <2>3, <2>4 DEF TearIsOpen, Torn
  <1> QED
    BY <1>2, <1>3, <1>5, <1>6, TearsKept DEF TearsAccounted

LEMMA OthersKeepTears ==
  ASSUME TypeOK, TearsAccounted, UNCHANGED <<file, synced, dropped, acked, tears>>
  PROVE  TearsAccounted'
  BY DEF TearsAccounted, Exposed, Safe, TearIsOpen, Torn, WholeAt

\* Among the acknowledged rows those that a reader of lines does not find are no
\* more than the tears: a tear can cost the row written next and no other.
THEOREM TearsCostOneRowEach == Spec => []EachTearCostsOneRow
  <1>1. ASSUME Init PROVE TearsAccounted
    <2>1. acked = {} /\ tears = 0 /\ Exposed = {} /\ ~TearIsOpen
      BY <1>1 DEF Init, Exposed, TearIsOpen
    <2> QED
      BY <2>1, FS_EmptySet DEF TearsAccounted
  <1>2. ASSUME IInv, TearsAccounted, [Next]_vars PROVE TearsAccounted'
    <2>1. ASSUME NEW r \in Rows,
                 Write(r) \/ WriteFails(r) \/ Sync(r) \/ SyncFails(r)
          PROVE  TearsAccounted'
      BY <1>2, <2>1, WriteKeepsTears, WriteFailsKeepsTears, SyncKeepsTears, SyncFailsKeepsTears
    <2>2. CASE PowerLoss
      BY <1>2, <2>2, PowerLossKeepsTears
    <2>3. CASE Close \/ Exit \/ Restart \/ UNCHANGED vars \/ (\E r \in Rows : Record(r))
      <3>1. UNCHANGED <<file, synced, dropped, acked, tears>>
        BY <2>3 DEF Close, Exit, Restart, OpenFile, vars, Record
      <3> QED
        BY <1>2, <3>1, OthersKeepTears DEF IInv
    <2> QED
      BY <1>2, <2>1, <2>2, <2>3 DEF Next
  <1>3. ASSUME IInv, TearsAccounted PROVE EachTearCostsOneRow
    <2>1. IsFiniteSet(Exposed) /\ acked \ Readable \subseteq Exposed
      BY <1>3, UnreadableAreExposed, FS_Subset DEF IInv, TearsAccounted, Exposed
    <2>2. /\ Cardinality(acked \ Readable) <= Cardinality(Exposed)
          /\ Cardinality(acked \ Readable) \in Nat /\ Cardinality(Exposed) \in Nat
      BY <2>1, FS_Subset, FS_CardinalityType
    <2>3. tears \in Nat
      BY <1>3 DEF IInv, TypeOK
    <2> QED
      BY <1>3, <2>2, <2>3 DEF TearsAccounted, EachTearCostsOneRow
  <1>4. Spec => [](IInv /\ TearsAccounted)
    BY <1>1, <1>2, Invariance, PTL DEF Spec
  <1> QED
    BY <1>3, <1>4, PTL
-----------------------------------------------------------------------------
\* What Present is, in terms of a place.
LEMMA PresentIs == \A r : r \in Present <=> r \in Rows /\ \E k \in 1 .. Len(file) : WholeAt(r, k)
  BY DEF Present

LEMMA PresentWhere ==
  ASSUME file \in Seq(Pieces)
  PROVE  \A r \in Rows : \A k : WholeAt(r, k) => r \in Present
  BY DEF Present, WholeAt

\* An acknowledged row is in the account.
LEMMA AckedPresent == ASSUME IInv PROVE acked \subseteq Present
  <1> SUFFICES ASSUME NEW r \in acked PROVE r \in Present
    OBVIOUS
  <1>1. PICK k \in 1 .. synced : WholeAt(r, k)
    BY DEF IInv, AckedIsDurable
  <1> QED
    BY <1>1, PresentWhere DEF IInv, TypeOK

\* The write is the entry in the account.
LEMMA WriteEnters == ASSUME IInv, NEW r \in Rows, Write(r) PROVE Promised!Enter(r)
  <1>1. /\ file \in Seq(Pieces) /\ Line(r) \in Seq(Pieces) /\ Len(Line(r)) = 2
        /\ Line(r)[1] = Start(r) /\ Line(r)[2] = End(r)
    BY PiecesAre DEF IInv, TypeOK, Line
  <1>2. /\ file' \in Seq(Pieces)
        /\ Len(file') = Len(file) + Len(Line(r))
        /\ \A k \in 1 .. Len(file) : file'[k] = file[k]
        /\ \A k \in 1 .. Len(Line(r)) : file'[Len(file) + k] = Line(r)[k]
        /\ \A s, k : WholeAt(s, k) => WholeAt(s, k)'
    <2>1. file' = file \o Line(r)
      BY DEF Write
    <2> QED
      BY <1>1, <2>1, AppendKeepsRows
  <1>3. /\ Len(file) \in Nat /\ Len(file') = Len(file) + 2
        /\ file'[Len(file) + 1] = Start(r) /\ file'[Len(file) + 2] = End(r)
    <2>1. 1 \in 1 .. Len(Line(r)) /\ 2 \in 1 .. Len(Line(r))
      BY <1>1
    <2> QED
      BY <1>1, <1>2, <2>1
  <1>4. r \notin Present
    <2> SUFFICES ASSUME NEW k \in 1 .. Len(file), WholeAt(r, k) PROVE FALSE
      BY PresentIs
    <2>1. file[k].row # r
      BY DEF IInv, UnwrittenIsAbsent, Write
    <2> QED
      BY <2>1, PartsDiffer DEF WholeAt
  <1>5. Present' = Present \cup {r}
    <2>1. ASSUME NEW s \in Rows, NEW k \in 1 .. Len(file'), WholeAt(s, k)', s # r
          PROVE  s \in Present
      <3>1. k \in 1 .. Len(file') - 1 /\ file'[k] = Start(s) /\ file'[k + 1] = End(s)
        BY <2>1 DEF WholeAt
      <3>2. k # Len(file) + 1
        BY <1>3, <2>1, <3>1, PartsDiffer
      <3>3. k # Len(file)
        BY <1>3, <3>1, PartsDiffer
      <3>4. k \in 1 .. Len(file) - 1
        BY <1>3, <3>1, <3>2, <3>3
      <3>5. WholeAt(s, k)
        BY <1>2, <1>3, <3>1, <3>4 DEF WholeAt
      <3> QED
        BY <1>1, <3>5, PresentWhere
    <2>2. ASSUME NEW s \in Present PROVE s \in Present'
      <3>1. PICK k \in 1 .. Len(file) : WholeAt(s, k)
        BY PresentIs
      <3>2. s \in Rows /\ WholeAt(s, k)' /\ k \in 1 .. Len(file')
        BY <1>2, <1>3, <3>1, PresentIs
      <3> QED
        BY <3>2 DEF Present
    <2>3. r \in Present'
      <3>1. Len(file) + 1 \in 1 .. Len(file')
        BY <1>3
      <3>2. PICK k \in 1 .. Len(file') : k = Len(file) + 1
        BY <3>1
      <3>3. WholeAt(r, k)'
        BY <1>3, <3>2 DEF WholeAt
      <3> QED
        BY <3>3 DEF Present
    <2>4. \A s \in Present' : s \in Rows /\ \E k \in 1 .. Len(file') : WholeAt(s, k)'
      BY DEF Present
    <2> QED
      BY <2>1, <2>2, <2>3, <2>4
  <1> QED
    BY <1>4, <1>5 DEF Promised!Enter, Write

\* A part of a line is no row, and makes none with what is before it.
LEMMA WriteFailsStutters ==
  ASSUME IInv, NEW r \in Rows, WriteFails(r) PROVE Present' = Present /\ acked' = acked
  <1>1. CASE file' = file
    BY <1>1 DEF Present, WholeAt, WriteFails
  <1>2. CASE file' = Append(file, Start(r))
    <2>1. file \in Seq(Pieces) /\ Start(r) \in Pieces
      BY PiecesAre DEF IInv, TypeOK
    <2>2. /\ Len(file) \in Nat /\ Len(file') = Len(file) + 1
          /\ \A k \in 1 .. Len(file) : file'[k] = file[k]
          /\ file'[Len(file) + 1] = Start(r)
      BY <1>2, <2>1
    <2>3. ASSUME NEW s, NEW k PROVE WholeAt(s, k)' <=> WholeAt(s, k)
      <3>1. WholeAt(s, k) => WholeAt(s, k)'
        BY <2>2 DEF WholeAt
      <3>2. ASSUME WholeAt(s, k)' PROVE WholeAt(s, k)
        <4>1. k \in 1 .. Len(file) /\ file'[k] = Start(s) /\ file'[k + 1] = End(s)
          BY <2>2, <3>2 DEF WholeAt
        <4>2. k # Len(file)
          BY <2>2, <4>1, PartsDiffer
        <4> QED
          BY <2>2, <4>1, <4>2 DEF WholeAt
      <3> QED
        BY <3>1, <3>2
    <2>4. \A s, k : WholeAt(s, k) => k \in 1 .. Len(file)
      BY <2>2 DEF WholeAt
    <2>5. ASSUME NEW s \in Rows
          PROVE  (\E k \in 1 .. Len(file') : WholeAt(s, k)') <=> (\E k \in 1 .. Len(file) : WholeAt(s, k))
      BY <2>2, <2>3, <2>4
    <2> QED
      BY <2>5 DEF Present, WriteFails
  <1> QED
    BY <1>1, <1>2 DEF WriteFails

\* The sync that succeeds is the acknowledgement.
LEMMA SyncAcknowledges == ASSUME IInv, NEW r \in Rows, Sync(r) PROVE Promised!Acknowledge(r)
  <1>1. r \in Present
    BY PresentWhere DEF IInv, TypeOK, WrittenIsLast, Sync
  <1>2. Present' = Present
    BY DEF Present, WholeAt, Sync
  <1> QED
    BY <1>1, <1>2 DEF Promised!Acknowledge, Sync

\* A power loss is what the account calls a loss.
LEMMA PowerLossLoses == ASSUME IInv, PowerLoss PROVE Promised!Lose
  <1>1. IInv' /\ \A r, k : WholeAt(r, k)' => WholeAt(r, k)
    BY PowerLossKeeps
  <1>2. Present' \subseteq Present
    <2>1. \A s \in Present' : s \in Rows /\ \E k \in 1 .. Len(file') : WholeAt(s, k)'
      BY DEF Present
    <2> QED
      BY <1>1, <2>1, PresentWhere DEF IInv, TypeOK
  <1>3. (acked \subseteq Present)'
    <2> SUFFICES ASSUME NEW r \in acked' PROVE r \in Present'
      OBVIOUS
    <2>1. PICK k \in 1 .. synced' : WholeAt(r, k)'
      BY <1>1 DEF IInv, AckedIsDurable
    <2>2. r \in Rows /\ k \in 1 .. Len(file')
      BY <1>1, <2>1 DEF IInv, TypeOK
    <2> QED
      BY <2>1, <2>2 DEF Present
  <1> QED
    BY <1>2, <1>3 DEF Promised!Lose, PowerLoss

\* A call of Record, and a sync that fails, are none of the account's.
LEMMA OthersStutter ==
  ASSUME NEW r \in Rows,
         Record(r) \/ SyncFails(r)
  PROVE  Present' = Present /\ acked' = acked
  <1>1. file' = file /\ acked' = acked
    BY DEF Record, SyncFails
  <1> QED
    BY <1>1 DEF Present, WholeAt

\* The record implements the account that the broker relies on: rows enter it
\* with the write, are acknowledged with the sync, and only what was not
\* acknowledged can be lost.
THEOREM AccountKept == Spec => KeepsAccount
  <1>1. ASSUME Init PROVE Promised!Init
    <2>1. Present = {}
      BY <1>1 DEF Init, Present, WholeAt
    <2> QED
      BY <1>1, <2>1 DEF Init, Promised!Init
  <1>2. ASSUME IInv, [Next]_vars PROVE [Promised!Next]_(Promised!vars)
    <2>1. ASSUME NEW r \in Rows,
                 Record(r) \/ Write(r) \/ WriteFails(r) \/ Sync(r) \/ SyncFails(r)
          PROVE  [Promised!Next]_(Promised!vars)
      <3>1. CASE Write(r)
        BY <1>2, <3>1, WriteEnters DEF Promised!Next
      <3>2. CASE Sync(r)
        BY <1>2, <3>2, SyncAcknowledges DEF Promised!Next
      <3>3. CASE WriteFails(r)
        BY <1>2, <3>3, WriteFailsStutters DEF Promised!vars
      <3>4. CASE Record(r) \/ SyncFails(r)
        BY <3>4, OthersStutter DEF Promised!vars
      <3> QED
        BY <2>1, <3>1, <3>2, <3>3, <3>4
    <2>2. CASE PowerLoss
      BY <1>2, <2>2, PowerLossLoses DEF Promised!Next
    <2>3. CASE Close \/ Exit \/ Restart \/ UNCHANGED vars
      <3>1. file' = file /\ acked' = acked
        BY <2>3 DEF Close, Exit, Restart, OpenFile, vars
      <3>2. Present' = Present
        BY <3>1 DEF Present, WholeAt
      <3> QED
        BY <3>1, <3>2 DEF Promised!vars
    <2> QED
      BY <1>2, <2>1, <2>2, <2>3 DEF Next
  <1> QED
    BY <1>1, <1>2, Invariance, PTL DEF Spec, KeepsAccount, Promised!Spec
=============================================================================
