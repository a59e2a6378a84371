-------------------------- MODULE TLSSourceProofs --------------------------
(***************************************************************************)
(* What tlsconf.Source promises for any number of handshakes and rewrites: *)
(* no handshake puts back what an earlier one replaced, files that settled *)
(* take effect, and a state that does not load is reported once.           *)
(*                                                                         *)
(* The states a file goes through are ordered, and every look at it sees   *)
(* one that is no older than the looks before.  All of it follows from the *)
(* order of the looks, which is that of the handshakes because each holds  *)
(* the mutex through all of its own.                                       *)
(***************************************************************************)
EXTENDS TLSSource, TLAPS

\* How far a file has come: half written is before whole.
Rank(s) == 2 * s.gen - (IF s.whole THEN 0 ELSE 1)

\* The first n states of `earlier` are no newer than those of `later`.
NotNewer(earlier, later, n) == \A i \in 1 .. n : Rank(earlier[i]) <= Rank(later[i])

\* Where a connection is, as a record of its locals.
Conn ==
    {Idle} \cup
    [at : {"looking"}, began : [Files -> FileState], seen : Seq(FileState),
     again : Seq(FileState), read : Seq(FileState)]

\* The mutex is held from the first look of a handshake to its last.
HoldsMutex == \A p \in Procs : conn[p] # Idle => mu = p

\* What is in force, and what is recorded of it, is from an earlier look.
NothingIsAhead ==
    /\ Rank(current.cert) <= Rank(disk["cert"])
    /\ Rank(current.bundle) <= Rank(disk["bundle"])
    /\ NotNewer(stamps, Stamp(disk), 3)

\* A handshake's looks come one after another: the mutex, the stats, the stats of
\* load, the reads; none before the one that led to it.
InOrder(c) ==
    /\ Rank(current.cert) <= Rank(c.began["cert"])
    /\ Rank(current.bundle) <= Rank(c.began["bundle"])
    /\ NotNewer(stamps, Stamp(c.began), 3)
    /\ NotNewer(Stamp(c.began), Stamp(disk), 3)
    /\ NotNewer(Stamp(c.began), c.seen, Len(c.seen))
    /\ NotNewer(c.seen, Stamp(disk), Len(c.seen))
    /\ NotNewer(c.seen, c.again, Len(c.again))
    /\ NotNewer(c.again, Stamp(disk), Len(c.again))
    /\ NotNewer(c.again, c.read, Len(c.read))
    /\ NotNewer(c.read, Stamp(disk), Len(c.read))
    /\ Len(c.seen) <= 3 /\ Len(c.again) <= 3 /\ Len(c.read) <= 2
    /\ Len(c.again) > 0 => Len(c.seen) = 3
    /\ Len(c.read) > 0 => Len(c.again) = 3
    /\ Len(c.seen) = 3 => c.seen # stamps

LooksInOrder == \A p \in Procs : conn[p] # Idle => InOrder(conn[p])

\* Stamps that match the disk are of a load that got what is on the disk, unless
\* the files do not belong together or that load failed by accident.
StampsMeanLoaded ==
    ~glitch /\ Settled(disk) /\ stamps = Stamp(disk) => current = Material(Stamp(disk))

\* How far the three files had come when they were looked at.
Reached(looks) == Rank(looks[1]) + Rank(looks[2]) + Rank(looks[3])

\* Every report left stamps that are newer than those before it.
ReportsCovered == reports <= Reached(stamps)

Typed ==
    /\ disk \in [Files -> FileState]
    /\ \A f \in Files : disk[f].gen <= Rewrites[f]
    /\ mu \in Procs \cup {NoProc}
    /\ current \in [cert : FileState, bundle : FileState]
    /\ stamps \in Seq(FileState) /\ Len(stamps) = 3
    /\ conn \in [Procs -> Conn]
    /\ glitch \in BOOLEAN
    /\ reports \in Nat

IInv ==
    /\ Typed
    /\ HoldsMutex
    /\ NothingIsAhead
    /\ LooksInOrder
    /\ StampsMeanLoaded
    /\ ReportsCovered
-----------------------------------------------------------------------------
\* The order of a file's states is total, and tells any two of them apart.
LEMMA RankIsAnOrder ==
  ASSUME NEW a \in FileState, NEW b \in FileState
  PROVE  /\ Rank(a) \in Int
         /\ Rank(a) >= -1
         /\ Rank(a) = Rank(b) => a = b
         /\ Rank(a) <= Rank(b) => a.gen <= b.gen
  <1>1. a.gen \in Nat /\ b.gen \in Nat /\ a.whole \in BOOLEAN /\ b.whole \in BOOLEAN
    BY DEF FileState
  <1>2. Rank(a) = IF a.whole THEN 2 * a.gen ELSE 2 * a.gen - 1
    BY <1>1 DEF Rank
  <1>3. Rank(b) = IF b.whole THEN 2 * b.gen ELSE 2 * b.gen - 1
    BY <1>1 DEF Rank
  <1>4. Rank(a) = Rank(b) => a.gen = b.gen /\ a.whole = b.whole
    BY <1>1, <1>2, <1>3
  <1>5. a = [gen |-> a.gen, whole |-> a.whole] /\ b = [gen |-> b.gen, whole |-> b.whole]
    BY DEF FileState
  <1>6. Rank(a) = Rank(b) => a = b
    BY <1>4, <1>5
  <1> QED
    BY <1>1, <1>2, <1>3, <1>6

\* A stamp is the three states in the order they are looked at.
LEMMA StampType ==
  ASSUME NEW d \in [Files -> FileState]
  PROVE  /\ Stamp(d) \in Seq(FileState) /\ Len(Stamp(d)) = 3
         /\ Stamp(d) \in [1 .. 3 -> FileState]
         /\ Stamp(d)[1] = d["cert"] /\ Stamp(d)[2] = d["key"] /\ Stamp(d)[3] = d["bundle"]
  <1>1. \A i \in 1 .. 3 : Order[i] \in Files
    BY DEF Order, Files
  <1>2. Stamp(d) \in [1 .. 3 -> FileState]
    BY <1>1 DEF Stamp
  <1>3. Stamp(d) = <<d["cert"], d["key"], d["bundle"]>>
    BY DEF Stamp, Order
  <1>4. Stamp(d) \in Seq(FileState) /\ Len(Stamp(d)) = 3
    BY <1>3 DEF Files
  <1> QED
    BY <1>2, <1>3, <1>4

\* A sequence of three states is a function of three places.
LEMMA ThreeStates ==
  ASSUME NEW s \in Seq(FileState), Len(s) = 3
  PROVE  s \in [1 .. 3 -> FileState]
  OBVIOUS

LEMMA NotNewerTrans ==
  ASSUME NEW n \in Nat, NEW a, NEW b, NEW c,
         \A i \in 1 .. n : a[i] \in FileState /\ b[i] \in FileState /\ c[i] \in FileState,
         NotNewer(a, b, n), NotNewer(b, c, n)
  PROVE  NotNewer(a, c, n)
  <1> SUFFICES ASSUME NEW i \in 1 .. n PROVE Rank(a[i]) <= Rank(c[i])
    BY DEF NotNewer
  <1>1. Rank(a[i]) \in Int /\ Rank(b[i]) \in Int /\ Rank(c[i]) \in Int
    BY RankIsAnOrder
  <1>2. Rank(a[i]) <= Rank(b[i]) /\ Rank(b[i]) <= Rank(c[i])
    BY DEF NotNewer
  <1> QED
    BY <1>1, <1>2

\* Looks that are no newer than one another are the same.
LEMMA NotNewerAntisym ==
  ASSUME NEW a \in [1 .. 3 -> FileState], NEW b \in [1 .. 3 -> FileState],
         NotNewer(a, b, 3), NotNewer(b, a, 3)
  PROVE  a = b
  <1> SUFFICES ASSUME NEW i \in 1 .. 3 PROVE a[i] = b[i]
    OBVIOUS
  <1>1. Rank(a[i]) \in Int /\ Rank(b[i]) \in Int /\ (Rank(a[i]) = Rank(b[i]) => a[i] = b[i])
    BY RankIsAnOrder
  <1>2. Rank(a[i]) <= Rank(b[i]) /\ Rank(b[i]) <= Rank(a[i])
    BY DEF NotNewer
  <1> QED
    BY <1>1, <1>2

\* The files are what their stamp says.
LEMMA StampDetermines ==
  ASSUME NEW d \in [Files -> FileState], NEW e \in [Files -> FileState], Stamp(d) = Stamp(e)
  PROVE  d = e
  <1>1. d["cert"] = e["cert"] /\ d["key"] = e["key"] /\ d["bundle"] = e["bundle"]
    BY StampType
  <1> QED
    BY <1>1 DEF Files

\* A look adds what is on the disk now to what was seen before.
LEMMA LookAdds ==
  ASSUME disk \in [Files -> FileState], NEW done \in Seq(FileState), Len(done) < 3
  PROVE  /\ Look(done) \in Seq(FileState)
         /\ Len(Look(done)) = Len(done) + 1
         /\ \A i \in 1 .. Len(done) : Look(done)[i] = done[i]
         /\ Look(done)[Len(done) + 1] = Stamp(disk)[Len(done) + 1]
         /\ NotNewer(done, Stamp(disk), Len(done)) =>
               NotNewer(Look(done), Stamp(disk), Len(Look(done)))
  <1> DEFINE k == Len(done) + 1
  <1>1. k \in 1 .. 3
    OBVIOUS
  <1>2. Order[k] \in Files
    BY <1>1 DEF Order, Files
  <1>3. disk[Order[k]] \in FileState /\ Stamp(disk)[k] = disk[Order[k]]
    BY <1>1, <1>2 DEF Stamp
  <1>4. Look(done) = Append(done, Stamp(disk)[k])
    BY <1>3 DEF Look
  <1>5. /\ Look(done) \in Seq(FileState)
        /\ Len(Look(done)) = Len(done) + 1
        /\ \A i \in 1 .. Len(done) : Look(done)[i] = done[i]
        /\ Look(done)[Len(done) + 1] = Stamp(disk)[Len(done) + 1]
    BY <1>3, <1>4
  <1>6. ASSUME NotNewer(done, Stamp(disk), Len(done))
        PROVE  NotNewer(Look(done), Stamp(disk), Len(Look(done)))
    <2> SUFFICES ASSUME NEW i \in 1 .. Len(Look(done))
                 PROVE  Rank(Look(done)[i]) <= Rank(Stamp(disk)[i])
      BY DEF NotNewer
    <2>1. CASE i \in 1 .. Len(done)
      BY <2>1, <1>5, <1>6 DEF NotNewer
    <2>2. CASE i = k
      <3>1. Look(done)[i] = Stamp(disk)[i] /\ Stamp(disk)[i] \in FileState
        BY <2>2, <1>3, <1>5
      <3> QED
        BY <3>1, RankIsAnOrder
    <2> QED
      BY <2>1, <2>2, <1>5
  <1> QED
    BY <1>5, <1>6

\* What an earlier list saw of a file is no newer than the disk, so it is no newer
\* than the next look either.
LEMMA LookIsNotOlder ==
  ASSUME disk \in [Files -> FileState], NEW done \in Seq(FileState), Len(done) < 3,
         NEW before, NotNewer(before, Stamp(disk), 3), NotNewer(before, done, Len(done))
  PROVE  NotNewer(before, Look(done), Len(Look(done)))
  <1> SUFFICES ASSUME NEW i \in 1 .. Len(Look(done))
               PROVE  Rank(before[i]) <= Rank(Look(done)[i])
    BY DEF NotNewer
  <1>1. i \in 1 .. Len(done) + 1 /\ i \in 1 .. 3
    BY LookAdds
  <1>2. CASE i \in 1 .. Len(done)
    BY <1>2, LookAdds DEF NotNewer
  <1>3. CASE i = Len(done) + 1
    BY <1>1, <1>3, LookAdds DEF NotNewer
  <1> QED
    BY <1>1, <1>2, <1>3
-----------------------------------------------------------------------------
\* The locals of a connection that is in its handshake.
LEMMA LookingConn ==
  ASSUME NEW c \in Conn, c # Idle
  PROVE  /\ c.at = "looking"
         /\ c.began \in [Files -> FileState]
         /\ c.seen \in Seq(FileState) /\ c.again \in Seq(FileState) /\ c.read \in Seq(FileState)
         /\ c = Looking(c.began, c.seen, c.again, c.read)
  BY DEF Conn, Looking

LEMMA LookingIsConn ==
  ASSUME NEW began \in [Files -> FileState], NEW seen \in Seq(FileState),
         NEW again \in Seq(FileState), NEW read \in Seq(FileState)
  PROVE  /\ Looking(began, seen, again, read) \in Conn
         /\ Looking(began, seen, again, read) # Idle
  <1>1. Looking(began, seen, again, read) \in Conn
    BY DEF Looking, Conn
  <1>2. Looking(began, seen, again, read).at # Idle.at
    BY DEF Looking, Idle
  <1> QED
    BY <1>1, <1>2

LEMMA LookingExcept ==
  ASSUME NEW b, NEW s, NEW a, NEW r, NEW x
  PROVE  /\ [Looking(b, s, a, r) EXCEPT !.seen = x] = Looking(b, x, a, r)
         /\ [Looking(b, s, a, r) EXCEPT !.again = x] = Looking(b, s, x, r)
         /\ [Looking(b, s, a, r) EXCEPT !.read = x] = Looking(b, s, a, x)
  BY DEF Looking

\* What is being looked at is in order, so typed lists are no longer than three.
LEMMA IInvIsTyped == IInv => TypeOK
  <1> SUFFICES ASSUME IInv PROVE TypeOK
    OBVIOUS
  <1>1. ASSUME NEW p \in Procs, conn[p] # Idle
        PROVE  /\ conn[p].at = "looking"
               /\ conn[p].began \in [Files -> FileState]
               /\ \A s \in {conn[p].seen, conn[p].again, conn[p].read} :
                    s \in Seq(FileState) /\ Len(s) <= 3
    <2>1. conn[p] \in Conn
      BY DEF IInv, Typed
    <2>2. InOrder(conn[p])
      BY <1>1 DEF IInv, LooksInOrder
    <2>3. /\ conn[p].seen \in Seq(FileState) /\ Len(conn[p].seen) <= 3
          /\ conn[p].again \in Seq(FileState) /\ Len(conn[p].again) <= 3
          /\ conn[p].read \in Seq(FileState) /\ Len(conn[p].read) <= 3
      BY <1>1, <2>1, <2>2, LookingConn DEF InOrder
    <2> QED
      BY <1>1, <2>1, <2>3, LookingConn
  <1> QED
    BY <1>1 DEF IInv, Typed, TypeOK

LEMMA InitEstablishes == Init => IInv
  <1> SUFFICES ASSUME Init PROVE IInv
    OBVIOUS
  <1> DEFINE new == [gen |-> 0, whole |-> TRUE]
  <1>1. new \in FileState /\ Rank(new) = 0
    <2>1. new \in FileState /\ new.gen = 0 /\ new.gen \in Int /\ new.whole
      BY DEF FileState
    <2> HIDE DEF new
    <2>2. Rank(new) = 2 * new.gen - 0
      BY <2>1 DEF Rank
    <2> QED
      BY <2>1, <2>2
  <1>2. disk \in [Files -> FileState] /\ \A f \in Files : disk[f] = new
    BY <1>1 DEF Init
  <1>3. /\ stamps \in Seq(FileState) /\ Len(stamps) = 3 /\ stamps = Stamp(disk)
        /\ stamps[1] = new /\ stamps[2] = new /\ stamps[3] = new
    BY <1>2, StampType DEF Init, Files
  <1>4. current = [cert |-> new, bundle |-> new]
    BY <1>3 DEF Init, Material
  <1>5. Idle \in Conn
    BY DEF Conn
  <1> HIDE DEF new
  <1>6. Typed
    <2>1. \A f \in Files : disk[f].gen <= Rewrites[f]
      BY <1>2, SourceAssumption DEF new
    <2>2. current \in [cert : FileState, bundle : FileState]
      BY <1>1, <1>4
    <2>3. conn \in [Procs -> Conn]
      BY <1>5 DEF Init
    <2> QED
      BY <1>2, <1>3, <2>1, <2>2, <2>3 DEF Init, Typed
  <1>7. HoldsMutex /\ LooksInOrder
    BY DEF Init, HoldsMutex, LooksInOrder
  <1>8. NothingIsAhead
    <2>1. NotNewer(stamps, Stamp(disk), 3)
      <3>1. \A i \in 1 .. 3 : Rank(stamps[i]) = Rank(Stamp(disk)[i]) /\ Rank(stamps[i]) = 0
        BY <1>1, <1>3
      <3> QED
        BY <3>1 DEF NotNewer
    <2> QED
      BY <1>1, <1>2, <1>4, <2>1 DEF NothingIsAhead, Files
  <1>9. StampsMeanLoaded /\ ReportsCovered
    BY <1>1, <1>3 DEF Init, StampsMeanLoaded, ReportsCovered, Reached
  <1> QED
    BY <1>6, <1>7, <1>8, <1>9 DEF IInv
-----------------------------------------------------------------------------
\* A writer only takes a file further.
LEMMA WritersGoForward ==
  ASSUME IInv,
         \/ \E fs \in (SUBSET Files) \ {{}} : Replace(fs)
         \/ \E f \in Files : BeginWrite(f) \/ EndWrite(f)
  PROVE  /\ disk' \in [Files -> FileState]
         /\ \A f \in Files : disk'[f].gen <= Rewrites[f] /\ Rank(disk[f]) <= Rank(disk'[f])
         /\ UNCHANGED <<mu, current, stamps, conn, glitch, reports>>
  <1> DEFINE Further(a, b, f) ==
               b \in FileState /\ b.gen <= Rewrites[f] /\ Rank(a) <= Rank(b)
  <1>1. disk \in [Files -> FileState] /\ \A f \in Files : disk[f].gen <= Rewrites[f]
    BY DEF IInv, Typed
  <1>2. \A f \in Files : Rewrites[f] \in Nat
    BY SourceAssumption
  <1>a. ASSUME NEW a \in FileState, NEW n, NEW w
        PROVE  /\ [a EXCEPT !.gen = n] = [gen |-> n, whole |-> a.whole]
               /\ [a EXCEPT !.whole = w] = [gen |-> a.gen, whole |-> w]
    BY DEF FileState
  <1>3. ASSUME NEW f \in Files PROVE Further(disk[f], disk[f], f)
    BY <1>1, RankIsAnOrder
  <1>4. ASSUME NEW f \in Files, NEW a \in FileState, NEW w \in BOOLEAN,
               a.whole, a.gen < Rewrites[f]
        PROVE  Further(a, [gen |-> a.gen + 1, whole |-> w], f)
    <2> DEFINE b == [gen |-> a.gen + 1, whole |-> w]
    <2>1. a.gen \in Nat /\ b \in FileState /\ b.gen = a.gen + 1 /\ b.whole = w
      BY DEF FileState
    <2> HIDE DEF b
    <2> QED
      BY <1>2, <1>4, <2>1 DEF b, Rank
  <1>5. ASSUME NEW f \in Files, NEW a \in FileState, ~a.whole, a.gen <= Rewrites[f]
        PROVE  Further(a, [gen |-> a.gen, whole |-> TRUE], f)
    <2> DEFINE b == [gen |-> a.gen, whole |-> TRUE]
    <2>1. a.gen \in Nat /\ b \in FileState /\ b.gen = a.gen /\ b.whole
      BY DEF FileState
    <2> HIDE DEF b
    <2> QED
      BY <1>2, <1>5, <2>1 DEF b, Rank
  <1> HIDE DEF Further
  <1>6. ASSUME NEW fs \in (SUBSET Files) \ {{}}, Replace(fs)
        PROVE  disk' = [f \in Files |-> disk'[f]] /\ \A f \in Files : Further(disk[f], disk'[f], f)
    <2>1. disk' = [f \in Files |-> IF f \in fs THEN [disk[f] EXCEPT !.gen = @ + 1] ELSE disk[f]]
      BY <1>6 DEF Replace
    <2>2. ASSUME NEW f \in fs PROVE Further(disk[f], disk'[f], f)
      <3>1. f \in Files /\ disk[f].whole /\ disk[f].gen < Rewrites[f] /\ disk[f] \in FileState
        BY <1>1, <1>6 DEF Replace
      <3>2. [disk[f] EXCEPT !.gen = @ + 1] = [gen |-> disk[f].gen + 1, whole |-> disk[f].whole]
        BY <3>1, <1>a
      <3>3. disk[f].whole \in BOOLEAN
        BY <3>1 DEF FileState
      <3> QED
        BY <2>1, <3>1, <3>2, <3>3, <1>4
    <2>3. ASSUME NEW f \in Files \ fs PROVE Further(disk[f], disk'[f], f)
      BY <2>1, <1>3
    <2> QED
      BY <2>1, <2>2, <2>3
  <1>7. ASSUME NEW g \in Files, BeginWrite(g)
        PROVE  disk' = [f \in Files |-> disk'[f]] /\ \A f \in Files : Further(disk[f], disk'[f], f)
    <2>1. disk' = [disk EXCEPT ![g] = [gen |-> disk[g].gen + 1, whole |-> FALSE]]
      BY <1>7 DEF BeginWrite
    <2>2. Further(disk[g], disk'[g], g)
      BY <1>1, <1>4, <1>7, <2>1 DEF BeginWrite
    <2> QED
      BY <1>1, <1>3, <2>1, <2>2
  <1>8. ASSUME NEW g \in Files, EndWrite(g)
        PROVE  disk' = [f \in Files |-> disk'[f]] /\ \A f \in Files : Further(disk[f], disk'[f], f)
    <2>1. disk' = [disk EXCEPT ![g] = [disk[g] EXCEPT !.whole = TRUE]]
      BY <1>1, <1>8 DEF EndWrite
    <2>2. [disk[g] EXCEPT !.whole = TRUE] = [gen |-> disk[g].gen, whole |-> TRUE]
      BY <1>1, <1>a
    <2>3. Further(disk[g], disk'[g], g)
      BY <1>1, <1>5, <1>8, <2>1, <2>2 DEF EndWrite
    <2> QED
      BY <1>1, <1>3, <2>1, <2>3
  <1>9. disk' = [f \in Files |-> disk'[f]] /\ \A f \in Files : Further(disk[f], disk'[f], f)
    BY <1>6, <1>7, <1>8
  <1> QED
    BY <1>9 DEF Further, Replace, BeginWrite, EndWrite
\* A list of looks is of file states, wherever a comparison takes it.
LEMMA LooksAreStates ==
  ASSUME NEW s \in Seq(FileState), NEW i \in 1 .. Len(s)
  PROVE  s[i] \in FileState
  OBVIOUS

LEMMA LenIsNat == \A s \in Seq(FileState) : Len(s) \in Nat
  OBVIOUS

LEMMA UpToThree == \A n \in Nat : n <= 3 => n \in 0 .. 3
  OBVIOUS

LEMMA NotBegun == \A n, before \in Nat : (n > 0 => before = 3) /\ before < 3 => n = 0
  OBVIOUS

LEMMA WritersKeep ==
  ASSUME IInv,
         disk' \in [Files -> FileState],
         \A f \in Files : disk'[f].gen <= Rewrites[f] /\ Rank(disk[f]) <= Rank(disk'[f]),
         UNCHANGED <<mu, current, stamps, conn, glitch, reports>>
  PROVE  IInv'
  <1>1. disk \in [Files -> FileState] /\ stamps \in Seq(FileState) /\ Len(stamps) = 3
    BY DEF IInv, Typed
  <1>2. /\ Stamp(disk) \in [1 .. 3 -> FileState] /\ Stamp(disk') \in [1 .. 3 -> FileState]
        /\ stamps \in [1 .. 3 -> FileState]
    BY <1>1, StampType, ThreeStates
  <1>3. NotNewer(Stamp(disk), Stamp(disk'), 3)
    <2>1. \A i \in 1 .. 3 : /\ Stamp(disk)[i] = disk[Order[i]] /\ Stamp(disk')[i] = disk'[Order[i]]
                             /\ Order[i] \in Files
      BY DEF Stamp, Order, Files
    <2> QED
      BY <2>1 DEF NotNewer
  \* What was no newer than the disk is no newer than the disk is now.
  <1>4. ASSUME NEW n \in 0 .. 3, NEW s, \A i \in 1 .. n : s[i] \in FileState,
               NotNewer(s, Stamp(disk), n)
        PROVE  NotNewer(s, Stamp(disk'), n)
    <2>1. NotNewer(Stamp(disk), Stamp(disk'), n)
      BY <1>3 DEF NotNewer
    <2>2. \A i \in 1 .. n : Stamp(disk)[i] \in FileState /\ Stamp(disk')[i] \in FileState
      BY <1>2
    <2> QED
      BY <1>4, <2>1, <2>2, NotNewerTrans
  <1>5. Typed' /\ HoldsMutex' /\ ReportsCovered'
    BY DEF IInv, Typed, HoldsMutex, ReportsCovered
  <1>6. NothingIsAhead'
    <2>1. NotNewer(stamps, Stamp(disk'), 3)
      BY <1>2, <1>4 DEF IInv, NothingIsAhead
    <2>2. /\ current.cert \in FileState /\ current.bundle \in FileState
          /\ Rank(current.cert) <= Rank(disk["cert"])
          /\ Rank(current.bundle) <= Rank(disk["bundle"])
      BY DEF IInv, Typed, NothingIsAhead
    <2>3. \A f \in Files : Rank(disk[f]) \in Int /\ Rank(disk'[f]) \in Int
      BY <1>1, RankIsAnOrder
    <2>4. Rank(current.cert) \in Int /\ Rank(current.bundle) \in Int
      BY <2>2, RankIsAnOrder
    <2>5. Rank(current.cert) <= Rank(disk'["cert"]) /\ Rank(current.bundle) <= Rank(disk'["bundle"])
      BY <2>2, <2>3, <2>4 DEF Files
    <2> QED
      BY <2>1, <2>5 DEF NothingIsAhead
  <1>7. LooksInOrder'
    <2> SUFFICES ASSUME NEW p \in Procs, conn[p] # Idle PROVE InOrder(conn[p])'
      BY DEF LooksInOrder
    <2> DEFINE c == conn[p]
    <2>1. InOrder(c) /\ c \in Conn
      BY DEF IInv, LooksInOrder, Typed
    <2>2. /\ c.began \in [Files -> FileState]
          /\ c.seen \in Seq(FileState) /\ c.again \in Seq(FileState) /\ c.read \in Seq(FileState)
      BY <2>1, LookingConn
    <2> HIDE DEF c
    <2>a. Len(c.seen) <= 3 /\ Len(c.again) <= 3 /\ Len(c.read) <= 2
      BY <2>1 DEF InOrder
    <2>3. Len(c.seen) \in 0 .. 3 /\ Len(c.again) \in 0 .. 3 /\ Len(c.read) \in 0 .. 3
      <3>1. Len(c.seen) \in Nat /\ Len(c.again) \in Nat /\ Len(c.read) \in Nat
        BY <2>2, LenIsNat
      <3>2. Len(c.read) <= 3
        BY <2>a, <3>1
      <3> QED
        BY <2>a, <3>1, <3>2, UpToThree, Zenon
    <2>4. NotNewer(Stamp(c.began), Stamp(disk'), 3)
      BY <1>4, <2>1, <2>2, StampType DEF InOrder
    <2>5. /\ NotNewer(c.seen, Stamp(disk'), Len(c.seen))
          /\ NotNewer(c.again, Stamp(disk'), Len(c.again))
          /\ NotNewer(c.read, Stamp(disk'), Len(c.read))
      BY <1>4, <2>1, <2>2, <2>3, LooksAreStates DEF InOrder
    <2>6. InOrder(c)'
      BY <2>1, <2>4, <2>5 DEF InOrder, c
    <2> QED
      BY <2>6 DEF c
  \* Stamps that match the disk now matched it before: nothing was written.
  <1>8. StampsMeanLoaded'
    <2> SUFFICES ASSUME ~glitch, Settled(disk'), stamps = Stamp(disk')
                 PROVE  current = Material(Stamp(disk'))
      BY DEF StampsMeanLoaded
    <2>1. NotNewer(stamps, Stamp(disk), 3) /\ NotNewer(Stamp(disk), stamps, 3)
      BY <1>3 DEF IInv, NothingIsAhead
    <2>2. stamps = Stamp(disk)
      BY <1>2, <2>1, NotNewerAntisym
    <2>3. disk = disk'
      BY <1>1, <2>2, StampDetermines
    <2> QED
      BY <2>2, <2>3 DEF IInv, StampsMeanLoaded
  <1> QED
    BY <1>5, <1>6, <1>7, <1>8 DEF IInv

\* A handshake that is over leaves none: it held the mutex.
LEMMA LeaveKeeps ==
  ASSUME IInv, NEW p \in Procs, conn[p] # Idle, Leave(p), UNCHANGED disk,
         current' \in [cert : FileState, bundle : FileState],
         stamps' \in Seq(FileState), Len(stamps') = 3,
         glitch' \in BOOLEAN, reports' \in Nat,
         NothingIsAhead', StampsMeanLoaded', ReportsCovered'
  PROVE  IInv'
  <1>1. mu = p /\ \A q \in Procs : conn[q] # Idle => q = p
    BY DEF IInv, HoldsMutex
  <1>2. conn \in [Procs -> Conn] /\ Idle \in Conn
    BY DEF IInv, Typed, Conn
  <1>3. conn' \in [Procs -> Conn] /\ \A q \in Procs : conn'[q] = Idle
    BY <1>1, <1>2 DEF Leave
  <1>4. Typed'
    BY <1>3 DEF IInv, Typed, Leave
  <1>5. HoldsMutex' /\ LooksInOrder'
    BY <1>3 DEF HoldsMutex, LooksInOrder
  <1> QED
    BY <1>4, <1>5 DEF IInv

\* One handshake at a time: what it has seen is all there is to keep in order.
LEMMA GoingOnKeeps ==
  ASSUME IInv, NEW p \in Procs, NEW c \in Conn, c # Idle, InOrder(c),
         conn' = [conn EXCEPT ![p] = c],
         mu' = p, \A q \in Procs : conn[q] # Idle => q = p,
         UNCHANGED <<disk, current, stamps, glitch, reports>>
  PROVE  IInv'
  <1>1. conn \in [Procs -> Conn]
    BY DEF IInv, Typed
  <1>2. conn' \in [Procs -> Conn] /\ conn'[p] = c /\ \A q \in Procs : q # p => conn'[q] = Idle
    BY <1>1
  <1>3. Typed' /\ NothingIsAhead' /\ StampsMeanLoaded' /\ ReportsCovered'
    BY <1>2 DEF IInv, Typed, NothingIsAhead, StampsMeanLoaded, ReportsCovered
  <1>4. HoldsMutex'
    BY <1>2 DEF HoldsMutex
  <1>5. InOrder(c)'
    BY DEF InOrder
  <1>6. LooksInOrder'
    BY <1>2, <1>5 DEF LooksInOrder, InOrder
  <1> QED
    BY <1>3, <1>4, <1>6 DEF IInv
-----------------------------------------------------------------------------
\* What every step of a handshake under way finds.
LEMMA UnderWay ==
  ASSUME IInv, NEW p \in Procs, conn[p].at = "looking"
  PROVE  /\ conn[p] # Idle /\ mu = p /\ \A q \in Procs : conn[q] # Idle => q = p
         /\ InOrder(conn[p]) /\ conn[p] \in Conn
         /\ conn[p] = Looking(conn[p].began, conn[p].seen, conn[p].again, conn[p].read)
         /\ conn[p].began \in [Files -> FileState]
         /\ conn[p].seen \in Seq(FileState) /\ conn[p].again \in Seq(FileState)
         /\ conn[p].read \in Seq(FileState)
         /\ disk \in [Files -> FileState] /\ conn \in [Procs -> Conn]
         /\ stamps \in Seq(FileState) /\ Len(stamps) = 3
         /\ stamps \in [1 .. 3 -> FileState]
  <1>1. conn[p] # Idle
    BY DEF Idle
  <1>2. conn[p] \in Conn /\ conn \in [Procs -> Conn] /\ disk \in [Files -> FileState]
        /\ stamps \in Seq(FileState) /\ Len(stamps) = 3
    BY DEF IInv, Typed
  <1>3. InOrder(conn[p]) /\ mu = p /\ \A q \in Procs : conn[q] # Idle => q = p
    BY <1>1 DEF IInv, LooksInOrder, HoldsMutex
  <1> QED
    BY <1>1, <1>2, <1>3, LookingConn, ThreeStates

LEMMA EnterKeeps ==
  ASSUME IInv, NEW p \in Procs, Enter(p)
  PROVE  IInv'
  <1> DEFINE c == Looking(disk, <<>>, <<>>, <<>>)
  <1>1. \A q \in Procs : conn[q] = Idle
    BY SourceAssumption DEF IInv, HoldsMutex, Enter
  <1>2. disk \in [Files -> FileState] /\ <<>> \in Seq(FileState)
    BY DEF IInv, Typed
  <1>3. c \in Conn /\ c # Idle
    BY <1>2, LookingIsConn
  <1>4. c.began = disk /\ c.seen = <<>> /\ c.again = <<>> /\ c.read = <<>>
    BY DEF Looking
  <1> HIDE DEF c
  <1>5. InOrder(c)
    <2>1. \A a, b : NotNewer(a, b, 0)
      BY DEF NotNewer
    <2>2. NotNewer(Stamp(disk), Stamp(disk), 3)
      <3>1. \A i \in 1 .. 3 : Stamp(disk)[i] \in FileState
        BY <1>2, StampType
      <3>2. \A i \in 1 .. 3 : Rank(Stamp(disk)[i]) \in Int
        BY <3>1, RankIsAnOrder
      <3> QED
        BY <3>2 DEF NotNewer
    <2>3. NothingIsAhead
      BY DEF IInv
    <2>4. Len(<<>>) = 0
      OBVIOUS
    <2> QED
      BY <1>4, <2>1, <2>2, <2>3, <2>4 DEF InOrder, NothingIsAhead
  <1>6. conn' = [conn EXCEPT ![p] = c] /\ mu' = p /\ UNCHANGED <<disk, current, stamps, glitch, reports>>
    BY DEF Enter, c
  <1> QED
    BY <1>1, <1>3, <1>5, <1>6, GoingOnKeeps

LEMMA StatKeeps ==
  ASSUME IInv, NEW p \in Procs, Stat(p) \/ StatFails(p)
  PROVE  IInv'
  <1> DEFINE seen == Look(conn[p].seen)
             c == Looking(conn[p].began, seen, conn[p].again, conn[p].read)
  <1>1. conn[p].at = "looking" /\ Len(conn[p].seen) < 3
    BY DEF Stat, StatFails, Statting
  <1>2. CASE Leave(p) /\ UNCHANGED <<disk, current, stamps, glitch, reports>>
    <2>1. Typed
      BY DEF IInv
    <2>2. NothingIsAhead' /\ StampsMeanLoaded' /\ ReportsCovered'
      BY <1>2 DEF IInv, NothingIsAhead, StampsMeanLoaded, ReportsCovered
    <2> QED
      BY <1>1, <1>2, <2>1, <2>2, UnderWay, LeaveKeeps DEF Typed
  <1>3. CASE /\ seen # stamps
             /\ conn' = [conn EXCEPT ![p].seen = seen]
             /\ UNCHANGED <<disk, mu, current, stamps, glitch, reports>>
    <2>1. /\ seen \in Seq(FileState) /\ Len(seen) = Len(conn[p].seen) + 1
          /\ NotNewer(Stamp(conn[p].began), seen, Len(seen))
          /\ NotNewer(seen, Stamp(disk), Len(seen))
      BY <1>1, UnderWay, LookAdds, LookIsNotOlder DEF InOrder
    <2> HIDE DEF seen
    <2>2. c \in Conn /\ c # Idle
      BY <1>1, <2>1, UnderWay, LookingIsConn
    <2>3. c.began = conn[p].began /\ c.seen = seen /\ c.again = conn[p].again /\ c.read = conn[p].read
      BY DEF Looking
    <2>4. conn' = [conn EXCEPT ![p] = c]
      <3>1. [conn[p] EXCEPT !.seen = seen] = c
        <4>1. conn[p] = Looking(conn[p].began, conn[p].seen, conn[p].again, conn[p].read)
          BY <1>1, UnderWay
        <4>2. [Looking(conn[p].began, conn[p].seen, conn[p].again, conn[p].read) EXCEPT !.seen = seen] = c
          BY LookingExcept
        <4> QED
          BY <4>1, <4>2
      <3> QED
        BY <1>1, <1>3, <3>1, UnderWay
    <2>5. Len(conn[p].again) = 0 /\ Len(conn[p].read) = 0 /\ Len(seen) <= 3
      <3>1. /\ Len(conn[p].again) \in Nat /\ Len(conn[p].read) \in Nat
            /\ Len(conn[p].seen) \in Nat /\ Len(conn[p].again) <= 3
            /\ Len(conn[p].again) > 0 => Len(conn[p].seen) = 3
            /\ Len(conn[p].read) > 0 => Len(conn[p].again) = 3
        BY <1>1, UnderWay, LenIsNat DEF InOrder
      <3>2. Len(conn[p].again) = 0
        BY <1>1, <3>1, NotBegun, Zenon
      <3>3. Len(conn[p].again) < 3
        BY <3>2
      <3>4. Len(conn[p].read) = 0
        BY <3>1, <3>3, NotBegun, Zenon
      <3>5. Len(seen) <= 3
        BY <1>1, <2>1, <3>1
      <3> QED
        BY <3>2, <3>4, <3>5
    <2> HIDE DEF c
    <2>6. InOrder(c)
      <3>1. NotNewer(seen, conn[p].again, 0)
        BY DEF NotNewer
      <3> QED
        BY <1>1, <1>3, <2>1, <2>3, <2>5, <3>1, UnderWay DEF InOrder
    <2> QED
      BY <1>1, <1>3, <2>2, <2>4, <2>6, UnderWay, GoingOnKeeps
  <1> QED
    BY <1>1, <1>2, <1>3 DEF Stat, StatFails

LEMMA RestatKeeps ==
  ASSUME IInv, NEW p \in Procs, Restat(p)
  PROVE  IInv'
  <1> DEFINE again == Look(conn[p].again)
             c == Looking(conn[p].began, conn[p].seen, again, conn[p].read)
  <1>1. conn[p].at = "looking" /\ Len(conn[p].seen) = 3 /\ Len(conn[p].again) < 3
    BY DEF Restat, Restatting
  <1>2. /\ again \in Seq(FileState) /\ Len(again) = Len(conn[p].again) + 1
        /\ NotNewer(conn[p].seen, again, Len(again))
        /\ NotNewer(again, Stamp(disk), Len(again))
    <2>1. /\ disk \in [Files -> FileState] /\ conn[p].again \in Seq(FileState)
          /\ Len(conn[p].again) < 3 /\ Len(conn[p].seen) = 3
          /\ InOrder(conn[p])
      BY <1>1, UnderWay
    <2>2. /\ NotNewer(conn[p].seen, Stamp(disk), 3)
          /\ NotNewer(conn[p].seen, conn[p].again, Len(conn[p].again))
          /\ NotNewer(conn[p].again, Stamp(disk), Len(conn[p].again))
      BY <2>1 DEF InOrder
    <2>3. /\ again \in Seq(FileState) /\ Len(again) = Len(conn[p].again) + 1
          /\ NotNewer(again, Stamp(disk), Len(again))
      BY <2>1, <2>2, LookAdds
    <2>4. NotNewer(conn[p].seen, again, Len(again))
      BY <2>1, <2>2, LookIsNotOlder
    <2> QED
      BY <2>3, <2>4
  <1>3. conn' = [conn EXCEPT ![p].again = again] /\ UNCHANGED <<disk, mu, current, stamps, glitch, reports>>
    BY DEF Restat
  <1> HIDE DEF again
  <1>4. c \in Conn /\ c # Idle
    BY <1>1, <1>2, UnderWay, LookingIsConn
  <1>5. c.began = conn[p].began /\ c.seen = conn[p].seen /\ c.again = again /\ c.read = conn[p].read
    BY DEF Looking
  <1>6. conn' = [conn EXCEPT ![p] = c]
    <2>1. [conn[p] EXCEPT !.again = again] = c
      <3>1. conn[p] = Looking(conn[p].began, conn[p].seen, conn[p].again, conn[p].read)
        BY <1>1, UnderWay
      <3>2. [Looking(conn[p].began, conn[p].seen, conn[p].again, conn[p].read) EXCEPT !.again = again] = c
        BY DEF Looking
      <3> QED
        BY <3>1, <3>2
    <2> QED
      BY <1>1, <1>3, <2>1, UnderWay
  <1>7. Len(conn[p].read) = 0 /\ Len(again) <= 3
    <2>1. /\ Len(conn[p].again) \in Nat /\ Len(conn[p].read) \in Nat
          /\ Len(conn[p].read) > 0 => Len(conn[p].again) = 3
      BY <1>1, UnderWay, LenIsNat DEF InOrder
    <2>2. Len(conn[p].read) = 0
      BY <1>1, <2>1, NotBegun, Zenon
    <2>3. Len(again) <= 3
      BY <1>1, <1>2, <2>1
    <2> QED
      BY <2>2, <2>3
  <1> HIDE DEF c
  <1>8. InOrder(c)
    <2>1. NotNewer(again, c.read, Len(c.read))
      BY <1>5, <1>7 DEF NotNewer
    <2>2. InOrder(conn[p])
      BY <1>1, UnderWay
    <2>3. /\ NotNewer(c.seen, c.again, Len(c.again))
          /\ NotNewer(c.again, Stamp(disk), Len(c.again))
      BY <1>2, <1>5
    <2>4. Len(c.seen) = 3 /\ Len(c.again) <= 3 /\ Len(c.read) = 0
      BY <1>1, <1>5, <1>7
    <2>5. ~(Len(c.read) > 0) /\ Len(c.read) <= 2 /\ Len(c.seen) <= 3
      BY <2>4
    <2> QED
      BY <1>5, <2>1, <2>2, <2>3, <2>4, <2>5 DEF InOrder
  <1> QED
    BY <1>1, <1>3, <1>4, <1>6, <1>8, UnderWay, GoingOnKeeps
-----------------------------------------------------------------------------
\* Looks that are no older have come no less far, and other looks further.
LEMMA ReachedGrows ==
  ASSUME NEW a \in [1 .. 3 -> FileState], NEW b \in [1 .. 3 -> FileState], NotNewer(a, b, 3)
  PROVE  /\ Reached(a) \in Int /\ Reached(b) \in Int
         /\ Reached(a) <= Reached(b)
         /\ a # b => Reached(a) + 1 <= Reached(b)
  <1>1. ASSUME NEW i \in 1 .. 3
        PROVE  /\ Rank(a[i]) \in Int /\ Rank(b[i]) \in Int /\ Rank(a[i]) <= Rank(b[i])
               /\ Rank(a[i]) = Rank(b[i]) => a[i] = b[i]
    BY RankIsAnOrder DEF NotNewer
  <1>2. 1 \in 1 .. 3 /\ 2 \in 1 .. 3 /\ 3 \in 1 .. 3
    OBVIOUS
  <1> DEFINE a1 == Rank(a[1])  a2 == Rank(a[2])  a3 == Rank(a[3])
             b1 == Rank(b[1])  b2 == Rank(b[2])  b3 == Rank(b[3])
  <1>3. /\ a1 \in Int /\ a2 \in Int /\ a3 \in Int /\ b1 \in Int /\ b2 \in Int /\ b3 \in Int
        /\ a1 <= b1 /\ a2 <= b2 /\ a3 <= b3
        /\ a1 = b1 => a[1] = b[1]
        /\ a2 = b2 => a[2] = b[2]
        /\ a3 = b3 => a[3] = b[3]
    BY <1>1, <1>2
  <1>4. Reached(a) = a1 + a2 + a3 /\ Reached(b) = b1 + b2 + b3
    BY DEF Reached
  <1> HIDE DEF a1, a2, a3, b1, b2, b3
  <1>5. Reached(a) \in Int /\ Reached(b) \in Int /\ Reached(a) <= Reached(b)
    BY <1>3, <1>4
  <1>6. ASSUME Reached(b) <= Reached(a) PROVE a = b
    <2>1. a1 = b1 /\ a2 = b2 /\ a3 = b3
      BY <1>3, <1>4, <1>6
    <2>2. a[1] = b[1] /\ a[2] = b[2] /\ a[3] = b[3]
      BY <1>3, <2>1
    <2> QED
      BY <2>2
  <1>7. a # b => Reached(a) + 1 <= Reached(b)
    BY <1>5, <1>6
  <1> QED
    BY <1>5, <1>7

\* The looks of a load: all three stats are in, they differ from what is recorded,
\* and what is recorded is the older.
LEMMA LoadIsUnderWay ==
  ASSUME IInv, NEW p \in Procs, Restatting(p) \/ Reading(p)
  PROVE  /\ conn[p].at = "looking"
         /\ Len(conn[p].seen) = 3
         /\ conn[p].seen \in [1 .. 3 -> FileState]
         /\ conn[p].seen # stamps
         /\ NotNewer(stamps, conn[p].seen, 3)
         /\ NotNewer(conn[p].seen, Stamp(disk), 3)
  <1>1. conn[p].at = "looking"
    BY DEF Restatting, Reading
  <1>2. InOrder(conn[p])
    BY <1>1, UnderWay
  <1>3. Len(conn[p].seen) = 3
    <2>1. CASE Reading(p)
      <3>1. Len(conn[p].again) = 3 /\ (Len(conn[p].again) > 0 => Len(conn[p].seen) = 3)
        BY <1>2, <2>1 DEF Reading, InOrder
      <3>2. \A n : n = 3 => n > 0
        OBVIOUS
      <3> QED
        BY <3>1, <3>2
    <2> QED
      BY <2>1 DEF Restatting
  <1>4. /\ conn[p].seen \in [1 .. 3 -> FileState]
        /\ stamps \in [1 .. 3 -> FileState]
        /\ Stamp(conn[p].began) \in [1 .. 3 -> FileState]
    BY <1>1, <1>3, UnderWay, ThreeStates, StampType
  <1>5. NotNewer(stamps, Stamp(conn[p].began), 3) /\ NotNewer(Stamp(conn[p].began), conn[p].seen, 3)
    BY <1>2, <1>3 DEF InOrder
  <1>6. NotNewer(stamps, conn[p].seen, 3)
    BY <1>4, <1>5, NotNewerTrans
  <1>7. conn[p].seen # stamps /\ NotNewer(conn[p].seen, Stamp(disk), 3)
    BY <1>2, <1>3 DEF InOrder
  <1> QED
    BY <1>1, <1>3, <1>4, <1>6, <1>7

\* A load that fails, by accident or because the files do not belong together.
LEMMA FailureKeeps ==
  ASSUME IInv, NEW p \in Procs, Restatting(p) \/ Reading(p),
         NEW byAccident \in BOOLEAN, LoadFails(p, byAccident),
         ~byAccident => ~(Settled(disk) /\ conn[p].seen = Stamp(disk))
  PROVE  IInv'
  <1>1. /\ conn[p].at = "looking" /\ Len(conn[p].seen) = 3
        /\ conn[p].seen \in [1 .. 3 -> FileState] /\ conn[p].seen # stamps
        /\ NotNewer(stamps, conn[p].seen, 3) /\ NotNewer(conn[p].seen, Stamp(disk), 3)
    BY LoadIsUnderWay
  <1>2. /\ stamps' = conn[p].seen /\ glitch' = byAccident /\ current' = current
        /\ reports' = reports + 1 /\ disk' = disk /\ Leave(p)
    BY DEF LoadFails, StampsOnFailure, LastKnownGood
  <1>3. /\ conn[p] # Idle /\ conn[p].seen \in Seq(FileState)
        /\ stamps \in [1 .. 3 -> FileState]
    BY <1>1, UnderWay
  <1>4. current \in [cert : FileState, bundle : FileState] /\ reports \in Nat
    BY DEF IInv, Typed
  <1>5. NothingIsAhead'
    BY <1>1, <1>2 DEF IInv, NothingIsAhead
  <1>6. StampsMeanLoaded'
    BY <1>2 DEF StampsMeanLoaded
  <1>7. ReportsCovered'
    <2>1. Reached(stamps) \in Int /\ Reached(stamps') \in Int /\ Reached(stamps) + 1 <= Reached(stamps')
      BY <1>1, <1>2, <1>3, ReachedGrows
    <2>2. reports <= Reached(stamps)
      BY DEF IInv, ReportsCovered
    <2> QED
      BY <1>2, <1>4, <2>1, <2>2 DEF ReportsCovered
  <1>8. Len(stamps') = 3 /\ stamps' \in Seq(FileState) /\ reports' \in Nat
    BY <1>1, <1>2, <1>3, <1>4
  <1>9. current' \in [cert : FileState, bundle : FileState] /\ glitch' \in BOOLEAN
    BY <1>2, <1>4
  <1> QED
    BY <1>2, <1>3, <1>5, <1>6, <1>7, <1>8, <1>9, LeaveKeeps

\* What load reads comes after what it statted, so files that did not change since
\* the stats are read as they are.
LEMMA ReadsFollowStats ==
  ASSUME IInv, NEW p \in Procs, Reading(p)
  PROVE  LET read == Look(conn[p].read)
         IN  /\ read \in Seq(FileState) /\ Len(read) = Len(conn[p].read) + 1 /\ Len(read) <= 3
             /\ conn[p].again \in [1 .. 3 -> FileState]
             /\ NotNewer(stamps, conn[p].again, 3)
             /\ NotNewer(conn[p].seen, conn[p].again, 3)
             /\ NotNewer(conn[p].again, Stamp(disk), 3)
             /\ NotNewer(conn[p].again, read, Len(read))
             /\ NotNewer(read, Stamp(disk), Len(read))
             /\ \A i \in 1 .. Len(read) : read[i] \in FileState
  <1> DEFINE read == Look(conn[p].read)
  <1>1. /\ conn[p].at = "looking" /\ Len(conn[p].again) = 3
    BY DEF Reading
  <1>2. /\ conn[p].again \in Seq(FileState) /\ conn[p].read \in Seq(FileState)
        /\ disk \in [Files -> FileState] /\ stamps \in [1 .. 3 -> FileState]
        /\ InOrder(conn[p])
    BY <1>1, UnderWay
  <1>3. Len(conn[p].read) <= 2 /\ NotNewer(conn[p].again, Stamp(disk), 3)
        /\ NotNewer(conn[p].seen, conn[p].again, 3)
        /\ NotNewer(conn[p].again, conn[p].read, Len(conn[p].read))
        /\ NotNewer(conn[p].read, Stamp(disk), Len(conn[p].read))
    BY <1>1, <1>2 DEF InOrder
  <1>4. Len(conn[p].read) < 3
    <2>1. \A n \in Nat : n <= 2 => n < 3
      OBVIOUS
    <2> QED
      BY <1>2, <1>3, <2>1, LenIsNat, Zenon
  <1>5. /\ read \in Seq(FileState) /\ Len(read) = Len(conn[p].read) + 1
        /\ NotNewer(read, Stamp(disk), Len(read))
    BY <1>2, <1>3, <1>4, LookAdds
  <1>6. NotNewer(conn[p].again, read, Len(read))
    BY <1>2, <1>3, <1>4, LookIsNotOlder
  <1>7. conn[p].again \in [1 .. 3 -> FileState]
    BY <1>1, <1>2, ThreeStates
  <1>8. NotNewer(stamps, conn[p].again, 3)
    <2>1. NotNewer(stamps, conn[p].seen, 3) /\ conn[p].seen \in [1 .. 3 -> FileState]
      BY LoadIsUnderWay
    <2> QED
      BY <1>2, <1>3, <1>7, <2>1, NotNewerTrans
  <1> HIDE DEF read
  <1>9. Len(read) <= 3
    BY <1>3, <1>5
  <1>10. \A i \in 1 .. Len(read) : read[i] \in FileState
    BY <1>5, LooksAreStates
  <1> QED
    BY <1>3, <1>5, <1>6, <1>7, <1>8, <1>9, <1>10 DEF read
\* Three reads between two equal looks at settled files give those files.
LEMMA QuietReads ==
  ASSUME IInv, NEW p \in Procs, Reading(p), conn[p].again = Stamp(disk)
  PROVE  LET read == Look(conn[p].read)
         IN  /\ Settled(disk) => ~Refused(read)
             /\ Len(read) = 3 => Material(read) = Material(Stamp(disk))
  <1> DEFINE read == Look(conn[p].read)
             now == Stamp(disk)
  <1>1. /\ read \in Seq(FileState) /\ now \in [1 .. 3 -> FileState]
        /\ NotNewer(now, read, Len(read)) /\ NotNewer(read, now, Len(read))
        /\ \A i \in 1 .. Len(read) : read[i] \in FileState
        /\ Len(read) \in Nat /\ Len(read) <= 3
    BY ReadsFollowStats, LenIsNat
  <1>2. now[1] = disk["cert"] /\ now[2] = disk["key"] /\ now[3] = disk["bundle"]
    BY StampType DEF IInv, Typed
  <1> HIDE DEF read, now
  <1>3. ASSUME NEW i \in 1 .. Len(read) PROVE read[i] = now[i]
    <2>1. i \in 1 .. 3
      BY <1>1
    <2>2. read[i] \in FileState /\ now[i] \in FileState
      BY <1>1, <2>1
    <2>3. Rank(read[i]) \in Int /\ Rank(now[i]) \in Int /\ (Rank(read[i]) = Rank(now[i]) => read[i] = now[i])
      BY <2>2, RankIsAnOrder
    <2>4. Rank(read[i]) <= Rank(now[i]) /\ Rank(now[i]) <= Rank(read[i])
      BY <1>1 DEF NotNewer
    <2> QED
      BY <2>3, <2>4
  <1>4. ASSUME Len(read) = 3 PROVE read[1] = now[1] /\ read[3] = now[3]
    BY <1>3, <1>4
  <1>5. ASSUME Settled(disk) PROVE ~Refused(read)
    <2>1. /\ now[1].whole /\ now[2].whole /\ now[3].whole /\ now[1].gen = now[2].gen
      BY <1>2, <1>5 DEF Settled, Files
    <2>2. Len(read) = 2 => read[1] = now[1] /\ read[2] = now[2]
      BY <1>3
    <2> QED
      BY <1>4, <2>1, <2>2 DEF Refused
  <1>6. Len(read) = 3 => Material(read) = Material(now)
    BY <1>4 DEF Material
  <1> QED
    BY <1>5, <1>6 DEF read, now

LEMMA ReadKeeps ==
  ASSUME IInv, NEW p \in Procs, Read(p)
  PROVE  IInv'
  <1> DEFINE read == Look(conn[p].read)
             c == Looking(conn[p].began, conn[p].seen, conn[p].again, read)
  <1>1. Reading(p) /\ conn[p].at = "looking" /\ Len(conn[p].again) = 3
    BY DEF Read, Reading
  <1>2. /\ read \in Seq(FileState) /\ Len(read) = Len(conn[p].read) + 1
        /\ conn[p].again \in [1 .. 3 -> FileState]
        /\ NotNewer(stamps, conn[p].again, 3) /\ NotNewer(conn[p].again, Stamp(disk), 3)
        /\ NotNewer(conn[p].seen, conn[p].again, 3)
        /\ NotNewer(conn[p].again, read, Len(read)) /\ NotNewer(read, Stamp(disk), Len(read))
        /\ \A i \in 1 .. Len(read) : read[i] \in FileState
    BY <1>1, ReadsFollowStats
  <1>3. /\ Settled(disk) /\ conn[p].again = Stamp(disk) => ~Refused(read)
        /\ conn[p].again = Stamp(disk) /\ Len(read) = 3 => Material(read) = Material(Stamp(disk))
    BY <1>1, QuietReads
  <1>4. \/ Refused(read) /\ LoadFails(p, FALSE)
        \/ /\ Len(read) < 3
           /\ conn' = [conn EXCEPT ![p].read = read]
           /\ UNCHANGED <<disk, mu, current, stamps, glitch, reports>>
        \/ /\ Len(read) = 3
           /\ current' = Material(read) /\ stamps' = conn[p].again /\ glitch' = FALSE
           /\ Leave(p)
           /\ UNCHANGED <<disk, reports>>
    BY DEF Read, StampsOnSuccess
  <1> HIDE DEF read
  <1>5. CASE Refused(read) /\ LoadFails(p, FALSE)
    <2>1. ASSUME conn[p].seen = Stamp(disk) PROVE conn[p].again = Stamp(disk)
      <3>1. NotNewer(Stamp(disk), conn[p].again, 3)
        BY <1>2, <2>1
      <3>2. Stamp(disk) \in [1 .. 3 -> FileState]
        BY StampType DEF IInv, Typed
      <3> QED
        BY <1>2, <3>1, <3>2, NotNewerAntisym
    <2> QED
      BY <1>1, <1>3, <1>5, <2>1, FailureKeeps
  <1>6. CASE /\ Len(read) < 3
             /\ conn' = [conn EXCEPT ![p].read = read]
             /\ UNCHANGED <<disk, mu, current, stamps, glitch, reports>>
    <2>1. c \in Conn /\ c # Idle
      BY <1>1, <1>2, UnderWay, LookingIsConn
    <2>2. c.began = conn[p].began /\ c.seen = conn[p].seen /\ c.again = conn[p].again /\ c.read = read
      BY DEF Looking
    <2>3. conn' = [conn EXCEPT ![p] = c]
      <3>1. conn[p] = Looking(conn[p].began, conn[p].seen, conn[p].again, conn[p].read)
            /\ conn \in [Procs -> Conn]
        BY <1>1, UnderWay
      <3>2. [Looking(conn[p].began, conn[p].seen, conn[p].again, conn[p].read) EXCEPT !.read = read] = c
        BY DEF Looking
      <3> QED
        BY <1>6, <3>1, <3>2
    <2> HIDE DEF c
    <2>4. InOrder(c)
      <3>1. InOrder(conn[p])
        BY <1>1, UnderWay
      <3>2. Len(read) <= 2
        <4>1. \A n \in Nat : n < 3 => n <= 2
          OBVIOUS
        <4> QED
          BY <1>2, <1>6, <4>1, LenIsNat, Zenon
      <3>3. Len(c.read) > 0 => Len(c.again) = 3
        BY <1>1, <2>2
      <3> QED
        BY <1>2, <2>2, <3>1, <3>2, <3>3 DEF InOrder
    <2> QED
      BY <1>1, <1>6, <2>1, <2>3, <2>4, UnderWay, GoingOnKeeps
  <1>7. CASE /\ Len(read) = 3
             /\ current' = Material(read) /\ stamps' = conn[p].again /\ glitch' = FALSE
             /\ Leave(p)
             /\ UNCHANGED <<disk, reports>>
    <2>1. read[1] \in FileState /\ read[3] \in FileState
      BY <1>2, <1>7
    <2>2. current' \in [cert : FileState, bundle : FileState]
          /\ current'.cert = read[1] /\ current'.bundle = read[3]
      BY <1>7, <2>1 DEF Material
    <2>3. NothingIsAhead'
      <3>1. Rank(read[1]) <= Rank(Stamp(disk)[1]) /\ Rank(read[3]) <= Rank(Stamp(disk)[3])
        BY <1>2, <1>7 DEF NotNewer
      <3>2. Stamp(disk)[1] = disk["cert"] /\ Stamp(disk)[3] = disk["bundle"]
        BY StampType DEF IInv, Typed
      <3>3. Rank(current'.cert) <= Rank(disk'["cert"]) /\ Rank(current'.bundle) <= Rank(disk'["bundle"])
        BY <1>7, <2>2, <3>1, <3>2
      <3>4. NotNewer(stamps', Stamp(disk'), 3)
        BY <1>2, <1>7
      <3> QED
        BY <3>3, <3>4 DEF NothingIsAhead
    <2>4. StampsMeanLoaded'
      BY <1>3, <1>7 DEF StampsMeanLoaded
    <2>5. ReportsCovered'
      <3>1. stamps \in [1 .. 3 -> FileState]
        BY <1>1, UnderWay
      <3>2. /\ Reached(stamps) \in Int /\ Reached(stamps') \in Int /\ Reached(stamps) <= Reached(stamps')
        BY <1>2, <1>7, <3>1, ReachedGrows
      <3>3. reports' \in Nat /\ reports' <= Reached(stamps)
        BY <1>7 DEF IInv, Typed, ReportsCovered
      <3> QED
        BY <3>2, <3>3 DEF ReportsCovered
    <2>6. conn[p] # Idle /\ conn[p].again \in Seq(FileState) /\ reports' \in Nat
      BY <1>1, <1>7, UnderWay DEF IInv, Typed
    <2>7. stamps' \in Seq(FileState) /\ Len(stamps') = 3
      BY <1>1, <1>7, <2>6
    <2> QED
      BY <1>7, <2>2, <2>3, <2>4, <2>5, <2>6, <2>7, LeaveKeeps
  <1> QED
    BY <1>4, <1>5, <1>6, <1>7

LEMMA NextKeeps == IInv /\ [Next]_vars => IInv'
  <1> SUFFICES ASSUME IInv, [Next]_vars PROVE IInv'
    OBVIOUS
  <1>1. CASE \/ \E fs \in (SUBSET Files) \ {{}} : Replace(fs)
             \/ \E f \in Files : BeginWrite(f) \/ EndWrite(f)
    BY <1>1, WritersGoForward, WritersKeep
  <1>2. ASSUME NEW p \in Procs, Handshake(p) PROVE IInv'
    <2>1. CASE Enter(p)
      BY <2>1, EnterKeeps
    <2>2. CASE Stat(p) \/ StatFails(p)
      BY <2>2, StatKeeps
    <2>3. CASE Restat(p)
      BY <2>3, RestatKeeps
    <2>4. CASE LoadGlitches(p)
      BY <2>4, FailureKeeps DEF LoadGlitches
    <2>5. CASE Read(p)
      BY <2>5, ReadKeeps
    <2> QED
      BY <1>2, <2>1, <2>2, <2>3, <2>4, <2>5 DEF Handshake
  <1>3. CASE UNCHANGED vars
    BY <1>3 DEF vars, IInv, Typed, HoldsMutex, NothingIsAhead, LooksInOrder, InOrder,
                StampsMeanLoaded, ReportsCovered
  <1> QED
    BY <1>1, <1>2, <1>3 DEF Next
-----------------------------------------------------------------------------
\* The order of the looks, and what it says of the stamps, holds throughout.
THEOREM Invariance == Spec => []IInv
  BY InitEstablishes, NextKeeps, PTL DEF Spec

\* Every variable keeps its type, and no list of looks grows past three.
THEOREM TypeCorrect == Spec => []TypeOK
  BY Invariance, IInvIsTyped, PTL

\* A state of the files that does not load is reported once, for any number of
\* handshakes and rewrites: a report needs a file that changed since the last.
THEOREM ReportedOnce == Spec => []ReportedOncePerChange
  <1>1. IInv => ReportedOncePerChange
    <2> SUFFICES ASSUME IInv PROVE ReportedOncePerChange
      OBVIOUS
    <2>1. disk \in [Files -> FileState] /\ stamps \in [1 .. 3 -> FileState]
          /\ NotNewer(stamps, Stamp(disk), 3) /\ reports \in Nat /\ reports <= Reached(stamps)
      BY ThreeStates DEF IInv, Typed, NothingIsAhead, ReportsCovered
    <2>2. Reached(stamps) \in Int /\ Reached(Stamp(disk)) \in Int
          /\ Reached(stamps) <= Reached(Stamp(disk))
      BY <2>1, StampType, ReachedGrows
    <2>3. Reached(Stamp(disk)) = Rank(disk["cert"]) + Rank(disk["key"]) + Rank(disk["bundle"])
      BY <2>1, StampType DEF Reached
    <2>4. Changes["cert"] = Rank(disk["cert"]) /\ Changes["key"] = Rank(disk["key"])
          /\ Changes["bundle"] = Rank(disk["bundle"])
      BY DEF Changes, Rank, Files
    <2>5. reports <= Reached(Stamp(disk))
      BY <2>1, <2>2
    <2> QED
      BY <2>3, <2>4, <2>5 DEF ReportedOncePerChange
  <1> QED
    BY <1>1, Invariance, PTL

\* What a handshake took the mutex to find comes after all that was found before.
LEMMA ReadsAreLater ==
  ASSUME IInv, NEW p \in Procs, Reading(p)
  PROVE  LET read == Look(conn[p].read)
         IN  Len(read) = 3 =>
               /\ Rank(current.cert) <= Rank(read[1])
               /\ Rank(current.bundle) <= Rank(read[3])
               /\ read[1] \in FileState /\ read[3] \in FileState
  <1> DEFINE read == Look(conn[p].read)
             began == Stamp(conn[p].began)
  <1> SUFFICES ASSUME Len(read) = 3
               PROVE  /\ Rank(current.cert) <= Rank(read[1])
                      /\ Rank(current.bundle) <= Rank(read[3])
                      /\ read[1] \in FileState /\ read[3] \in FileState
    OBVIOUS
  <1>1. conn[p].at = "looking" /\ Len(conn[p].again) = 3
    BY DEF Reading
  <1>2. /\ conn[p].began \in [Files -> FileState] /\ InOrder(conn[p])
        /\ conn[p].seen \in [1 .. 3 -> FileState] /\ Len(conn[p].seen) = 3
    BY <1>1, UnderWay, LoadIsUnderWay
  <1>3. /\ began \in [1 .. 3 -> FileState]
        /\ began[1] = conn[p].began["cert"] /\ began[3] = conn[p].began["bundle"]
    BY <1>2, StampType
  <1>4. NotNewer(began, conn[p].seen, 3)
    BY <1>2 DEF InOrder
  <1>5. /\ conn[p].again \in [1 .. 3 -> FileState] /\ \A i \in 1 .. 3 : read[i] \in FileState
        /\ NotNewer(conn[p].seen, conn[p].again, 3) /\ NotNewer(conn[p].again, read, 3)
    BY ReadsFollowStats
  <1>6. Rank(current.cert) <= Rank(began[1]) /\ Rank(current.bundle) <= Rank(began[3])
    BY <1>2, <1>3 DEF InOrder
  <1> HIDE DEF read, began
  <1>7. NotNewer(began, conn[p].again, 3)
    BY <1>2, <1>3, <1>4, <1>5, NotNewerTrans
  <1>8. NotNewer(began, read, 3)
    BY <1>3, <1>5, <1>7, NotNewerTrans
  <1>9. Rank(began[1]) <= Rank(read[1]) /\ Rank(began[3]) <= Rank(read[3])
    BY <1>8 DEF NotNewer
  <1>10. /\ current.cert \in FileState /\ current.bundle \in FileState
         /\ began[1] \in FileState /\ began[3] \in FileState
         /\ read[1] \in FileState /\ read[3] \in FileState
    BY <1>3, <1>5 DEF IInv, Typed
  <1>11. /\ Rank(current.cert) \in Int /\ Rank(current.bundle) \in Int
         /\ Rank(began[1]) \in Int /\ Rank(began[3]) \in Int
         /\ Rank(read[1]) \in Int /\ Rank(read[3]) \in Int
    BY <1>10, RankIsAnOrder
  <1> QED
    BY <1>6, <1>9, <1>10, <1>11

\* A CA that was de-trusted is not trusted again and a replaced certificate is not
\* served again, however many handshakes run: no load puts back an older state.
THEOREM NeverGoesBack == Spec => NeverBackward
  <1>1. ASSUME IInv, [Next]_vars
        PROVE  [/\ current'.cert.gen >= current.cert.gen
                /\ current'.bundle.gen >= current.bundle.gen]_vars
    <2>1. current \in [cert : FileState, bundle : FileState]
      BY <1>1 DEF IInv, Typed
    <2>2. CASE current' = current
      <3>1. current.cert.gen \in Nat /\ current.bundle.gen \in Nat
        BY <2>1 DEF FileState
      <3> QED
        BY <2>2, <3>1
    <2>3. ASSUME NEW p \in Procs, Read(p), current' # current
          PROVE  current'.cert.gen >= current.cert.gen /\ current'.bundle.gen >= current.bundle.gen
      <3> DEFINE read == Look(conn[p].read)
      <3>1. Reading(p) /\ Len(read) = 3 /\ current' = Material(read)
        BY <2>3 DEF Read, LoadFails, LastKnownGood
      <3>2. /\ Rank(current.cert) <= Rank(read[1]) /\ Rank(current.bundle) <= Rank(read[3])
            /\ read[1] \in FileState /\ read[3] \in FileState
        BY <1>1, <3>1, ReadsAreLater
      <3> HIDE DEF read
      <3>3. current'.cert = read[1] /\ current'.bundle = read[3]
        BY <3>1 DEF Material
      <3>4. current.cert.gen <= read[1].gen /\ current.bundle.gen <= read[3].gen
        BY <2>1, <3>2, RankIsAnOrder
      <3>5. /\ current.cert.gen \in Nat /\ current.bundle.gen \in Nat
            /\ read[1].gen \in Nat /\ read[3].gen \in Nat
        BY <2>1, <3>2 DEF FileState
      <3> QED
        BY <3>3, <3>4, <3>5
    <2>4. current' = current \/ \E p \in Procs : Read(p)
      BY <1>1 DEF Next, Handshake, vars, Replace, BeginWrite, EndWrite, Enter, Stat, StatFails,
                  Restat, LoadGlitches, LoadFails, LastKnownGood
    <2> QED
      BY <2>2, <2>3, <2>4
  <1>2. IInv /\ [Next]_vars => [/\ current'.cert.gen >= current.cert.gen
                               /\ current'.bundle.gen >= current.bundle.gen]_vars
    BY <1>1
  <1> QED
    BY <1>2, Invariance, PTL DEF Spec, NeverBackward

\* Rotated files take effect for any number of handshakes and rewrites: files that
\* were settled before a handshake began, and stayed so, are what it goes on with,
\* unless a load failed by accident.
THEOREM QuietFilesTakeEffect == Spec => QuietTakesEffect
  <1> DEFINE A == \A p \in Procs :
                    (Stat(p) \/ Read(p)) /\ Leaves(p) /\ conn[p].began = disk /\ Settled(disk)
                        /\ ~glitch'
                      => current' = Material(Stamp(disk))
  <1>1. ASSUME IInv, NEW p \in Procs, Stat(p) \/ Read(p), Leaves(p), conn[p].began = disk,
               Settled(disk), ~glitch'
        PROVE  current' = Material(Stamp(disk))
    <2>1. conn[p].at = "looking"
      BY <1>1 DEF Stat, Statting, Read, Reading
    <2>2. /\ InOrder(conn[p]) /\ conn \in [Procs -> Conn] /\ disk \in [Files -> FileState]
          /\ conn[p].seen \in Seq(FileState)
          /\ conn[p] = Looking(conn[p].began, conn[p].seen, conn[p].again, conn[p].read)
          /\ stamps \in [1 .. 3 -> FileState] /\ Len(stamps) = 3
          /\ Stamp(disk) \in [1 .. 3 -> FileState]
      BY <1>1, <2>1, UnderWay, StampType
    <2>3. ASSUME NEW x, conn' = [conn EXCEPT ![p] = x], x.at = "looking" PROVE FALSE
      <3>1. conn'[p] = x
        BY <2>2, <2>3
      <3> QED
        BY <1>1, <2>3, <3>1 DEF Leaves, Idle
    <2>4. CASE Stat(p)
      <3> DEFINE seen == Look(conn[p].seen)
      <3>1. Len(conn[p].seen) < 3
        BY <2>4 DEF Stat, Statting
      <3>2. /\ NotNewer(Stamp(disk), seen, Len(seen)) /\ NotNewer(seen, Stamp(disk), Len(seen))
        BY <1>1, <2>2, <3>1, LookAdds, LookIsNotOlder DEF InOrder
      <3> HIDE DEF seen
      <3>3. CASE seen # stamps /\ conn' = [conn EXCEPT ![p].seen = seen]
        <4>1. conn' = [conn EXCEPT ![p] = [conn[p] EXCEPT !.seen = seen]]
          BY <2>2, <3>3
        <4>2. [conn[p] EXCEPT !.seen = seen].at = "looking"
          BY <2>1, <2>2 DEF Looking
        <4> QED
          BY <2>3, <4>1, <4>2
      <3>4. CASE seen = stamps
        <4>1. seen = Stamp(disk)
          BY <2>2, <3>2, <3>4, NotNewerAntisym
        <4>2. glitch' = glitch /\ current' = current
          BY <2>4 DEF Stat
        <4> QED
          BY <1>1, <3>4, <4>1, <4>2 DEF IInv, StampsMeanLoaded
      <3> QED
        BY <2>4, <3>3, <3>4 DEF Stat, seen
    <2>5. CASE Read(p)
      <3> DEFINE read == Look(conn[p].read)
      <3>1. Reading(p)
        BY <2>5 DEF Read
      <3>2. /\ conn[p].again \in [1 .. 3 -> FileState] /\ conn[p].seen \in [1 .. 3 -> FileState]
            /\ Len(conn[p].seen) = 3
            /\ NotNewer(conn[p].seen, conn[p].again, 3) /\ NotNewer(conn[p].again, Stamp(disk), 3)
        BY <1>1, <3>1, ReadsFollowStats, LoadIsUnderWay
      <3>3. NotNewer(Stamp(disk), conn[p].seen, 3)
        BY <1>1, <2>2, <3>2 DEF InOrder
      <3>4. NotNewer(Stamp(disk), conn[p].again, 3)
        BY <2>2, <3>2, <3>3, NotNewerTrans
      <3>5. conn[p].again = Stamp(disk)
        BY <2>2, <3>2, <3>4, NotNewerAntisym
      <3>6. ~Refused(read) /\ (Len(read) = 3 => Material(read) = Material(Stamp(disk)))
        BY <1>1, <3>1, <3>5, QuietReads
      <3> HIDE DEF read
      <3>7. CASE conn' = [conn EXCEPT ![p].read = read]
        <4>1. conn' = [conn EXCEPT ![p] = [conn[p] EXCEPT !.read = read]]
          BY <2>2, <3>7
        <4>2. [conn[p] EXCEPT !.read = read].at = "looking"
          BY <2>1, <2>2 DEF Looking
        <4> QED
          BY <2>3, <4>1, <4>2
      <3>8. CASE Len(read) = 3 /\ current' = Material(read)
        BY <3>6, <3>8
      <3> QED
        BY <2>5, <3>6, <3>7, <3>8 DEF Read, read
    <2> QED
      BY <1>1, <2>4, <2>5
  <1>2. IInv /\ [Next]_vars => [A]_vars
    BY <1>1
  <1> QED
    BY <1>2, Invariance, PTL DEF Spec, QuietTakesEffect
=============================================================================
