------------------------------ MODULE Snapshot ------------------------------
(***************************************************************************)
(* The mapping snapshot: what Parse makes of a file, and which account the *)
(* workload behind a peer certificate is given by it.  SID has the account *)
(* identifiers and AccountName the account names.                          *)
(*                                                                         *)
(* A SPIFFE ID is its text, cut at the slashes: a piece of it is one       *)
(* spelling of a name, or one of the pieces that name nothing.  Which      *)
(* texts mean the same workload is RFC 3986's to say (SameWorkload); the   *)
(* code compares texts, and refuses all spellings but one.                 *)
(*                                                                         *)
(* A file is what follows one another in it: documents and closing         *)
(* brackets that close nothing.  It is written a piece at a time.          *)
(***************************************************************************)
EXTENDS SID, AccountName, SequencesExt

CONSTANTS
    Ids,          \* SPIFFE IDs, as texts
    Texts,        \* SIDs in the entries, as texts
    Names,        \* account names in the entries
    UsualIds,     \* the IDs of entries whose account is out of the ordinary
    UsualText,    \* the account of entries whose ID is
    NoMapping,    \* ErrNoMapping
    MaxItems,     \* bound on the documents and brackets of a file
    MaxEntries    \* bound on the entries of a file

\* A spelling of a name, or a piece without one.  Case tells names apart in a path
\* and not in a trust domain.
Piece == [name : STRING, form : {"plain", "encoded", "foreign", "empty", "dot", "dotdot"}]
TrustDomain == [name : STRING, form : {"plain", "upper", "foreign", "empty"}]
Id == [scheme : {"spiffe", "SPIFFE", "other"}, td : TrustDomain, path : Seq(Piece),
       fragment : BOOLEAN, long : BOOLEAN]

ASSUME SnapshotAssumption ==
    /\ \A id \in Ids : id \in Id
    /\ UsualIds \subseteq Ids
    /\ \A t \in Texts : t \in Text
    /\ UsualText \in Texts
    /\ MaxItems \in Nat
    /\ MaxEntries \in Nat

\* One thing of an entry is out of the ordinary at a time.
Entry == [id : Ids, sid : {UsualText}, name : {NoName}]
         \cup [id : UsualIds, sid : Texts, name : {NoName}]
         \cup [id : UsualIds, sid : {UsualText}, name : Names]

\* A document is incomplete if Decode refuses it (it is no JSON, or a field is
\* unknown), or it has no version, or no generated_at.
Headers == {"complete", "incomplete"}
Bracket == [header |-> "bracket", entries |-> <<>>]
-----------------------------------------------------------------------------
isTrustDomain(piece) == piece.form = "plain"

\* A trailing slash, or two slashes, are let through.
PlainOrEmpty(piece) == piece.form \in {"plain", "empty"}

isSegment(piece) == piece.form = "plain"

ValidateSPIFFEID(id) ==
    /\ ~id.long
    /\ id.scheme = "spiffe"
    /\ isTrustDomain(id.td)
    /\ id.path # <<>>
    /\ \A i \in DOMAIN id.path : isSegment(id.path[i])
    /\ ~id.fragment

\* A second document is not looked for.
MoreNever(file) == FALSE

\* dec.More: something follows, and it is not a closing bracket.
More(file) == Len(file) > 1 /\ file[2] # Bracket

validEntry(entry) ==
    /\ ValidateSPIFFEID(entry.id)
    /\ ValidateSIDString(entry.sid)
    /\ entry.name # NoName => ValidateAccountName(entry.name)

noDuplicates(entries) ==
    \A i, j \in DOMAIN entries : entries[i].id = entries[j].id => i = j

\* The map of the Registry; a later entry would overwrite an earlier one.
Entries(entries) ==
    [id \in {entries[i].id : i \in DOMAIN entries} |->
       LET last == CHOOSE i \in DOMAIN entries :
                     /\ entries[i].id = id
                     /\ \A j \in DOMAIN entries : entries[j].id = id => j <= i
       IN  [sid |-> entries[last].sid, name |-> entries[last].name]]

Parse(file) ==
    IF /\ file # <<>>
       /\ ~More(file)
       /\ file[1].header = "complete"
       /\ file[1].entries # <<>>
       /\ \A i \in DOMAIN file[1].entries : validEntry(file[1].entries[i])
       /\ noDuplicates(file[1].entries)
    THEN Entries(file[1].entries)
    ELSE Refused

Lookup(registry, id) == IF id \in DOMAIN registry THEN registry[id] ELSE NoMapping

\* The one URI of the peer's certificate, as url.Parse and URL.String give it
\* back: the scheme in lower case, and an empty fragment gone.
SPIFFEIDFromPeer(uris) ==
    IF Len(uris) = 1 /\ uris[1].scheme # "other"
    THEN [uris[1] EXCEPT !.scheme = "spiffe", !.fragment = FALSE]
    ELSE Refused
-----------------------------------------------------------------------------
VARIABLE file   \* the file, as far as it is written

snapshotVars == <<bytes, text, file>>

SnapshotInit == Init /\ file = <<>>

NothingElse == bytes = <<>> /\ text.parts = <<>>

Written == FoldLeft(LAMBDA n, item : n + Len(item.entries), 0, file)

\* What a document after the first is like is not looked at.
BeginDocument(header) ==
    /\ NothingElse
    /\ Len(file) < MaxItems
    /\ file # <<>> => header = "complete"
    /\ file' = Append(file, [header |-> header, entries |-> <<>>])
    /\ UNCHANGED vars

StrayBracket ==
    /\ file # <<>>
    /\ Last(file) # Bracket
    /\ Len(file) < MaxItems
    /\ file' = Append(file, Bracket)
    /\ UNCHANGED vars

WriteEntry(entry) ==
    /\ file # <<>>
    /\ Last(file) # Bracket
    /\ Written < MaxEntries
    /\ file' = [file EXCEPT ![Len(file)].entries = Append(@, entry)]
    /\ UNCHANGED vars

SnapshotNext ==
    \/ Next /\ file = <<>> /\ UNCHANGED file
    \/ \E header \in Headers : BeginDocument(header)
    \/ StrayBracket
    \/ \E entry \in Entry : WriteEntry(entry)

SnapshotSpec == SnapshotInit /\ [][SnapshotNext]_snapshotVars
-----------------------------------------------------------------------------
\* The path with its dot segments resolved and its encodings undone.
Resolved(path) ==
    LET upTo[n \in 0 .. Len(path)] ==
          IF n = 0 THEN <<>>
          ELSE LET piece == path[n]
                   done == upTo[n - 1]
               IN  CASE piece.form \in {"empty", "dot"} -> done
                     [] piece.form = "dotdot" -> IF done = <<>> THEN done ELSE Front(done)
                     [] piece.form = "foreign" -> Append(done, piece)
                     [] piece.form \in {"plain", "encoded"} ->
                          Append(done, [piece EXCEPT !.form = "plain"])
    IN  upTo[Len(path)]

\* Two texts that RFC 3986 makes equivalent, so that a reviewer of the snapshot
\* takes them for one workload.
SameWorkload(id, other) ==
    /\ (id.scheme = "other") <=> (other.scheme = "other")
    /\ id.td.name = other.td.name
    /\ (id.td.form = "foreign") <=> (other.td.form = "foreign")
    /\ Resolved(id.path) = Resolved(other.path)
    /\ id.long <=> other.long

Loaded == Parse(file)

\* What a loaded snapshot says is all in force, and nothing decides between its
\* entries: each of them, of every document in the file, is what a lookup
\* returns.  A closing bracket that closes nothing is the one thing that hides
\* what follows it.
EveryEntryIsInForce ==
    Loaded # Refused /\ Bracket \notin ToSet(file) =>
      \A i \in DOMAIN file : \A j \in DOMAIN file[i].entries :
        LET entry == file[i].entries[j]
        IN  Lookup(Loaded, entry.id) = [sid |-> entry.sid, name |-> entry.name]

\* No spelling makes a lookup miss or hit the wrong entry: the workload behind
\* a certificate gets an account exactly when its ID, as the transport reads it,
\* is canonical and the snapshot has an entry for that workload, in whatever
\* spelling an entry can have; and it gets that entry's.  The transport does not
\* read it verbatim, as peer.go:30-33 says: a scheme in upper case or an empty
\* fragment is gone before Issue looks, and such a peer gets its entry's account.
LookupMissesNobody ==
    Loaded # Refused =>
      \A uri \in Ids :
        LET id == SPIFFEIDFromPeer(<<uri>>)
            meant == {entry \in ToSet(file[1].entries) : SameWorkload(entry.id, uri)}
        IN  IF id # Refused /\ ValidateSPIFFEID(id) /\ meant # {}
            THEN Lookup(Loaded, id) \in {[sid |-> e.sid, name |-> e.name] : e \in meant}
                 /\ \A e \in meant : e.id = id
            ELSE id # Refused => Lookup(Loaded, id) = NoMapping

\* A successful lookup needs no further checks: its SID can be encoded, and a
\* name it has is one that the backend's own validator takes.
LookupNeedsNoChecks ==
    Loaded # Refused =>
      \A id \in DOMAIN Loaded :
        /\ MarshalSID(Loaded[id].sid) # Refused
        /\ Loaded[id].name # NoName => validateRequesterName(Loaded[id].name)
=============================================================================
