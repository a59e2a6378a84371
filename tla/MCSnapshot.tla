----------------------------- MODULE MCSnapshot -----------------------------
(***************************************************************************)
(* SPIFFE IDs with every pair of path pieces, and one of each oddity of    *)
(* the other parts; SIDs that are in order, padded, too large and too      *)
(* short; names that are absent, in order, too long and malformed.         *)
(***************************************************************************)
EXTENDS Snapshot

Spelled(name, form) == [name |-> name, form |-> form]
PlainId(path) == [scheme |-> "spiffe", td |-> Spelled("td", "plain"), path |-> path,
                  fragment |-> FALSE, long |-> FALSE]

PathPieces ==
    {Spelled("a", "plain"), Spelled("a", "encoded"), Spelled("a", "foreign"),
     Spelled("", "empty"), Spelled("", "dot"), Spelled("", "dotdot")}
Paths == BoundedSeq(PathPieces, 2)

IdA == PlainId(<<Spelled("a", "plain")>>)
IdB == PlainId(<<Spelled("b", "plain")>>)
MCIds ==
    {PlainId(path) : path \in Paths} \cup {IdB}
    \cup {[IdA EXCEPT !.scheme = s] : s \in {"SPIFFE", "other"}}
    \cup {[IdA EXCEPT !.td = Spelled("td", f)] : f \in {"upper", "foreign"}}
    \cup {[IdA EXCEPT !.td = Spelled("", "empty")],
          [IdA EXCEPT !.fragment = TRUE], [IdA EXCEPT !.long = TRUE]}

MCUsualIds == {IdA, IdB}

SidText(parts) == [prefix |-> TRUE, parts |-> parts]
MCUsualText == SidText(<<Decimal(1), Decimal(2)>>)
MCTexts ==
    {MCUsualText,
     SidText(<<Decimal(1), Decimal(8)>>),
     SidText(<<Decimal(1), Decimal(9)>>),
     SidText(<<Decimal(1), [form |-> "padded", value |-> 2]>>),
     SidText(<<Decimal(1)>>)}

MCNames ==
    {NoName, <<"x", Separator, "y">>, <<"x", "y">>, <<Separator, "y">>,
     <<"x", Separator, "y", "y">>, <<"x", Separator, "&">>,
     <<"x", Separator, Escape>>, <<"x", Separator, Separator>>}
=============================================================================
