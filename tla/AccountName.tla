---------------------------- MODULE AccountName ----------------------------
(***************************************************************************)
(* Account names, DOMAIN\samAccountName, and the two validators of them:   *)
(* the mapping's, which every snapshot passes, and the adcs backend's,     *)
(* which stands before the encoding that is not escaped.  The code has the *)
(* rule and the allowlist twice.                                           *)
(*                                                                         *)
(* A name is the sequence of what the encodings tell apart: the separator, *)
(* the characters that mean something to the CA's reader ("&", "=", and    *)
(* "%5C", the separator as it travels), and words of harmless characters.  *)
(***************************************************************************)
EXTENDS Integers, Sequences

CONSTANTS
    Words,              \* words of letters, digits, and "-", "_", "." and "$"
    MaxAccountNameLen   \* the mapping's bound on a name

Separator == "\\"
Escape == "%5C"

ASSUME AccountNameAssumption ==
    /\ Words \cap {Separator, Escape, "&", "="} = {}
    /\ MaxAccountNameLen \in Nat

Name == Seq(Words \cup {Separator, Escape, "&", "="})
NoName == <<>>

\* An allowlist with the escape on it.
WordOrEscape(w) == w \in Words \cup {Escape}

\* mapping.isAccountRune.
isAccountRune(w) == w \in Words

\* adcs.isAccountRune.
isAccountRuneADCS(w) == w \in Words

\* mapping: one separator, something on either side, and nothing else that is
\* not on the allowlist.
ValidateAccountName(name) ==
    /\ Len(name) <= MaxAccountNameLen
    /\ \E i \in 2 .. Len(name) - 1 :
         /\ name[i] = Separator
         /\ \A j \in DOMAIN name \ {i} : isAccountRune(name[j])

\* adcs: the rule written again, without the bound.
validateRequesterName(name) ==
    \E i \in 2 .. Len(name) - 1 :
      /\ name[i] = Separator
      /\ \A j \in DOMAIN name \ {i} : isAccountRuneADCS(name[j])

\* adcs: a template is a name without a separator.
validateTemplateName(name) ==
    /\ name # NoName
    /\ \A j \in DOMAIN name : isAccountRuneADCS(name[j])
=============================================================================
