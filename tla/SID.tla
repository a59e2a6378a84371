-------------------------------- MODULE SID --------------------------------
(***************************************************************************)
(* Security identifiers: the two validators of their text (mapping's and   *)
(* encoding's, which the code keeps apart on purpose), the MS-DTYP binary  *)
(* codec, and the certificate extension that carries the text.             *)
(*                                                                         *)
(* The widths are parameters: a byte has Byte values, the identifier       *)
(* authority is AuthorityLen bytes and a sub-authority SubLen bytes.  In   *)
(* the code they are 256, 6 and 4.                                         *)
(*                                                                         *)
(* A text is what stands between its dashes.  Of a part, the code tells    *)
(* apart the canonical decimal of a number, the decimal with a leading     *)
(* zero, and all that is no decimal (empty, signed, hexadecimal, beyond    *)
(* uint64).  `prefix` says whether the first two parts are "S" and "1".    *)
(***************************************************************************)
EXTENDS Integers, Sequences

CONSTANTS
    Byte,
    AuthorityLen,
    SubLen,
    MaxSubs,     \* sub-authorities a SID may have
    Refused,     \* what an operation that returns an error returns
    Values,      \* the numbers that parts of an input text have
    MaxBytes,    \* bound on the length of an input of bytes
    MaxParts     \* bound on the parts of an input text

ASSUME SIDAssumption ==
    /\ Byte \in Nat \ {0, 1}
    /\ AuthorityLen \in Nat \ {0}
    /\ SubLen \in Nat \ {0}
    /\ MaxSubs \in 1 .. Byte - 1
    /\ Values \subseteq Nat
    /\ MaxBytes \in Nat
    /\ MaxParts \in Nat

Bytes == 0 .. Byte - 1
HeaderLen == 2 + AuthorityLen

\* How many values n bytes have.
Power[n \in Nat] == IF n = 0 THEN 1 ELSE Byte * Power[n - 1]

MaxAuthority == Power[AuthorityLen] - 1
MaxSub == Power[SubLen] - 1

Part == [form : {"decimal", "padded", "other"}, value : Nat]
Text == [prefix : BOOLEAN, parts : Seq(Part)]
Parsed == [authority : Nat, subs : Seq(Nat)]

ASSUME RefusedAssumption == Refused \notin Text \cup Parsed \cup Seq(Nat)

Decimal(n) == [form |-> "decimal", value |-> n]
-----------------------------------------------------------------------------
\* Any spelling of the number will do.
ParseAnySpelling(p, max) == p.form # "other" /\ p.value <= max

\* mapping: the part is the canonical decimal of a number up to max.
parseCanonicalUint(p, max) == p.form = "decimal" /\ p.value <= max

ValidateSIDString(t) ==
    /\ Len(t.parts) >= 2
    /\ t.prefix
    /\ parseCanonicalUint(t.parts[1], MaxAuthority)
    /\ Len(t.parts) - 1 <= MaxSubs
    /\ \A i \in 2 .. Len(t.parts) : parseCanonicalUint(t.parts[i], MaxSub)

\* encoding: the same rule, written again.
parseSIDUint(p, max) == p.form = "decimal" /\ p.value <= max

parseSID(t) ==
    IF /\ Len(t.parts) >= 2
       /\ t.prefix
       /\ parseSIDUint(t.parts[1], MaxAuthority)
       /\ Len(Tail(t.parts)) <= MaxSubs
       /\ \A i \in 2 .. Len(t.parts) : parseSIDUint(t.parts[i], MaxSub)
    THEN [authority |-> t.parts[1].value,
          subs |-> [i \in 1 .. Len(t.parts) - 1 |-> t.parts[i + 1].value]]
    ELSE Refused
-----------------------------------------------------------------------------
\* The shift is not cut to a byte.
BigEndianUncut(v) == [i \in 1 .. AuthorityLen |-> v \div Power[AuthorityLen - i]]

\* The identifier authority: the most significant byte first.
BigEndian(v) == [i \in 1 .. AuthorityLen |-> (v \div Power[AuthorityLen - i]) % Byte]

\* A sub-authority in the order of the authority.
LittleEndianSwapped(v) == [i \in 1 .. SubLen |-> (v \div Power[SubLen - i]) % Byte]

\* A sub-authority: the least significant byte first.
LittleEndian(v) == [i \in 1 .. SubLen |-> (v \div Power[i - 1]) % Byte]

\* The sub-authorities, one after the other.
Concatenated(subs) ==
    [k \in 1 .. SubLen * Len(subs) |->
       LittleEndian(subs[((k - 1) \div SubLen) + 1])[((k - 1) % SubLen) + 1]]

MarshalSID(t) ==
    LET sid == parseSID(t)
    IN  IF sid = Refused THEN Refused
        ELSE <<1, Len(sid.subs)>> \o BigEndian(sid.authority) \o Concatenated(sid.subs)

\* The number that digits are, the most significant first.
Number(digits) ==
    LET upTo[n \in 0 .. Len(digits)] ==
          IF n = 0 THEN 0 ELSE upTo[n - 1] * Byte + digits[n]
    IN  upTo[Len(digits)]

\* The bytes of the authority, and of sub-authority j from the last to the first.
AuthorityOf(b) == [i \in 1 .. AuthorityLen |-> b[2 + i]]
SubOf(b, j) == [i \in 1 .. SubLen |-> b[HeaderLen + j * SubLen + 1 - i]]

\* The text of a binary SID with b[2] sub-authorities.
Rendered(b) ==
    [prefix |-> TRUE,
     parts |-> [i \in 1 .. b[2] + 1 |->
                  Decimal(Number(IF i = 1 THEN AuthorityOf(b) ELSE SubOf(b, i - 1)))]]

UnmarshalSID(b) ==
    IF /\ Len(b) >= HeaderLen
       /\ b[1] = 1
       /\ b[2] \in 1 .. MaxSubs
       /\ Len(b) = HeaderLen + SubLen * b[2]
    THEN Rendered(b)
    ELSE Refused
-----------------------------------------------------------------------------
\* An extension of a certificate: whether its OID is the one of the AD SID
\* extension, whether its DER is the nesting of an OtherName around one octet
\* string, with nothing after any layer, and the text in the octet string.
Extension(ntds, nested, t) == [ntds |-> ntds, nested |-> nested, sid |-> t]

BuildNTDSCASecurityExt(t) ==
    IF MarshalSID(t) = Refused THEN Refused ELSE Extension(TRUE, TRUE, t)

parseNTDSCASecurityExt(ext) ==
    IF ext.nested /\ MarshalSID(ext.sid) # Refused THEN ext.sid ELSE Refused

\* The first extension with the OID decides, and one without it is passed over.
SIDFromCertificateExtensions(exts) ==
    LET ntds == {i \in DOMAIN exts : exts[i].ntds}
        first == CHOOSE i \in ntds : \A j \in ntds : i <= j
    IN  IF ntds = {} THEN Refused ELSE parseNTDSCASecurityExt(exts[first])
-----------------------------------------------------------------------------
VARIABLES
    bytes,   \* an input of UnmarshalSID
    text     \* an input of the validators, of MarshalSID and of the builder

vars == <<bytes, text>>

Init ==
    /\ bytes = <<>>
    /\ text \in [prefix : BOOLEAN, parts : {<<>>}]

\* Every sequence of bytes is reached a byte at a time.
NextByte(b) ==
    /\ text.parts = <<>>
    /\ Len(bytes) < MaxBytes
    /\ bytes' = Append(bytes, b)
    /\ UNCHANGED text

\* Every text is reached a part at a time.
NextPart(p) ==
    /\ bytes = <<>>
    /\ Len(text.parts) < MaxParts
    /\ text' = [text EXCEPT !.parts = Append(@, p)]
    /\ UNCHANGED bytes

Next ==
    \/ \E b \in Bytes : NextByte(b)
    \/ \E p \in [form : {"decimal"}, value : Values]
                  \cup [form : {"padded", "other"}, value : {1}] : NextPart(p)

Spec == Init /\ [][Next]_vars
-----------------------------------------------------------------------------
\* What is encoded is bytes, as many as a SID of that many sub-authorities has.
TypeOK ==
    /\ bytes \in Seq(Bytes)
    /\ text \in Text
    /\ MarshalSID(text) # Refused =>
         /\ MarshalSID(text) \in Seq(Bytes)
         /\ Len(MarshalSID(text)) = HeaderLen + SubLen * (Len(text.parts) - 1)
    /\ UnmarshalSID(bytes) # Refused => UnmarshalSID(bytes) \in Text

\* One account, one binary form.  Whatever MarshalSID encodes decodes to the same
\* SID, up to the largest of every field, and UnmarshalSID accepts only what
\* MarshalSID writes: a SID with a byte too many, or with a count that is not its
\* own, is no other spelling of an account.
CodecIsBijection ==
    /\ MarshalSID(text) # Refused => UnmarshalSID(MarshalSID(text)) = text
    /\ UnmarshalSID(bytes) # Refused => MarshalSID(UnmarshalSID(bytes)) = bytes

\* The endianness is mixed, as MS-DTYP has it: the lowest byte of the authority
\* is the last of its field, and that of a sub-authority is the first of its own.
MixedEndian ==
    MarshalSID(text) # Refused =>
        /\ MarshalSID(text)[HeaderLen] = text.parts[1].value % Byte
        /\ \A i \in 2 .. Len(text.parts) :
             MarshalSID(text)[HeaderLen + (i - 2) * SubLen + 1] = text.parts[i].value % Byte

\* The SID that adcs.verify reads from a certificate is one the mapping could
\* hold, and it reads every SID the mapping can hold back as it was written,
\* whatever other extensions come first: the comparison of the two strings
\* refuses no certificate for the right account and passes none for another.  So
\* the two validators, which are written apart, accept the same texts.
VerifyReadsMapping ==
    LET unrelated == Extension(FALSE, TRUE, text)
        malformed == Extension(TRUE, FALSE, text)
        carried == Extension(TRUE, TRUE, text)
    IN  /\ ValidateSIDString(text) =>
             SIDFromCertificateExtensions(<<unrelated, BuildNTDSCASecurityExt(text)>>) = text
        /\ SIDFromCertificateExtensions(<<carried>>) =
             IF ValidateSIDString(text) THEN text ELSE Refused
        /\ SIDFromCertificateExtensions(<<unrelated>>) = Refused
        /\ SIDFromCertificateExtensions(<<malformed, carried>>) = Refused
=============================================================================
