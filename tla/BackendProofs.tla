--------------------------- MODULE BackendProofs ---------------------------
(***************************************************************************)
(* What the adcs backend promises for any configuration, request, CA and   *)
(* answer: that a backend which started can issue, that the CA is told     *)
(* what was asked, and that of an answer exactly the credential that was   *)
(* asked for is returned, with its issuer first and its chain whole.       *)
(***************************************************************************)
EXTENDS Backend, FiniteSetTheorems, FunctionTheorems, WellFoundedInduction, TLAPS

Before == {"configured", "unstarted", "ready", "posted"}

\* What is in CES's hands is the CMC for this request, and it got there only from a
\* backend that started.
PostedAsAsked ==
    /\ at \in {"configured", "unstarted", "ready"} => posted = Nothing
    /\ at \in {"posted", "parse", "chain", "returned"} => posted # Nothing
    /\ at = "ready" => Accepts(config)
    /\ posted # Nothing =>
         /\ Accepts(config) /\ CMCFor(asked) # Refused
         /\ posted = buildRSTForCMC(CMCFor(asked))
    /\ at = "refused" /\ posted = Nothing => Accepts(config) /\ CMCFor(asked) = Refused

\* Nothing is collected before there is an answer.
NothingYet ==
    /\ at \in Before => ~honest /\ sent = <<>>
    /\ at \in Before \cup {"parse", "unavailable"} =>
         /\ certs = <<>> /\ chain = <<>>
         /\ tokens = sent

\* The tokens that chainFrom has taken, the last of which it may still be at.
Opened == Len(sent) - Len(tokens)

\* What there is still to look at is the end of what was sent.
LooksInOrder ==
    /\ sent \in BoundedSeq(Token, MaxTokens)
    /\ Opened \in 0 .. Len(sent)
    /\ \A i \in 1 .. Len(tokens) : tokens[i] = sent[Opened + i]
    /\ certs # <<>> =>
         /\ Opened \in DOMAIN sent /\ sent[Opened].pkcs7
         /\ Len(certs) <= Len(sent[Opened].certs)
         /\ \A j \in 1 .. Len(certs) :
              certs[j] = sent[Opened].certs[Len(sent[Opened].certs) - Len(certs) + j]

\* The places of c that were looked at.
Looked(c) ==
    {p \in Placed(c) :
       \/ p[1] < Opened
       \/ p[1] = Opened /\ p[2] <= Len(sent[p[1]].certs) - Len(certs)}

InChain(c) == {i \in DOMAIN chain : chain[i] = c}

\* The chain holds every certificate as often as it was met.
Counted ==
    at # "refused" =>
      \A c \in Certs : c # issued.cert => Cardinality(InChain(c)) = Cardinality(Looked(c))

\* What the answer must be to get as far as the chain.
Recognising ==
    at \in {"chain", "returned"} =>
        /\ envelope = Ordinary /\ issued.x509 /\ issued.cert \in Certs
        /\ \A i \in 1 .. Opened : sent[i].pkcs7 => Parses(sent[i])

\* And what it must be to be returned.
Presentable ==
    at = "returned" =>
        /\ tokens = <<>> /\ certs = <<>>
        /\ SIDOf[issued.cert] = asked.sid
        /\ chain # <<>> /\ chain[1] \in SignedBy[issued.cert]

\* An answer that is no fault is about the account that was resolved.
HonestAnswer ==
    honest =>
        /\ posted # Nothing
        /\ Resolved(posted) = NoSID => envelope.fault
        /\ Resolved(posted) # NoSID =>
             /\ Resolved(posted) \in SIDs
             /\ envelope = Ordinary
             /\ issued = [x509 |-> TRUE, cert |-> LeafFor[Resolved(posted)]]
             /\ sent \in Chains[issued.cert]

IInv ==
    /\ TypeOK
    /\ PostedAsAsked
    /\ NothingYet
    /\ LooksInOrder
    /\ Counted
    /\ Recognising
    /\ Presentable
    /\ HonestAnswer
    /\ ReturnsExactlyUsable
-----------------------------------------------------------------------------
\* An index of a sequence is an index, and what is there is an element.
LEMMA SeqFacts ==
  ASSUME NEW S, NEW s \in Seq(S)
  PROVE  /\ Len(s) \in Nat /\ DOMAIN s = 1 .. Len(s)
         /\ \A i \in 1 .. Len(s) : s[i] \in S
  OBVIOUS

\* Two sequences one after the other.
LEMMA JoinFacts ==
  ASSUME NEW S, NEW s \in Seq(S), NEW t \in Seq(S)
  PROVE  /\ s \o t \in Seq(S)
         /\ Len(s \o t) = Len(s) + Len(t)
         /\ \A i \in 1 .. Len(s) : (s \o t)[i] = s[i]
         /\ \A i \in 1 .. Len(t) : (s \o t)[Len(s) + i] = t[i]
  OBVIOUS

\* What a regInfo text is put together from.
Alphabet == Words \cup {Separator, Escape, "&", "=", "CertificateTemplate", "RequesterName"}

\* A name is a text, and so is the name as it travels.
LEMMA NamesAreTexts ==
  ASSUME NEW n \in Name
  PROVE  /\ n \in Seq(Alphabet)
         /\ Escaped(n) \in Seq(Alphabet)
         /\ Len(Escaped(n)) = Len(n)
         /\ \A i \in 1 .. Len(n) :
              Escaped(n)[i] = IF n[i] = Separator THEN Escape ELSE n[i]
  <1>1. n \in Seq(Words \cup {Separator, Escape, "&", "="})
    BY DEF Name
  <1>2. Len(n) \in Nat /\ DOMAIN n = 1 .. Len(n)
        /\ \A i \in 1 .. Len(n) : n[i] \in Alphabet
    <2>1. Words \cup {Separator, Escape, "&", "="} \subseteq Alphabet
      BY DEF Alphabet
    <2> QED
      BY <1>1, <2>1, SeqFacts
  <1>3. n \in [1 .. Len(n) -> Alphabet]
    BY <1>1, <1>2
  <1>4. Escaped(n) = [i \in 1 .. Len(n) |-> IF n[i] = Separator THEN Escape ELSE n[i]]
    BY <1>2 DEF Escaped
  <1>5. Escape \in Alphabet
    BY DEF Alphabet
  <1>6. Escaped(n) \in [1 .. Len(n) -> Alphabet]
    BY <1>2, <1>4, <1>5
  <1>7. Escaped(n) \in Seq(Alphabet) /\ Len(Escaped(n)) = Len(n) /\ n \in Seq(Alphabet)
    BY <1>2, <1>3, <1>6
  <1> QED
    BY <1>4, <1>7

\* The regInfo text, place by place.
LEMMA RegInfoIs ==
  ASSUME NEW t \in Name, NEW r \in Name
  PROVE  LET text == regInfoString(t, r)
         IN  /\ text \in Seq(Alphabet)
             /\ Len(text) = Len(t) + Len(r) + 6
             /\ text[1] = "CertificateTemplate" /\ text[2] = "="
             /\ \A i \in 1 .. Len(t) : text[2 + i] = t[i]
             /\ text[Len(t) + 3] = "&"
             /\ text[Len(t) + 4] = "RequesterName" /\ text[Len(t) + 5] = "="
             /\ \A i \in 1 .. Len(r) : text[Len(t) + 5 + i] = Escaped(r)[i]
             /\ text[Len(t) + Len(r) + 6] = "&"
  <1> DEFINE e == Escaped(r)
             head == <<"CertificateTemplate", "=">>
             mid == <<"&", "RequesterName", "=">>
             end == <<"&">>
             a == head \o t
             b == a \o mid
             c == b \o e
             text == c \o end
  <1>1. t \in Seq(Alphabet) /\ e \in Seq(Alphabet) /\ Len(e) = Len(r)
        /\ Len(t) \in Nat /\ Len(r) \in Nat
    BY NamesAreTexts, SeqFacts DEF Name
  <1>2. /\ head \in Seq(Alphabet) /\ Len(head) = 2
        /\ head[1] = "CertificateTemplate" /\ head[2] = "="
    <2>1. head \in [1 .. 2 -> Alphabet]
      BY DEF Alphabet
    <2> QED
      BY <2>1
  <1>3. /\ mid \in Seq(Alphabet) /\ Len(mid) = 3
        /\ mid[1] = "&" /\ mid[2] = "RequesterName" /\ mid[3] = "="
    <2>1. mid \in [1 .. 3 -> Alphabet]
      BY DEF Alphabet
    <2> QED
      BY <2>1
  <1>4. end \in Seq(Alphabet) /\ Len(end) = 1 /\ end[1] = "&"
    <2>1. end \in [1 .. 1 -> Alphabet]
      BY DEF Alphabet
    <2> QED
      BY <2>1
  <1>5. text = regInfoString(t, r)
    BY DEF regInfoString
  <1> HIDE DEF e, head, mid, end
  <1>6. /\ a \in Seq(Alphabet) /\ Len(a) = Len(head) + Len(t)
        /\ \A i \in 1 .. Len(head) : a[i] = head[i]
        /\ \A i \in 1 .. Len(t) : a[Len(head) + i] = t[i]
    <2>1. head \in Seq(Alphabet) /\ t \in Seq(Alphabet)
      BY <1>1, <1>2
    <2> QED
      BY <2>1, JoinFacts DEF a
  <1> HIDE DEF a
  <1>7. /\ b \in Seq(Alphabet) /\ Len(b) = Len(a) + Len(mid)
        /\ \A i \in 1 .. Len(a) : b[i] = a[i]
        /\ \A i \in 1 .. Len(mid) : b[Len(a) + i] = mid[i]
    <2>1. a \in Seq(Alphabet) /\ mid \in Seq(Alphabet)
      BY <1>3, <1>6
    <2> QED
      BY <2>1, JoinFacts DEF b
  <1> HIDE DEF b
  <1>8. /\ c \in Seq(Alphabet) /\ Len(c) = Len(b) + Len(e)
        /\ \A i \in 1 .. Len(b) : c[i] = b[i]
        /\ \A i \in 1 .. Len(e) : c[Len(b) + i] = e[i]
    <2>1. b \in Seq(Alphabet) /\ e \in Seq(Alphabet)
      BY <1>1, <1>7
    <2> QED
      BY <2>1, JoinFacts DEF c
  <1> HIDE DEF c
  <1>9. /\ text \in Seq(Alphabet) /\ Len(text) = Len(c) + Len(end)
        /\ \A i \in 1 .. Len(c) : text[i] = c[i]
        /\ \A i \in 1 .. Len(end) : text[Len(c) + i] = end[i]
    <2>1. c \in Seq(Alphabet) /\ end \in Seq(Alphabet)
      BY <1>4, <1>8
    <2> QED
      BY <2>1, JoinFacts DEF text
  <1> HIDE DEF text
  <1>10. /\ Len(a) = Len(t) + 2 /\ Len(b) = Len(t) + 5
         /\ Len(c) = Len(t) + Len(r) + 5 /\ Len(text) = Len(t) + Len(r) + 6
    BY <1>1, <1>2, <1>3, <1>4, <1>6, <1>7, <1>8, <1>9
  <1>11. \A i \in 1 .. Len(t) + 5 : text[i] = b[i]
    BY <1>1, <1>8, <1>9, <1>10
  <1>12. \A i \in 1 .. Len(t) + 2 : text[i] = a[i]
    BY <1>1, <1>7, <1>10, <1>11
  <1>13. /\ text[1] = "CertificateTemplate" /\ text[2] = "="
         /\ \A i \in 1 .. Len(t) : text[2 + i] = t[i]
    <2>1. a[1] = head[1] /\ a[2] = head[2] /\ \A i \in 1 .. Len(t) : a[2 + i] = t[i]
      BY <1>1, <1>2, <1>6
    <2> QED
      BY <1>1, <1>2, <1>12, <2>1
  <1>14. /\ text[Len(t) + 3] = "&"
         /\ text[Len(t) + 4] = "RequesterName" /\ text[Len(t) + 5] = "="
    <2>1. /\ b[Len(t) + 2 + 1] = mid[1] /\ b[Len(t) + 2 + 2] = mid[2]
          /\ b[Len(t) + 2 + 3] = mid[3]
      BY <1>1, <1>2, <1>3, <1>6, <1>7
    <2>2. /\ text[Len(t) + 2 + 1] = mid[1] /\ text[Len(t) + 2 + 2] = mid[2]
          /\ text[Len(t) + 2 + 3] = mid[3]
      BY <1>1, <1>11, <2>1
    <2> QED
      BY <1>1, <1>3, <2>2
  <1>15. \A i \in 1 .. Len(r) : text[Len(t) + 5 + i] = e[i]
    BY <1>1, <1>8, <1>9, <1>10
  <1>16. text[Len(t) + Len(r) + 6] = "&"
    <2>1. text[Len(c) + 1] = end[1]
      BY <1>4, <1>9
    <2> QED
      BY <1>1, <1>4, <1>10, <2>1
  <1> QED
    BY <1>5, <1>9, <1>10, <1>13, <1>14, <1>15, <1>16 DEF e

\* A part of a text is what stands there.
LEMMA PartIs ==
  ASSUME NEW S, NEW s \in Seq(S), NEW part \in Seq(S), NEW m \in Nat,
         m + Len(part) <= Len(s),
         \A i \in 1 .. Len(part) : s[m + i] = part[i]
  PROVE  SubSeq(s, m + 1, m + Len(part)) = part
  <1>1. Len(part) \in Nat /\ part \in [1 .. Len(part) -> S]
    OBVIOUS
  <1>2. SubSeq(s, m + 1, m + Len(part)) = [i \in 1 .. Len(part) |-> s[m + i]]
    <2>1. (m + Len(part)) - (m + 1) + 1 = Len(part)
      BY <1>1
    <2>2. \A i \in 1 .. Len(part) : m + 1 + i - 1 = m + i
      BY <1>1
    <2> QED
      BY <1>1, <2>1, <2>2
  <1> QED
    BY <1>1, <1>2

\* What can stand in the names that go into a text.
Harmless == Words \cup {Separator}

\* Two fields, each between its name and the "&" that ends it, and no more.
LEMMA ValuesAre ==
  ASSUME NEW t \in Name, NEW r \in Name,
         \A i \in 1 .. Len(t) : t[i] \in Harmless,
         \A i \in 1 .. Len(r) : r[i] \in Harmless
  PROVE  LET text == regInfoString(t, r)
         IN  /\ ValuesOf(text, "CertificateTemplate") = {t}
             /\ ValuesOf(text, "RequesterName") = {Escaped(r)}
  <1> DEFINE text == regInfoString(t, r)
             T == Len(t)
             R == Len(r)
             Ends(name) ==
               {e \in (1 .. Len(text)) \X (0 .. Len(text)) :
                  /\ e[1] < e[2]
                  /\ e[1] = 1 \/ text[e[1] - 1] = "&"
                  /\ e[2] = Len(text) \/ text[e[2] + 1] = "&"
                  /\ \A i \in e[1] .. e[2] : text[i] # "&"
                  /\ text[e[1]] = name
                  /\ text[e[1] + 1] = "="}
  <1>1. T \in Nat /\ R \in Nat
    BY SeqFacts DEF Name
  <1>2. /\ text \in Seq(Alphabet)
        /\ Len(text) = T + R + 6
        /\ text[1] = "CertificateTemplate" /\ text[2] = "="
        /\ \A i \in 1 .. T : text[2 + i] = t[i]
        /\ text[T + 3] = "&"
        /\ text[T + 4] = "RequesterName" /\ text[T + 5] = "="
        /\ \A i \in 1 .. R : text[T + 5 + i] = Escaped(r)[i]
        /\ text[T + R + 6] = "&"
    BY RegInfoIs
  <1>3. \A i \in 1 .. T : text[2 + i] # "&"
    <2>1. "&" \notin Harmless
      BY AccountNameAssumption DEF Harmless, Separator, Escape
    <2> QED
      BY <1>2, <2>1
  <1>4. \A i \in 1 .. R : text[T + 5 + i] # "&"
    <2>1. "&" \notin Harmless /\ Escape # "&"
      BY AccountNameAssumption DEF Harmless, Separator, Escape
    <2>2. \A i \in 1 .. R : Escaped(r)[i] = IF r[i] = Separator THEN Escape ELSE r[i]
      BY NamesAreTexts
    <2>3. \A i \in 1 .. R : Escaped(r)[i] # "&"
      BY <2>1, <2>2
    <2> QED
      BY <1>2, <2>3
  <1> HIDE DEF text, T, R
  <1>5. \A i \in 1 .. Len(text) : text[i] = "&" <=> i \in {T + 3, T + R + 6}
    <2> SUFFICES ASSUME NEW i \in 1 .. Len(text), i # T + 3, i # T + R + 6
                 PROVE  text[i] # "&"
      BY <1>2
    <2>1. CASE i \in {1, 2, T + 4, T + 5}
      BY <1>2, <2>1
    <2>2. CASE i \in 3 .. T + 2
      <3>1. i - 2 \in 1 .. T /\ 2 + (i - 2) = i
        BY <1>1, <2>2
      <3> QED
        BY <1>3, <3>1
    <2>3. CASE i \in T + 6 .. T + R + 5
      <3>1. i - (T + 5) \in 1 .. R /\ T + 5 + (i - (T + 5)) = i
        BY <1>1, <2>3
      <3> QED
        BY <1>4, <3>1
    <2> QED
      BY <1>1, <1>2, <2>1, <2>2, <2>3
  <1>6. ASSUME NEW name \in {"CertificateTemplate", "RequesterName"},
               NEW b \in 1 .. Len(text), NEW e \in 0 .. Len(text)
        PROVE  (/\ b < e
                /\ b = 1 \/ text[b - 1] = "&"
                /\ e = Len(text) \/ text[e + 1] = "&"
                /\ \A i \in b .. e : text[i] # "&"
                /\ text[b] = name
                /\ text[b + 1] = "=")
               <=> /\ b = IF name = "CertificateTemplate" THEN 1 ELSE T + 4
                   /\ e = IF name = "CertificateTemplate" THEN T + 2 ELSE T + R + 5
    <2>1. ASSUME b < e, b = 1 \/ text[b - 1] = "&", e = Len(text) \/ text[e + 1] = "&",
                 \A i \in b .. e : text[i] # "&", text[b] = name
          PROVE  /\ b = IF name = "CertificateTemplate" THEN 1 ELSE T + 4
                 /\ e = IF name = "CertificateTemplate" THEN T + 2 ELSE T + R + 5
      <3>1. b = 1 \/ b = T + 4
        <4>1. CASE b # 1
          <5>1. b - 1 \in 1 .. Len(text) /\ text[b - 1] = "&"
            BY <1>1, <1>2, <2>1, <4>1
          <5>2. b - 1 = T + 3 \/ b - 1 = T + R + 6
            BY <1>5, <5>1
          <5> QED
            BY <1>1, <1>2, <5>2
        <4> QED
          BY <4>1
      <3>2. e = T + 2 \/ e = T + R + 5
        <4>1. e # Len(text)
          <5>1. e \in b .. e /\ text[e] # "&"
            BY <1>1, <1>2, <2>1
          <5> QED
            BY <1>2, <5>1
        <4>2. e + 1 \in 1 .. Len(text) /\ text[e + 1] = "&"
          BY <1>1, <1>2, <2>1, <4>1
        <4>3. e + 1 = T + 3 \/ e + 1 = T + R + 6
          BY <1>5, <4>2
        <4> QED
          BY <1>1, <4>3
      <3>3. b = 1 => e = T + 2
        <4>1. CASE b = 1 /\ e = T + R + 5
          <5>1. T + 3 \in b .. e
            BY <1>1, <4>1
          <5> QED
            BY <1>2, <2>1, <5>1
        <4> QED
          BY <3>2, <4>1
      <3>4. b = T + 4 => e = T + R + 5
        BY <1>1, <2>1, <3>2
      <3>5. b = 1 => name = "CertificateTemplate"
        BY <1>2, <2>1
      <3>6. b = T + 4 => name = "RequesterName"
        BY <1>2, <2>1
      <3> QED
        BY <3>1, <3>3, <3>4, <3>5, <3>6
    <2>2. ASSUME name = "CertificateTemplate", b = 1, e = T + 2
          PROVE  /\ b < e
                 /\ text[e + 1] = "&"
                 /\ \A i \in b .. e : text[i] # "&"
                 /\ text[b] = name
                 /\ text[b + 1] = "="
      <3>1. \A i \in b .. e : i \in 1 .. Len(text) /\ i # T + 3 /\ i # T + R + 6
        BY <1>1, <1>2, <2>2
      <3>2. \A i \in b .. e : text[i] # "&"
        BY <1>5, <3>1
      <3>3. b < e /\ e + 1 = T + 3 /\ b + 1 = 2
        BY <1>1, <2>2
      <3> QED
        BY <1>2, <2>2, <3>2, <3>3
    <2>3. ASSUME name = "RequesterName", b = T + 4, e = T + R + 5
          PROVE  /\ b < e
                 /\ text[b - 1] = "&"
                 /\ text[e + 1] = "&"
                 /\ \A i \in b .. e : text[i] # "&"
                 /\ text[b] = name
                 /\ text[b + 1] = "="
      <3>1. \A i \in b .. e : i \in 1 .. Len(text) /\ i # T + 3 /\ i # T + R + 6
        BY <1>1, <1>2, <2>3
      <3>2. \A i \in b .. e : text[i] # "&"
        BY <1>5, <3>1
      <3>3. b < e /\ e + 1 = T + R + 6 /\ b + 1 = T + 5 /\ b - 1 = T + 3
        BY <1>1, <2>3
      <3> QED
        BY <1>2, <2>3, <3>2, <3>3
    <2> QED
      BY <2>1, <2>2, <2>3
  <1> DEFINE Start(name) == IF name = "CertificateTemplate" THEN 1 ELSE T + 4
             End(name) == IF name = "CertificateTemplate" THEN T + 2 ELSE T + R + 5
  <1>7. ASSUME NEW name \in {"CertificateTemplate", "RequesterName"}
        PROVE  ValuesOf(text, name) = {SubSeq(text, Start(name) + 2, End(name))}
    <2>1. Start(name) \in 1 .. Len(text) /\ End(name) \in 0 .. Len(text)
      BY <1>1, <1>2
    <2>2. \A e \in (1 .. Len(text)) \X (0 .. Len(text)) :
            e \in Ends(name) <=> e[1] = Start(name) /\ e[2] = End(name)
      <3> SUFFICES ASSUME NEW e \in (1 .. Len(text)) \X (0 .. Len(text))
                   PROVE  e \in Ends(name) <=> e[1] = Start(name) /\ e[2] = End(name)
        OBVIOUS
      <3>1. e[1] \in 1 .. Len(text) /\ e[2] \in 0 .. Len(text)
        OBVIOUS
      <3>2. e \in Ends(name) <=>
              /\ e[1] < e[2]
              /\ e[1] = 1 \/ text[e[1] - 1] = "&"
              /\ e[2] = Len(text) \/ text[e[2] + 1] = "&"
              /\ \A i \in e[1] .. e[2] : text[i] # "&"
              /\ text[e[1]] = name
              /\ text[e[1] + 1] = "="
        BY Zenon
      <3> HIDE DEF Ends
      <3> QED
        BY <1>6, <3>1, <3>2
    <2> HIDE DEF Start, End
    <2>3. Ends(name) = {<<Start(name), End(name)>>}
      BY <2>1, <2>2
    <2>4. ValuesOf(text, name) = {SubSeq(text, e[1] + 2, e[2]) : e \in Ends(name)}
      BY DEF ValuesOf
    <2> HIDE DEF Ends
    <2> QED
      BY <2>3, <2>4
  <1>8. SubSeq(text, 1 + 2, T + 2) = t
    <2>1. t \in Seq(Alphabet)
      BY NamesAreTexts
    <2>2. SubSeq(text, 2 + 1, 2 + Len(t)) = t
      BY <1>1, <1>2, <2>1, PartIs DEF T
    <2>3. 2 + Len(t) = T + 2
      BY <1>1 DEF T
    <2> QED
      BY <2>2, <2>3
  <1>9. SubSeq(text, T + 4 + 2, T + R + 5) = Escaped(r)
    <2>1. Escaped(r) \in Seq(Alphabet) /\ Len(Escaped(r)) = R
      BY NamesAreTexts DEF R
    <2>2. T + 5 \in Nat /\ T + 5 + R <= Len(text)
      BY <1>1, <1>2
    <2>3. SubSeq(text, T + 5 + 1, T + 5 + Len(Escaped(r))) = Escaped(r)
      BY <1>2, <2>1, <2>2, PartIs
    <2>4. T + 5 + 1 = T + 4 + 2 /\ T + 5 + R = T + R + 5
      BY <1>1
    <2> QED
      BY <2>1, <2>3, <2>4
  <1> QED
    BY <1>7, <1>8, <1>9 DEF text

\* A name without an escape of its own is read as it was.
LEMMA DecodedIs ==
  ASSUME NEW r \in Name, \A i \in 1 .. Len(r) : r[i] \in Harmless
  PROVE  /\ Decoded(Escaped(r)) = r
         /\ \A i \in DOMAIN Escaped(r) : Escaped(r)[i] # Separator
  <1>1. DOMAIN r = 1 .. Len(r) /\ r = [i \in DOMAIN r |-> r[i]]
    BY DEF Name
  <1>2. \A i \in DOMAIN r : r[i] # Escape
    BY <1>1, AccountNameAssumption DEF Harmless, Escape, Separator
  <1>3. Escape # Separator
    BY DEF Escape, Separator
  <1>4. Escaped(r) = [i \in DOMAIN r |-> IF r[i] = Separator THEN Escape ELSE r[i]]
    BY DEF Escaped
  <1>5. \A i \in DOMAIN Escaped(r) : Escaped(r)[i] # Separator
    BY <1>3, <1>4
  <1>6. Decoded(Escaped(r)) =
          [i \in DOMAIN r |-> IF (IF r[i] = Separator THEN Escape ELSE r[i]) = Escape
                              THEN Separator ELSE IF r[i] = Separator THEN Escape ELSE r[i]]
    BY <1>4 DEF Decoded
  <1>7. Decoded(Escaped(r)) = [i \in DOMAIN r |-> r[i]]
    BY <1>2, <1>6
  <1> QED
    BY <1>1, <1>5, <1>7
-----------------------------------------------------------------------------
\* A request that can be built is typed as it is, whatever it says.
LEMMA RequestIsTyped ==
  ASSUME NEW csr \in {"proven", "unproven"}, NEW t \in Name, NEW r \in Name, NEW agent \in Agent,
         signatureAlgorithm(agent.key) # Refused
  PROVE  signPKIData(buildPKIData(csr, t, r), agent) \in SignedData
  <1> DEFINE data == buildPKIData(csr, t, r)
             attrs == [contentType |-> "id-cct-PKIData", messageDigest |-> Digest(data)]
             cmc == signPKIData(data, agent)
  <1>1. agent.certificate \in AgentCerts /\ agent.key \in Keys /\ agent.chain \in Seq(AgentCerts)
    BY DEF Agent
  <1>2. data \in PKIData
    <2>1. t \in RegInfo /\ regInfoString(t, r) \in RegInfo
      BY NamesAreTexts, RegInfoIs DEF RegInfo, Alphabet
    <2>2. /\ [part |-> bodyPartAddExtensions, type |-> "addExtensions",
              for |-> bodyPartRequest, value |-> t]
             \in [part : Nat, type : {"addExtensions", "regInfo"}, for : Nat, value : RegInfo]
          /\ [part |-> bodyPartRegInfo, type |-> "regInfo",
              for |-> bodyPartRegInfo, value |-> regInfoString(t, r)]
             \in [part : Nat, type : {"addExtensions", "regInfo"}, for : Nat, value : RegInfo]
      BY <2>1 DEF bodyPartAddExtensions, bodyPartRegInfo, bodyPartRequest
    <2>3. [part |-> bodyPartRequest, csr |-> csr] \in [part : Nat, csr : {"proven", "unproven"}]
      BY DEF bodyPartRequest
    <2> QED
      BY <2>2, <2>3 DEF buildPKIData, PKIData
  <1> HIDE DEF data
  <1>3. attrs \in Attributes /\ Digest(data) \in [sha256 : PKIData]
    BY <1>2 DEF Attributes, Digest
  <1> HIDE DEF attrs
  <1>4. SetOf(attrs) \in Tagged /\ Implicit(attrs) \in Tagged
    BY <1>3 DEF Tagged, SetOf, Implicit
  <1>5. signatureAlgorithm(agent.key) \in {"rsaEncryption", "ecdsaWithSHA256"}
    <2>1. KeyType[agent.key] \in {"rsa", "ecdsa", "other"}
      BY <1>1, CMCAssumption
    <2> QED
      BY <2>1 DEF signatureAlgorithm
  <1>6. <<agent.certificate>> \o agent.chain \in Seq(AgentCerts)
    <2>1. <<agent.certificate>> \in Seq(AgentCerts)
      BY <1>1
    <2> QED
      BY <1>1, <2>1, JoinFacts
  <1>7. Sign(agent.key, Digest(SignedAs(attrs))) \in [by : Keys, over : [sha256 : Tagged]]
    BY <1>1, <1>4 DEF Sign, Digest, SignedAs
  <1>8. cmc = [contentType |-> "id-cct-PKIData",
               content |-> data,
               certs |-> <<agent.certificate>> \o agent.chain,
               signer |-> agent.certificate,
               attrs |-> Implicit(attrs),
               algorithm |-> signatureAlgorithm(agent.key),
               signature |-> Sign(agent.key, Digest(SignedAs(attrs)))]
    BY DEF signPKIData, attrs
  <1> HIDE DEF cmc
  <1>9. cmc \in SignedData
    BY <1>1, <1>2, <1>4, <1>5, <1>6, <1>7, <1>8 DEF SignedData
  <1> QED
    BY <1>9 DEF cmc, data

\* What has to be so for a request to be built.
LEMMA BuiltIs ==
  ASSUME config \in Config, asked \in Request, CMCFor(asked) # Refused
  PROVE  /\ Valid(asked) /\ asked.account # NoName
         /\ Validate(config.agent)
         /\ validateTemplateName(config.template)
         /\ validateRequesterName(asked.account)
         /\ signatureAlgorithm(config.agent.key) # Refused
         /\ CMCFor(asked) =
              signPKIData(buildPKIData("proven", config.template, asked.account), config.agent)
         /\ CMCFor(asked) \in SignedData
  <1>1. Valid(asked) /\ asked.account # NoName /\ asked.csr = "proven"
        /\ CMCFor(asked) = buildCMC("proven", config.template, asked.account, config.agent)
    BY DEF CMCFor, Valid
  <1>2. /\ Validate(config.agent)
        /\ validateTemplateName(config.template)
        /\ validateRequesterName(asked.account)
        /\ CMCFor(asked) =
             signPKIData(buildPKIData("proven", config.template, asked.account), config.agent)
    BY <1>1 DEF buildCMC
  <1>3. signatureAlgorithm(config.agent.key) # Refused
    BY <1>2 DEF signPKIData
  <1>4. config.template \in Name /\ asked.account \in Name /\ config.agent \in Agent
    BY DEF Config, Request
  <1> QED
    BY <1>1, <1>2, <1>3, <1>4, RequestIsTyped

\* Nothing but the request and the type of the agent's key keeps a backend that
\* started from building one.
LEMMA AcceptedIsBuilt ==
  ASSUME config \in Config, asked \in Request, Accepts(config),
         asked.csr = "proven", ValidateAccountName(asked.account),
         KeyType[config.agent.key] # "other"
  PROVE  CMCFor(asked) # Refused
  <1>1. config.template \in Name /\ asked.account \in Name /\ config.agent \in Agent
    BY DEF Config, Request
  <1>2. asked.account # NoName /\ validateRequesterName(asked.account)
    <2>1. PICK i \in 2 .. Len(asked.account) - 1 :
            /\ asked.account[i] = Separator
            /\ \A j \in DOMAIN asked.account \ {i} : isAccountRune(asked.account[j])
      BY DEF ValidateAccountName
    <2>2. validateRequesterName(asked.account)
      BY <2>1 DEF validateRequesterName, isAccountRune, isAccountRuneADCS
    <2>3. Len(asked.account) # 0
      BY <1>1, <2>1 DEF Name
    <2> QED
      BY <2>2, <2>3 DEF NoName
  <1>3. KeyType[config.agent.key] \in {"rsa", "ecdsa"}
    <2>1. config.agent.key \in Keys
      BY <1>1 DEF Agent
    <2> QED
      BY <2>1, CMCAssumption
  <1>4. /\ signatureAlgorithm(config.agent.key) \in {"rsaEncryption", "ecdsaWithSHA256"}
        /\ signatureAlgorithm(config.agent.key) # Refused
    <2>1. signatureAlgorithm(config.agent.key) \in {"rsaEncryption", "ecdsaWithSHA256"}
      BY <1>3 DEF signatureAlgorithm
    <2> QED
      BY <2>1, CMCAssumption
  <1>5. CMCFor(asked) =
          signPKIData(buildPKIData("proven", config.template, asked.account), config.agent)
    BY <1>2 DEF CMCFor, Valid, buildCMC, Accepts
  <1>6. CMCFor(asked) \in SignedData
    BY <1>1, <1>4, <1>5, RequestIsTyped
  <1> QED
    BY <1>6, CMCAssumption

\* What a CA that verifies a request reads in it is what it was built from.
LEMMA RequestIsRead ==
  ASSUME config \in Config, asked \in Request, CMCFor(asked) # Refused
  PROVE  /\ buildRSTForCMC(CMCFor(asked)) # Nothing
         /\ CAReads(buildRSTForCMC(CMCFor(asked))) =
              [csrs |-> {asked.csr}, templates |-> {config.template},
               accounts |-> {asked.account}]
         /\ CAReads(buildRSTForCMC(CMCFor(asked))) # Refused
  <1> DEFINE t == config.template
             r == asked.account
             agent == config.agent
             data == buildPKIData("proven", t, r)
             text == regInfoString(t, r)
             attrs == [contentType |-> "id-cct-PKIData", messageDigest |-> Digest(data)]
             cmc == CMCFor(asked)
             rst == buildRSTForCMC(cmc)
             extension == [part |-> bodyPartAddExtensions, type |-> "addExtensions",
                           for |-> bodyPartRequest, value |-> t]
             regInfo == [part |-> bodyPartRegInfo, type |-> "regInfo",
                         for |-> bodyPartRegInfo, value |-> text]
             request == [part |-> bodyPartRequest, csr |-> "proven"]
             Of(type) == {c \in cmc.content.controls : c.type = type}
  <1>1. /\ asked.csr = "proven"
        /\ Validate(agent) /\ validateTemplateName(t) /\ validateRequesterName(r)
        /\ signatureAlgorithm(agent.key) # Refused
        /\ cmc = signPKIData(data, agent)
        /\ cmc \in SignedData
    BY BuiltIs DEF Valid
  <1>2. t \in Name /\ r \in Name /\ agent \in Agent
    BY DEF Config, Request
  <1>3. rst # Nothing /\ rst.token = cmc
    <2>1. rst \in RST /\ rst.token = cmc
      BY <1>1 DEF buildRSTForCMC, RST
    <2> QED
      BY <2>1, BackendAssumption
  <1>4. cmc = [contentType |-> "id-cct-PKIData",
               content |-> data,
               certs |-> <<agent.certificate>> \o agent.chain,
               signer |-> agent.certificate,
               attrs |-> Implicit(attrs),
               algorithm |-> signatureAlgorithm(agent.key),
               signature |-> Sign(agent.key, Digest(SignedAs(attrs)))]
    BY <1>1 DEF signPKIData
  <1>5. data = [controls |-> {extension, regInfo}, requests |-> {request}]
    BY DEF buildPKIData
  <1>6. /\ \A i \in 1 .. Len(t) : t[i] \in Harmless
        /\ \A i \in 1 .. Len(r) : r[i] \in Harmless
    <2>1. DOMAIN t = 1 .. Len(t) /\ DOMAIN r = 1 .. Len(r)
      BY <1>2 DEF Name
    <2>2. \A i \in 1 .. Len(t) : t[i] \in Harmless
      BY <1>1, <2>1 DEF validateTemplateName, isAccountRuneADCS, Harmless
    <2>3. PICK i \in 2 .. Len(r) - 1 :
            /\ r[i] = Separator
            /\ \A j \in DOMAIN r \ {i} : isAccountRuneADCS(r[j])
      BY <1>1 DEF validateRequesterName
    <2>4. \A j \in 1 .. Len(r) : r[j] \in Harmless
      BY <2>1, <2>3 DEF isAccountRuneADCS, Harmless
    <2> QED
      BY <2>2, <2>4
  <1>7. /\ ValuesOf(text, "CertificateTemplate") = {t}
        /\ ValuesOf(text, "RequesterName") = {Escaped(r)}
    BY <1>2, <1>6, ValuesAre
  <1>8. /\ Decoded(Escaped(r)) = r
        /\ \A i \in DOMAIN Escaped(r) : Escaped(r)[i] # Separator
    BY <1>2, <1>6, DecodedIs
  <1>9. Verified(cmc)
    <2>1. \E i \in DOMAIN cmc.certs : cmc.certs[i] = cmc.signer
      <3>1. <<agent.certificate>> \in Seq(AgentCerts) /\ agent.chain \in Seq(AgentCerts)
        BY <1>2 DEF Agent
      <3>2. DOMAIN cmc.certs = 1 .. 1 + Len(agent.chain) /\ cmc.certs[1] = agent.certificate
        BY <1>4, <3>1
      <3>3. Len(agent.chain) \in Nat
        BY <3>1
      <3> QED
        BY <1>4, <3>2, <3>3
    <2>2. KeyOf[cmc.signer] = agent.key
      BY <1>1, <1>4 DEF Validate
    <2>3. cmc.attrs.members = attrs
      BY <1>4 DEF Implicit
    <2>4. cmc.signature = Sign(KeyOf[cmc.signer], Digest(SetOf(cmc.attrs.members)))
      BY <1>4, <2>2, <2>3 DEF SignedAs
    <2>5. /\ cmc.attrs.members.contentType = cmc.contentType
          /\ cmc.attrs.members.messageDigest = Digest(cmc.content)
      BY <1>4, <2>3
    <2>6. cmc.algorithm = signatureAlgorithm(KeyOf[cmc.signer])
      BY <1>4, <2>2
    <2> HIDE DEF cmc
    <2> QED
      BY <2>1, <2>4, <2>5, <2>6 DEF Verified
  <1>10. cmc.content.requests = {request} /\ cmc.content.controls = {extension, regInfo}
    BY <1>4, <1>5
  <1>11. Of("addExtensions") = {extension} /\ Of("regInfo") = {regInfo}
    BY <1>10
  <1>12. cmc.signer \in WithPolicy
    BY <1>1, <1>4 DEF Validate
  <1> HIDE DEF cmc, Of, data, text
  <1>13. {q.csr : q \in cmc.content.requests} = {"proven"}
    BY <1>10
  <1>14. {c.value : c \in {c \in Of("addExtensions") :
                             \E q \in cmc.content.requests : q.part = c.for}} = {t}
    <2>1. {c \in Of("addExtensions") : \E q \in cmc.content.requests : q.part = c.for}
          = {extension}
      BY <1>10, <1>11 DEF bodyPartRequest
    <2>2. {c.value : c \in {extension}} = {t}
      OBVIOUS
    <2> QED
      BY <2>1, <2>2, Zenon
  <1>15. /\ UNION {ValuesOf(c.value, "CertificateTemplate") : c \in Of("regInfo")} = {t}
         /\ UNION {ValuesOf(c.value, "RequesterName") : c \in Of("regInfo")} = {Escaped(r)}
    <2>1. regInfo.value = text
      OBVIOUS
    <2>2. /\ {ValuesOf(c.value, "CertificateTemplate") : c \in {regInfo}} = {{t}}
          /\ {ValuesOf(c.value, "RequesterName") : c \in {regInfo}} = {{Escaped(r)}}
      <3> HIDE DEF regInfo
      <3> QED
        BY <1>7, <2>1
    <2>3. UNION {{t}} = {t} /\ UNION {{Escaped(r)}} = {Escaped(r)}
      OBVIOUS
    <2> QED
      BY <1>11, <2>2, <2>3, Zenon
  <1>16. {Decoded(v) : v \in
            {v \in UNION {ValuesOf(c.value, "RequesterName") : c \in Of("regInfo")} :
               \A i \in DOMAIN v : v[i] # Separator}} = {r}
    <2>1. {v \in UNION {ValuesOf(c.value, "RequesterName") : c \in Of("regInfo")} :
             \A i \in DOMAIN v : v[i] # Separator} = {Escaped(r)}
      BY <1>8, <1>15
    <2> QED
      BY <1>8, <2>1
  <1>17. CAReads(rst) =
           [csrs |-> {q.csr : q \in cmc.content.requests},
            templates |->
              {c.value : c \in {c \in Of("addExtensions") :
                                  \E q \in cmc.content.requests : q.part = c.for}}
              \cup UNION {ValuesOf(c.value, "CertificateTemplate") : c \in Of("regInfo")},
            accounts |->
              {Decoded(v) : v \in
                 {v \in UNION {ValuesOf(c.value, "RequesterName") : c \in Of("regInfo")} :
                    \A i \in DOMAIN v : v[i] # Separator}}]
    BY <1>3, <1>9, <1>12 DEF CAReads, Of
  <1>18. CAReads(rst) = [csrs |-> {asked.csr}, templates |-> {t}, accounts |-> {r}]
    BY <1>1, <1>13, <1>14, <1>15, <1>16, <1>17
  <1>19. CAReads(rst) # Refused
    <2>1. t \in RegInfo /\ r \in RegInfo
      BY <1>2, NamesAreTexts DEF RegInfo, Alphabet
    <2>2. [csrs |-> {"proven"}, templates |-> {t}, accounts |-> {r}] \in Reading
      BY <2>1 DEF Reading
    <2> QED
      BY <1>1, <1>18, <2>2, CMCAssumption
  <1> QED
    BY <1>3, <1>18, <1>19 DEF cmc
-----------------------------------------------------------------------------
\* A set of numbers that is not empty has a least one.
LEMMA LeastNumber ==
  ASSUME NEW N \in SUBSET Nat, N # {}
  PROVE  \E m \in N : \A k \in N : m <= k
  <1> DEFINE R == StrictSubsetOrdering(Nat)
             Upto == {0 .. n : n \in N}
  <1>1. IsWellFoundedOn(R, FiniteSubsetsOf(Nat))
    BY FS_StrictSubsetOrderingWellFounded
  <1>2. Upto \subseteq FiniteSubsetsOf(Nat)
    <2>1. ASSUME NEW n \in Nat PROVE 0 .. n \subseteq Nat /\ IsFiniteSet(0 .. n)
      BY FS_Interval
    <2> QED
      BY <2>1 DEF FiniteSubsetsOf
  <1>3. Upto # {}
    OBVIOUS
  <1> HIDE DEF R
  <1>4. \E x \in Upto : \A y \in Upto : ~(<<y, x>> \in R)
    BY <1>1, <1>2, <1>3, WFMin
  <1>5. PICK m \in N : \A k \in N : ~(<<0 .. k, 0 .. m>> \in R)
    BY <1>4
  <1>6. ASSUME NEW k \in N, k < m
        PROVE  FALSE
    <2>1. k \in Nat /\ m \in Nat
      OBVIOUS
    <2>2. m \in 0 .. m /\ m \notin 0 .. k /\ 0 .. k \subseteq 0 .. m
      BY <1>6, <2>1
    <2>3. 0 .. k # 0 .. m /\ 0 .. k \in SUBSET Nat /\ 0 .. m \in SUBSET Nat
      BY <2>1, <2>2
    <2>4. <<0 .. k, 0 .. m>> \in R
      BY <2>2, <2>3 DEF R, StrictSubsetOrdering
    <2> QED
      BY <1>5, <2>4
  <1>7. \A k \in N : k \in Nat /\ m \in Nat
    OBVIOUS
  <1> QED
    BY <1>6, <1>7

\* A bounded sequence is a sequence that is not longer than the bound.
LEMMA BoundedIs ==
  ASSUME NEW S, NEW n \in Nat
  PROVE  \A s : s \in BoundedSeq(S, n) <=> s \in Seq(S) /\ Len(s) <= n
  <1>1. BoundedSeq(S, n) = UNION {[1 .. m -> S] : m \in 0 .. n}
    BY DEF BoundedSeq, SeqOf
  <1>2. ASSUME NEW m \in 0 .. n, NEW s \in [1 .. m -> S]
        PROVE  s \in Seq(S) /\ Len(s) <= n
    OBVIOUS
  <1>3. ASSUME NEW s \in Seq(S), Len(s) <= n
        PROVE  \E m \in 0 .. n : s \in [1 .. m -> S]
    <2>1. Len(s) \in 0 .. n /\ s \in [1 .. Len(s) -> S]
      BY <1>3
    <2> QED
      BY <2>1
  <1> QED
    BY <1>1, <1>2, <1>3

\* A token's certificates.
LEMMA TokenFacts ==
  ASSUME NEW token \in Token
  PROVE  /\ token.certs \in Seq(Certs \cup {Garbage}) /\ Len(token.certs) <= MaxCerts
         /\ Parses(token) <=> \A j \in 1 .. Len(token.certs) : token.certs[j] # Garbage
         /\ Parses(token) => token.certs \in Seq(Certs)
  <1>1. token.certs \in Seq(Certs \cup {Garbage}) /\ Len(token.certs) <= MaxCerts
    <2>1. token.certs \in BoundedSeq(Certs \cup {Garbage}, MaxCerts)
      BY DEF Token
    <2> QED
      BY <2>1, BoundedIs, ResponseAssumption
  <1>2. Parses(token) <=> \A j \in 1 .. Len(token.certs) : token.certs[j] # Garbage
    <2>1. DOMAIN token.certs = 1 .. Len(token.certs)
      BY <1>1
    <2> QED
      BY <2>1 DEF Parses, ToSet
  <1>3. ASSUME \A j \in 1 .. Len(token.certs) : token.certs[j] # Garbage
        PROVE  token.certs \in Seq(Certs)
    <2>1. \A j \in 1 .. Len(token.certs) : token.certs[j] \in Certs
      BY <1>1, <1>3, SeqFacts
    <2>2. Len(token.certs) \in Nat /\ token.certs = [j \in 1 .. Len(token.certs) |-> token.certs[j]]
      BY <1>1
    <2> QED
      BY <2>1, <2>2
  <1> QED
    BY <1>1, <1>2, <1>3

\* The end of a sequence is one of its suffixes.
LEMMA EndIsSuffix ==
  ASSUME NEW S, NEW t \in Seq(S), NEW s \in Seq(S), Len(s) <= Len(t),
         \A i \in 1 .. Len(s) : s[i] = t[Len(t) - Len(s) + i]
  PROVE  IsSuffix(s, t)
  <1> DEFINE m == Len(s)
             n == Len(t)
             rs == [i \in 1 .. m |-> s[(m - i) + 1]]
             rt == [i \in 1 .. n |-> t[(n - i) + 1]]
  <1>1. m \in Nat /\ n \in Nat /\ m <= n
    OBVIOUS
  <1>2. rs \in [1 .. m -> S] /\ rt \in [1 .. n -> S]
    <2>1. \A i \in 1 .. m : (m - i) + 1 \in 1 .. m
      BY <1>1
    <2>2. \A i \in 1 .. n : (n - i) + 1 \in 1 .. n
      BY <1>1
    <2> QED
      BY <2>1, <2>2, SeqFacts
  <1>3. rs \in Seq(S) /\ Len(rs) = m /\ rt \in Seq(S) /\ Len(rt) = n
    BY <1>1, <1>2
  <1>4. \A i \in 1 .. m : rs[i] = rt[i]
    <2> TAKE i \in 1 .. m
    <2>1. (m - i) + 1 \in 1 .. m /\ n - m + ((m - i) + 1) = (n - i) + 1 /\ i \in 1 .. n
      BY <1>1
    <2>2. s[(m - i) + 1] = t[(n - i) + 1]
      BY <2>1
    <2> QED
      BY <2>1, <2>2
  <1>5. rs = Reverse(s) /\ rt = Reverse(t)
    BY DEF Reverse
  <1> HIDE DEF rs, rt, m, n
  <1>6. SubSeq(rs, 1, m) = SubSeq(rt, 1, m)
    <2>1. SubSeq(rs, 1, m) = [i \in 1 .. m |-> rs[i]] /\ SubSeq(rt, 1, m) = [i \in 1 .. m |-> rt[i]]
      BY <1>1, <1>3
    <2> QED
      BY <1>4, <2>1
  <1> QED
    BY <1>1, <1>3, <1>5, <1>6 DEF IsSuffix, IsPrefix

\* Where the certificates are that came beside the leaf.
LEMMA PlacesFacts ==
  ASSUME sent \in BoundedSeq(Token, MaxTokens)
  PROVE  /\ \A i \in 1 .. Len(sent) : sent[i].pkcs7 =>
              \A j \in 1 .. Len(sent[i].certs) : <<i, j>> \in Places
         /\ \A p \in Places :
              /\ p[1] \in 1 .. Len(sent) /\ sent[p[1]].pkcs7
              /\ p[2] \in 1 .. Len(sent[p[1]].certs)
              /\ p = <<p[1], p[2]>>
         /\ \A c : IsFiniteSet(Placed(c))
  <1>1. sent \in Seq(Token) /\ Len(sent) <= MaxTokens /\ DOMAIN sent = 1 .. Len(sent)
        /\ Len(sent) \in Nat
    BY BoundedIs, ResponseAssumption
  <1>2. \A i \in 1 .. Len(sent) : /\ DOMAIN sent[i].certs = 1 .. Len(sent[i].certs)
                                  /\ Len(sent[i].certs) \in Nat
                                  /\ Len(sent[i].certs) <= MaxCerts
    BY <1>1, SeqFacts, TokenFacts
  <1>3. ASSUME NEW i \in 1 .. Len(sent), sent[i].pkcs7, NEW j \in 1 .. Len(sent[i].certs)
        PROVE  <<i, j>> \in Places
    <2>1. i \in 1 .. MaxTokens /\ j \in 1 .. MaxCerts
      BY <1>1, <1>2, ResponseAssumption
    <2>2. i \in DOMAIN sent /\ j \in DOMAIN sent[i].certs
      BY <1>1, <1>2
    <2> QED
      BY <1>3, <2>1, <2>2 DEF Places
  <1>4. ASSUME NEW p \in Places
        PROVE  /\ p[1] \in 1 .. Len(sent) /\ sent[p[1]].pkcs7
               /\ p[2] \in 1 .. Len(sent[p[1]].certs)
               /\ p = <<p[1], p[2]>>
    <2>1. p \in (1 .. MaxTokens) \X (1 .. MaxCerts)
          /\ p[1] \in DOMAIN sent /\ sent[p[1]].pkcs7 /\ p[2] \in DOMAIN sent[p[1]].certs
      BY DEF Places
    <2> QED
      BY <1>1, <1>2, <2>1
  <1>5. \A c : IsFiniteSet(Placed(c))
    <2>1. IsFiniteSet((1 .. MaxTokens) \X (1 .. MaxCerts))
      <3>1. 1 \in Int /\ MaxTokens \in Int /\ MaxCerts \in Int
        BY ResponseAssumption
      <3>2. IsFiniteSet(1 .. MaxTokens) /\ IsFiniteSet(1 .. MaxCerts)
        BY <3>1, FS_Interval, Zenon
      <3> QED
        BY <3>2, FS_Product, Zenon
    <2>2. \A c : Placed(c) \in SUBSET ((1 .. MaxTokens) \X (1 .. MaxCerts))
      BY DEF Placed, Places
    <2> QED
      BY <2>1, <2>2, FS_Subset
  <1> QED
    BY <1>3, <1>4, <1>5

\* Nothing is counted before anything is looked at.
LEMMA NothingIsCounted ==
  ASSUME sent \in BoundedSeq(Token, MaxTokens), tokens = sent, chain = <<>>
  PROVE  Counted
  <1>1. Opened = 0
    <2>1. Len(sent) \in Nat
      BY BoundedIs, ResponseAssumption
    <2> QED
      BY <2>1 DEF Opened
  <1>2. ASSUME NEW c
        PROVE  Looked(c) = {} /\ InChain(c) = {}
    <2>1. \A p \in Placed(c) : p[1] \in 1 .. Len(sent)
      BY PlacesFacts DEF Placed
    <2>2. \A p \in Placed(c) : ~(p[1] < 0) /\ p[1] # 0
      BY <2>1
    <2>3. Looked(c) = {}
      BY <1>1, <2>2 DEF Looked
    <2>4. DOMAIN chain = {}
      OBVIOUS
    <2> QED
      BY <2>3, <2>4 DEF InChain
  <1> QED
    BY <1>2 DEF Counted

\* Until an answer comes, there is nothing to collect and nothing to account for.
LEMMA BeforeKeeps ==
  ASSUME IInv, UNCHANGED <<config, honest, asked, answer, tokens, certs, chain>>,
         at \in Before, at' \in {"unstarted", "ready", "posted", "unavailable", "refused"},
         PostedAsAsked', at' = "refused" => posted' = Nothing
  PROVE  IInv'
  <1> USE DEF answer
  <1>1. TypeOK'
    BY DEF IInv, TypeOK
  <1>2. NothingYet'
    <2>1. ~honest /\ sent = <<>> /\ certs = <<>> /\ chain = <<>> /\ tokens = sent
      BY DEF IInv, NothingYet
    <2> QED
      BY <2>1 DEF NothingYet, Before
  <1>3. LooksInOrder'
    <2>1. Opened' = Opened
      BY DEF Opened
    <2> QED
      BY <2>1 DEF IInv, LooksInOrder
  <1>4. Counted'
    <2>1. Counted /\ at # "refused"
      BY DEF IInv, Before
    <2>2. \A c : Looked(c)' = Looked(c) /\ InChain(c)' = InChain(c)
      BY DEF Looked, InChain, Placed, Places, Opened
    <2> QED
      BY <2>1, <2>2 DEF Counted
  <1>5. Recognising' /\ Presentable' /\ HonestAnswer'
    BY DEF IInv, NothingYet, Recognising, Presentable, HonestAnswer
  <1>6. ReturnsExactlyUsable'
    BY DEF ReturnsExactlyUsable
  <1> QED
    BY <1>1, <1>2, <1>3, <1>4, <1>5, <1>6 DEF IInv

LEMMA NewKeeps ==
  ASSUME IInv, New
  PROVE  IInv'
  <1>1. PostedAsAsked'
    <2>1. CMCFor(asked)' = CMCFor(asked)
      BY DEF New, CMCFor
    <2> QED
      BY <2>1 DEF IInv, PostedAsAsked, New
  <1> QED
    BY <1>1, BeforeKeeps DEF New, Before

\* A request that is refused is so before there is anything to post.
LEMMA IssueKeeps ==
  ASSUME IInv, Issue
  PROVE  IInv'
  <1>1. CMCFor(asked)' = CMCFor(asked)
    BY DEF Issue, CMCFor
  <1>2. posted = Nothing /\ Accepts(config)
    BY DEF IInv, PostedAsAsked, Issue
  <1>3. Accepts(config)'
    BY <1>2 DEF Issue
  <1>4. CASE CMCFor(asked) # Refused /\ posted' = buildRSTForCMC(CMCFor(asked)) /\ at' = "posted"
    <2>1. posted' # Nothing
      BY <1>4, RequestIsRead DEF IInv, TypeOK
    <2>2. PostedAsAsked'
      BY <1>1, <1>3, <1>4, <2>1 DEF PostedAsAsked
    <2> QED
      BY <1>4, <2>2, BeforeKeeps DEF Issue, Before
  <1>5. CASE CMCFor(asked) = Refused /\ at' = "refused" /\ UNCHANGED posted
    <2>1. PostedAsAsked'
      BY <1>1, <1>2, <1>3, <1>5 DEF PostedAsAsked
    <2> QED
      BY <1>2, <1>5, <2>1, BeforeKeeps DEF Issue, Before
  <1> QED
    BY <1>4, <1>5 DEF Issue

LEMMA IssueFailsKeeps ==
  ASSUME IInv, IssueFails
  PROVE  IInv'
  <1>1. CMCFor(asked)' = CMCFor(asked)
    BY DEF IssueFails, CMCFor
  <1>2. PostedAsAsked'
    BY <1>1 DEF IInv, PostedAsAsked, IssueFails
  <1> QED
    BY <1>2, BeforeKeeps DEF IssueFails, Before

LEMMA SubmitFailsKeeps ==
  ASSUME IInv, SubmitFails
  PROVE  IInv'
  <1>1. CMCFor(asked)' = CMCFor(asked)
    BY DEF SubmitFails, CMCFor
  <1>2. PostedAsAsked'
    BY <1>1 DEF IInv, PostedAsAsked, SubmitFails
  <1> QED
    BY <1>2, BeforeKeeps DEF SubmitFails, Before

\* An answer, whoever gave it.
LEMMA ArrivesKeeps ==
  ASSUME IInv, at = "posted", UNCHANGED <<config, posted>>, honest' \in BOOLEAN,
         NEW e \in Envelope, NEW i \in [x509 : BOOLEAN, cert : Certs \cup {Garbage}],
         NEW s \in BoundedSeq(Token, MaxTokens), Arrives(e, i, s), HonestAnswer'
  PROVE  IInv'
  <1> USE DEF Arrives
  <1>1. certs = <<>> /\ chain = <<>>
    BY DEF IInv, NothingYet, Before
  <1>2. s \in Seq(Token) /\ Len(s) \in Nat
    BY BoundedIs, ResponseAssumption
  <1>3. TypeOK'
    <2>1. IsSuffix(tokens, sent)'
      BY <1>2, EndIsSuffix
    <2>2. chain' \in Seq(Certs \ {issued'.cert})
      BY <1>1
    <2> QED
      BY <1>2, <2>1, <2>2 DEF IInv, TypeOK
  <1>4. PostedAsAsked'
    <2>1. CMCFor(asked)' = CMCFor(asked)
      BY DEF CMCFor
    <2> QED
      BY <2>1 DEF IInv, PostedAsAsked
  <1>5. NothingYet'
    BY <1>1 DEF NothingYet, Before
  <1>6. LooksInOrder'
    <2>1. Opened' = 0
      BY <1>2 DEF Opened
    <2>2. \A k \in 1 .. Len(s) : 0 + k = k
      BY <1>2
    <2> QED
      BY <1>1, <1>2, <2>1, <2>2 DEF LooksInOrder
  <1>7. Counted'
    <2>1. (sent \in BoundedSeq(Token, MaxTokens))' /\ (tokens = sent)' /\ (chain = <<>>)'
      BY <1>1
    <2> QED
      BY <2>1, NothingIsCounted, PTL
  <1>8. Recognising' /\ Presentable' /\ ReturnsExactlyUsable'
    BY DEF Recognising, Presentable, ReturnsExactlyUsable
  <1> QED
    BY <1>3, <1>4, <1>5, <1>6, <1>7, <1>8 DEF IInv

\* The CA resolves the account that was asked for, if there is one.
LEMMA ResolvedIs ==
  ASSUME config \in Config, asked \in Request, CMCFor(asked) # Refused,
         posted = buildRSTForCMC(CMCFor(asked))
  PROVE  /\ Resolved(posted) = IF asked.account \in DOMAIN Directory
                               THEN Directory[asked.account] ELSE NoSID
         /\ asked.account \in DOMAIN Directory => Directory[asked.account] \in SIDs
  <1> DEFINE names == CAReads(posted).accounts
  <1>1. CAReads(posted) # Refused /\ names = {asked.account}
    BY RequestIsRead
  <1>2. names # {} /\ Cardinality(names) = 1
    BY <1>1, FS_Singleton
  <1>3. (CHOOSE n \in names : TRUE) = asked.account
    BY <1>1
  <1>4. names \subseteq DOMAIN Directory <=> asked.account \in DOMAIN Directory
    BY <1>1
  <1>5. Resolved(posted) =
          CASE names = {} -> OwnSID
            [] Cardinality(names) = 1 /\ names \subseteq DOMAIN Directory
                 -> Directory[CHOOSE n \in names : TRUE]
            [] OTHER -> NoSID
    BY <1>1 DEF Resolved
  <1> HIDE DEF names
  <1> QED
    BY <1>2, <1>3, <1>4, <1>5, BackendAssumption

LEMMA HonestCAKeeps ==
  ASSUME IInv, HonestCA
  PROVE  IInv'
  <1> DEFINE sid == Resolved(posted)
  <1>1. at = "posted" /\ honest' = TRUE /\ UNCHANGED <<config, posted>>
    BY DEF HonestCA
  <1>2. posted # Nothing /\ (sid # NoSID => sid \in SIDs)
    <2>1. /\ config \in Config /\ asked \in Request /\ posted # Nothing
          /\ CMCFor(asked) # Refused /\ posted = buildRSTForCMC(CMCFor(asked))
      BY <1>1 DEF IInv, TypeOK, PostedAsAsked
    <2> QED
      BY <2>1, ResolvedIs
  <1>3. Resolved(posted)' = sid
    BY <1>1
  <1> HIDE DEF sid
  <1>4. CASE sid # NoSID
    <2>1. PICK beside \in Chains[LeafFor[sid]] :
            Arrives(Ordinary, [x509 |-> TRUE, cert |-> LeafFor[sid]], beside)
      BY <1>4 DEF HonestCA, sid
    <2>2. beside \in BoundedSeq(Token, MaxTokens)
      BY <1>2, <1>4, BackendAssumption DEF WholeChain
    <2>3. LeafFor[sid] \in Certs /\ Ordinary \in Envelope
      BY <1>2, <1>4, BackendAssumption DEF Ordinary, Envelope
    <2>4. HonestAnswer'
      BY <1>1, <1>2, <1>3, <1>4, <2>1 DEF HonestAnswer, Arrives
    <2> QED
      BY <1>1, <2>1, <2>2, <2>3, <2>4, ArrivesKeeps
  <1>5. CASE sid = NoSID
    <2>1. Arrives([Ordinary EXCEPT !.fault = TRUE], issued, sent)
      BY <1>5 DEF HonestCA, sid
    <2>2. /\ sent \in BoundedSeq(Token, MaxTokens)
          /\ issued \in [x509 : BOOLEAN, cert : Certs \cup {Garbage}]
      BY DEF IInv, LooksInOrder, TypeOK
    <2>3. [Ordinary EXCEPT !.fault = TRUE] \in Envelope
          /\ [Ordinary EXCEPT !.fault = TRUE].fault
      <3>1. Ordinary \in Envelope
        BY DEF Ordinary, Envelope
      <3> QED
        BY <3>1 DEF Envelope
    <2>4. HonestAnswer'
      BY <1>1, <1>2, <1>3, <1>5, <2>1, <2>3 DEF HonestAnswer, Arrives
    <2> QED
      BY <1>1, <2>1, <2>2, <2>3, <2>4, ArrivesKeeps
  <1> QED
    BY <1>4, <1>5

LEMMA AnyAnswerKeeps ==
  ASSUME IInv, AnyAnswer
  PROVE  IInv'
  <1>1. at = "posted" /\ UNCHANGED <<config, posted, honest>> /\ honest = FALSE
    BY DEF AnyAnswer, IInv, NothingYet, Before, TypeOK
  <1>2. PICK e \in Envelope, i \in [x509 : BOOLEAN, cert : Certs \cup {Garbage}] :
          \E s \in IF e = Ordinary THEN BoundedSeq(Token, MaxTokens) ELSE {<<>>} :
            Arrives(e, i, s)
    BY DEF AnyAnswer
  <1>3. PICK s \in IF e = Ordinary THEN BoundedSeq(Token, MaxTokens) ELSE {<<>>} :
          Arrives(e, i, s)
    BY <1>2
  <1>4. s \in BoundedSeq(Token, MaxTokens)
    <2>1. <<>> \in BoundedSeq(Token, MaxTokens)
      BY <1>1 DEF IInv, NothingYet, LooksInOrder, Before, AnyAnswer
    <2> QED
      BY <2>1
  <1>5. HonestAnswer'
    BY <1>1 DEF HonestAnswer
  <1> QED
    BY <1>1, <1>3, <1>4, <1>5, ArrivesKeeps

\* What reading an answer leaves as it is.
LEMMA ReadingLeaves ==
  ASSUME IInv, at \in {"parse", "chain"}, at' \in {"chain", "returned", "refused"},
         UNCHANGED <<config, posted, honest, asked, answer>>
  PROVE  PostedAsAsked' /\ HonestAnswer' /\ NothingYet'
  <1> USE DEF answer
  <1>1. PostedAsAsked'
    <2>1. CMCFor(asked)' = CMCFor(asked)
      BY DEF CMCFor
    <2> QED
      BY <2>1 DEF IInv, PostedAsAsked
  <1>2. HonestAnswer'
    BY DEF IInv, HonestAnswer
  <1>3. NothingYet'
    BY DEF NothingYet, Before
  <1> QED
    BY <1>1, <1>2, <1>3

LEMMA ParseKeeps ==
  ASSUME IInv, Parse, UNCHANGED <<config, posted, honest>>
  PROVE  IInv'
  <1> USE DEF answer
  <1>1. /\ at = "parse" /\ at' \in {"chain", "refused"}
        /\ at' = "chain" <=> envelope = Ordinary /\ issued.x509 /\ issued.cert # Garbage
        /\ UNCHANGED <<asked, envelope, issued, sent, tokens, certs, chain>>
    BY DEF Parse, Recognised
  <1>2. certs = <<>> /\ chain = <<>> /\ tokens = sent /\ sent \in BoundedSeq(Token, MaxTokens)
    BY <1>1 DEF IInv, NothingYet, LooksInOrder
  <1>3. issued.cert \in Certs \cup {Garbage} /\ Garbage \notin Certs
    BY ResponseAssumption DEF IInv, TypeOK
  <1>4. TypeOK'
    BY <1>1 DEF IInv, TypeOK
  <1>5. LooksInOrder'
    <2>1. Opened' = Opened
      BY <1>1 DEF Opened
    <2> QED
      BY <1>1, <2>1 DEF IInv, LooksInOrder
  <1>6. Counted'
    <2>1. (sent \in BoundedSeq(Token, MaxTokens))' /\ (tokens = sent)' /\ (chain = <<>>)'
      BY <1>1, <1>2
    <2> QED
      BY <2>1, NothingIsCounted, PTL
  <1>7. Recognising'
    <2>1. Opened' = 0
      <3>1. Len(sent) \in Nat
        BY <1>2, BoundedIs, ResponseAssumption
      <3> QED
        BY <1>1, <1>2, <3>1 DEF Opened
    <2> QED
      BY <1>1, <1>3, <2>1 DEF Recognising
  <1>8. Presentable'
    BY <1>1 DEF Presentable
  <1>9. ReturnsExactlyUsable'
    BY <1>1, <1>3 DEF ReturnsExactlyUsable, Usable
  <1> QED
    BY <1>1, <1>4, <1>5, <1>6, <1>7, <1>8, <1>9, ReadingLeaves DEF IInv

\* What is left of a sequence without its first element.
LEMMA TailFacts ==
  ASSUME NEW S, NEW s \in Seq(S), s # <<>>
  PROVE  /\ Len(s) \in Nat \ {0}
         /\ Head(s) = s[1] /\ Head(s) \in S
         /\ Tail(s) \in Seq(S)
         /\ Len(Tail(s)) = Len(s) - 1
         /\ \A i \in 1 .. Len(s) - 1 : Tail(s)[i] = s[i + 1]
  OBVIOUS

\* A token that does not parse is one that an answer of use does not hold.
LEMMA GarbageIsBeside ==
  ASSUME sent \in BoundedSeq(Token, MaxTokens), issued.cert \in Certs,
         NEW i \in 1 .. Len(sent), sent[i].pkcs7, ~Parses(sent[i])
  PROVE  Garbage \in SentBeside
  <1>1. sent[i] \in Token
    BY BoundedIs, SeqFacts, ResponseAssumption
  <1>2. PICK j \in 1 .. Len(sent[i].certs) : sent[i].certs[j] = Garbage
    BY <1>1, TokenFacts
  <1>3. <<i, j>> \in Places
    BY PlacesFacts
  <1>4. <<i, j>> \in Placed(Garbage)
    BY <1>2, <1>3 DEF Placed
  <1>5. Garbage # issued.cert
    BY ResponseAssumption
  <1> QED
    BY <1>4, <1>5 DEF SentBeside

LEMMA NextTokenKeeps ==
  ASSUME IInv, NextToken, UNCHANGED <<config, posted, honest>>
  PROVE  IInv'
  <1> USE DEF answer
  <1> DEFINE token == Head(tokens)
             k == Opened + 1
  <1>1. /\ at = "chain" /\ certs = <<>> /\ tokens # <<>> /\ tokens' = Tail(tokens)
        /\ UNCHANGED <<asked, envelope, issued, sent, chain>>
    BY DEF NextToken
  <1>2. /\ at' = "chain" => /\ token.pkcs7 => Parses(token)
                            /\ certs' = IF token.pkcs7 THEN token.certs ELSE <<>>
        /\ at' = "refused" => token.pkcs7 /\ ~Parses(token) /\ certs' = <<>>
        /\ at' \in {"chain", "refused"}
    BY <1>1 DEF NextToken
  <1>3. /\ tokens \in Seq(Token) /\ sent \in Seq(Token) /\ sent \in BoundedSeq(Token, MaxTokens)
        /\ Len(sent) \in Nat /\ Opened \in 0 .. Len(sent)
        /\ \A i \in 1 .. Len(tokens) : tokens[i] = sent[Opened + i]
    BY BoundedIs, ResponseAssumption DEF IInv, TypeOK, LooksInOrder
  <1>4. /\ Len(tokens) \in Nat \ {0} /\ token = tokens[1] /\ token \in Token
        /\ tokens' \in Seq(Token) /\ Len(tokens') = Len(tokens) - 1
        /\ \A i \in 1 .. Len(tokens) - 1 : tokens'[i] = tokens[i + 1]
    BY <1>1, <1>3, TailFacts
  <1>5. Opened = Len(sent) - Len(tokens) /\ Opened' = Len(sent) - Len(tokens')
    BY <1>1 DEF Opened
  <1>6. Opened \in Nat /\ k \in 1 .. Len(sent) /\ Opened' = k /\ token = sent[k]
    BY <1>3, <1>4, <1>5
  <1>7. sent[k].certs \in Seq(Certs \cup {Garbage}) /\ Len(sent[k].certs) \in Nat
    BY <1>4, <1>6, TokenFacts
  <1> HIDE DEF token
  <1>8. LooksInOrder'
    <2>1. Opened' \in 0 .. Len(sent)
      BY <1>6
    <2>2. \A i \in 1 .. Len(tokens') : tokens'[i] = sent[k + i]
      <3> TAKE i \in 1 .. Len(tokens')
      <3>1. i \in 1 .. Len(tokens) - 1 /\ i + 1 \in 1 .. Len(tokens) /\ Opened + (i + 1) = k + i
        BY <1>4, <1>6
      <3> QED
        BY <1>3, <1>4, <3>1
    <2>3. ASSUME certs' # <<>>
          PROVE  /\ k \in DOMAIN sent /\ sent[k].pkcs7
                 /\ Len(certs') <= Len(sent[k].certs)
                 /\ \A j \in 1 .. Len(certs') :
                      certs'[j] = sent[k].certs[Len(sent[k].certs) - Len(certs') + j]
      <3>1. certs' = sent[k].certs /\ sent[k].pkcs7
        BY <1>2, <1>6, <2>3
      <3>2. \A j \in 1 .. Len(certs') : Len(sent[k].certs) - Len(certs') + j = j
        BY <1>7, <3>1
      <3>3. k \in DOMAIN sent
        BY <1>3, <1>6
      <3> QED
        BY <1>7, <3>1, <3>2, <3>3
    <2> QED
      BY <1>1, <1>3, <1>6, <2>1, <2>2, <2>3 DEF LooksInOrder
  <1>9. TypeOK'
    <2>1. certs' \in Seq(Certs)
      <3>1. <<>> \in Seq(Certs)
        OBVIOUS
      <3> QED
        BY <1>2, <1>4, <3>1, TokenFacts
    <2>2. IsSuffix(tokens, sent)'
      <3>1. Len(tokens') <= Len(sent)
        BY <1>3, <1>4, <1>5
      <3>2. \A i \in 1 .. Len(tokens') : tokens'[i] = sent[Len(sent) - Len(tokens') + i]
        BY <1>1, <1>5, <1>8 DEF LooksInOrder
      <3> QED
        BY <1>1, <1>3, <1>4, <3>1, <3>2, EndIsSuffix
    <2> QED
      BY <1>1, <1>2, <1>4, <2>1, <2>2 DEF IInv, TypeOK
  <1>10. ASSUME at' = "chain"
         PROVE  Counted'
    <2>1. ASSUME NEW c
          PROVE  Looked(c)' = Looked(c)
      <3>1. Placed(c)' = Placed(c)
        BY <1>1 DEF Placed, Places
      <3>2. ASSUME NEW p \in Placed(c)
            PROVE  (\/ p[1] < Opened
                    \/ p[1] = Opened /\ p[2] <= Len(sent[p[1]].certs) - Len(certs))
                   <=> (\/ p[1] < k
                        \/ p[1] = k /\ p[2] <= Len(sent[p[1]].certs) - Len(certs'))
        <4>1. /\ p[1] \in 1 .. Len(sent) /\ sent[p[1]].pkcs7
              /\ p[2] \in 1 .. Len(sent[p[1]].certs)
          BY <1>3, PlacesFacts DEF Placed
        <4>2. Len(sent[p[1]].certs) \in Nat
          BY <1>3, <4>1, SeqFacts, TokenFacts
        <4>3. Len(certs) = 0
          BY <1>1
        <4>4. CASE p[1] = k
          <5>1. certs' = sent[k].certs
            BY <1>2, <1>6, <1>10, <4>1, <4>4
          <5> QED
            BY <1>6, <4>1, <4>2, <4>4, <5>1
        <4>5. CASE p[1] # k
          <5>1. Len(sent[p[1]].certs) - 0 = Len(sent[p[1]].certs)
            BY <4>2
          <5> QED
            BY <1>6, <4>1, <4>2, <4>3, <4>5, <5>1
        <4> QED
          BY <4>4, <4>5
      <3>3. Looked(c)' = {p \in Placed(c) :
                            \/ p[1] < k
                            \/ p[1] = k /\ p[2] <= Len(sent[p[1]].certs) - Len(certs')}
        BY <1>1, <1>6, <3>1 DEF Looked
      <3> QED
        BY <3>2, <3>3 DEF Looked
    <2>2. \A c : InChain(c)' = InChain(c)
      BY <1>1 DEF InChain
    <2> QED
      BY <1>1, <2>1, <2>2 DEF IInv, Counted
  <1>11. Counted'
    BY <1>2, <1>10 DEF Counted
  <1>12. Recognising'
    <2>1. ASSUME at' = "chain", NEW i \in 1 .. k, sent[i].pkcs7
          PROVE  Parses(sent[i])
      <3>1. CASE i = k
        BY <1>2, <1>6, <2>1, <3>1
      <3>2. CASE i # k
        <4>1. i \in 1 .. Opened
          BY <1>6, <3>2
        <4> QED
          BY <1>1, <2>1, <4>1 DEF IInv, Recognising
      <3> QED
        BY <3>1, <3>2
    <2>2. envelope = Ordinary /\ issued.x509 /\ issued.cert \in Certs
      BY <1>1 DEF IInv, Recognising
    <2> QED
      BY <1>1, <1>2, <1>6, <2>1, <2>2 DEF Recognising, Parses
  <1>13. ReturnsExactlyUsable'
    <2>1. ASSUME at' = "refused"
          PROVE  ~Usable'
      <3>1. sent[k].pkcs7 /\ ~Parses(sent[k]) /\ issued.cert \in Certs
        BY <1>1, <1>2, <1>6, <2>1 DEF IInv, Recognising
      <3>2. Garbage \in SentBeside
        BY <1>3, <1>6, <3>1, GarbageIsBeside
      <3>3. SentBeside' = SentBeside
        BY <1>1 DEF SentBeside, Placed, Places
      <3> QED
        BY <3>2, <3>3 DEF Usable
    <2> QED
      BY <1>2, <2>1 DEF ReturnsExactlyUsable
  <1>14. Presentable'
    BY <1>2 DEF Presentable
  <1> QED
    BY <1>1, <1>2, <1>8, <1>9, <1>11, <1>12, <1>13, <1>14, ReadingLeaves DEF IInv

\* An element more at the end.
LEMMA AppendFacts ==
  ASSUME NEW S, NEW s \in Seq(S), NEW x \in S
  PROVE  /\ Append(s, x) \in Seq(S)
         /\ DOMAIN Append(s, x) = DOMAIN s \cup {Len(s) + 1}
         /\ Len(s) + 1 \notin DOMAIN s
         /\ \A i \in DOMAIN s : Append(s, x)[i] = s[i]
         /\ Append(s, x)[Len(s) + 1] = x
  <1>1. Len(s) \in Nat /\ DOMAIN s = 1 .. Len(s)
    OBVIOUS
  <1>2. /\ Append(s, x) \in Seq(S) /\ DOMAIN Append(s, x) = 1 .. Len(s) + 1
        /\ \A i \in 1 .. Len(s) : Append(s, x)[i] = s[i]
        /\ Append(s, x)[Len(s) + 1] = x
    OBVIOUS
  <1> QED
    BY <1>1, <1>2

\* One turn of the loop looks at one place.
LEMMA NextCertificateKeeps ==
  ASSUME IInv, NextCertificate, UNCHANGED <<config, posted, honest>>
  PROVE  IInv'
  <1> USE DEF answer
  <1> DEFINE x == Head(certs)
             n == Len(certs)
             L == Len(sent[Opened].certs)
             q == <<Opened, L - n + 1>>
  <1>1. /\ at = "chain" /\ certs # <<>> /\ certs' = Tail(certs)
        /\ chain' = IF x = issued.cert THEN chain ELSE Append(chain, x)
        /\ UNCHANGED <<asked, envelope, issued, sent, tokens, at>>
    BY DEF NextCertificate
  <1>2. /\ sent \in BoundedSeq(Token, MaxTokens) /\ sent \in Seq(Token)
        /\ Len(sent) \in Nat /\ DOMAIN sent = 1 .. Len(sent)
        /\ Opened \in 1 .. Len(sent) /\ sent[Opened].pkcs7
        /\ n <= L
        /\ \A j \in 1 .. n : certs[j] = sent[Opened].certs[L - n + j]
    BY <1>1, BoundedIs, ResponseAssumption DEF IInv, LooksInOrder
  <1>3. certs \in Seq(Certs) /\ chain \in Seq(Certs \ {issued.cert})
    BY DEF IInv, TypeOK
  <1>4. /\ n \in Nat \ {0} /\ x = certs[1] /\ x \in Certs
        /\ certs' \in Seq(Certs) /\ Len(certs') = n - 1
        /\ \A j \in 1 .. n - 1 : certs'[j] = certs[j + 1]
    BY <1>1, <1>3, TailFacts
  <1>5. L \in Nat
    BY <1>2, SeqFacts, TokenFacts
  <1>6. Opened' = Opened
    BY <1>1 DEF Opened
  <1>7. L - n + 1 \in 1 .. L /\ x = sent[Opened].certs[L - n + 1]
    BY <1>2, <1>4, <1>5
  <1> HIDE DEF x, n, L
  <1>8. q \in Placed(x)
    <2>1. q \in Places
      BY <1>2, <1>7, PlacesFacts DEF L
    <2> QED
      BY <1>7, <2>1 DEF Placed
  <1>9. LooksInOrder'
    <2>1. \A j \in 1 .. Len(certs') : certs'[j] = sent[Opened].certs[L - Len(certs') + j]
      <3> TAKE j \in 1 .. Len(certs')
      <3>1. j \in 1 .. n - 1 /\ j + 1 \in 1 .. n /\ L - n + (j + 1) = L - Len(certs') + j
        BY <1>4, <1>5
      <3> QED
        BY <1>2, <1>4, <3>1
    <2>2. Len(certs') <= L
      BY <1>2, <1>4, <1>5
    <2> QED
      BY <1>1, <1>2, <1>6, <2>1, <2>2 DEF IInv, LooksInOrder, L
  <1>10. chain' \in Seq(Certs \ {issued.cert})
    BY <1>1, <1>3, <1>4, AppendFacts
  <1>11. TypeOK'
    BY <1>1, <1>4, <1>10 DEF IInv, TypeOK
  <1>12. ASSUME NEW c \in Certs, c # issued.cert
         PROVE  Cardinality(InChain(c))' = Cardinality(Looked(c))'
    <2>1. Cardinality(InChain(c)) = Cardinality(Looked(c))
      BY <1>1, <1>12 DEF IInv, Counted
    <2>2. Placed(c)' = Placed(c)
      BY <1>1 DEF Placed, Places
    <2>3. Looked(c) \subseteq Placed(c) /\ IsFiniteSet(Looked(c))
      <3>1. Looked(c) \in SUBSET Placed(c)
        BY DEF Looked
      <3> QED
        BY <1>2, <3>1, PlacesFacts, FS_Subset
    <2>4. IsFiniteSet(InChain(c))
      <3>1. InChain(c) \in SUBSET (1 .. Len(chain)) /\ 1 \in Int /\ Len(chain) \in Int
        BY <1>3 DEF InChain
      <3>2. IsFiniteSet(1 .. Len(chain))
        BY <3>1, FS_Interval, Zenon
      <3> QED
        BY <3>1, <3>2, FS_Subset, Zenon
    <2>5. Looked(c)' = {p \in Placed(c) :
                          \/ p[1] < Opened
                          \/ p[1] = Opened /\ p[2] <= Len(sent[p[1]].certs) - (n - 1)}
      BY <1>1, <1>4, <1>6, <2>2 DEF Looked
    <2>6. ASSUME NEW p \in Placed(c)
          PROVE  /\ p \in Looked(c)' <=> p \in Looked(c) \/ p = q
                 /\ p = q => c = x
      <3>1. /\ p[1] \in 1 .. Len(sent) /\ p[2] \in Nat /\ p = <<p[1], p[2]>>
            /\ sent[p[1]].certs[p[2]] = c
        <4>1. p \in Places /\ sent[p[1]].certs[p[2]] = c
          BY DEF Placed
        <4>2. /\ p[1] \in 1 .. Len(sent) /\ p = <<p[1], p[2]>>
              /\ p[2] \in 1 .. Len(sent[p[1]].certs)
          BY <1>2, <4>1, PlacesFacts
        <4> QED
          BY <4>1, <4>2
      <3>2. p = q <=> p[1] = Opened /\ p[2] = L - n + 1
        BY <3>1
      <3>3. p = q => c = x
        BY <1>7, <3>1, <3>2
      <3>4. p \in Looked(c) <=> \/ p[1] < Opened
                                \/ p[1] = Opened /\ p[2] <= L - n
        BY DEF Looked, L, n
      <3>5. p \in Looked(c)' <=> \/ p[1] < Opened
                                 \/ p[1] = Opened /\ p[2] <= L - (n - 1)
        BY <2>5 DEF L
      <3>6. p[2] <= L - (n - 1) <=> p[2] <= L - n \/ p[2] = L - n + 1
        BY <1>4, <1>5, <3>1
      <3> HIDE DEF q
      <3>7. p[1] = Opened => ~(p[1] < Opened)
        BY <1>2, <3>1
      <3> QED
        BY <3>2, <3>3, <3>4, <3>5, <3>6
    <2>7. q \notin Looked(c)
      <3>1. ~(Opened < Opened) /\ ~(L - n + 1 <= L - n)
        BY <1>2, <1>4, <1>5
      <3> QED
        BY <3>1 DEF Looked, L, n
    <2>8. Looked(c)' \subseteq Placed(c)
      BY <2>5
    <2>9. CASE c = x
      <3>1. Looked(c)' = Looked(c) \cup {q}
        <4> HIDE DEF q
        <4> QED
          BY <1>8, <2>3, <2>6, <2>8, <2>9
      <3>2. InChain(c)' = InChain(c) \cup {Len(chain) + 1} /\ Len(chain) + 1 \notin InChain(c)
        <4>1. chain' = Append(chain, x) /\ x \in Certs \ {issued.cert}
          BY <1>1, <1>4, <1>12, <2>9
        <4>2. /\ DOMAIN chain' = DOMAIN chain \cup {Len(chain) + 1}
              /\ Len(chain) + 1 \notin DOMAIN chain
              /\ \A i \in DOMAIN chain : chain'[i] = chain[i]
              /\ chain'[Len(chain) + 1] = x
          BY <1>3, <4>1, AppendFacts
        <4> QED
          BY <2>9, <4>2 DEF InChain
      <3>3. Cardinality(Looked(c) \cup {q}) = Cardinality(Looked(c)) + 1
        BY <2>3, <2>7, FS_AddElement
      <3>4. Cardinality(InChain(c) \cup {Len(chain) + 1}) = Cardinality(InChain(c)) + 1
        BY <2>4, <3>2, FS_AddElement
      <3> QED
        BY <2>1, <3>1, <3>2, <3>3, <3>4
    <2>10. CASE c # x
      <3>1. Looked(c)' = Looked(c)
        BY <2>3, <2>6, <2>8, <2>10
      <3>2. InChain(c)' = InChain(c)
        <4>1. CASE chain' = chain
          BY <4>1 DEF InChain
        <4>2. CASE chain' = Append(chain, x) /\ x \in Certs \ {issued.cert}
          <5>1. /\ DOMAIN chain' = DOMAIN chain \cup {Len(chain) + 1}
                /\ Len(chain) + 1 \notin DOMAIN chain
                /\ \A i \in DOMAIN chain : chain'[i] = chain[i]
                /\ chain'[Len(chain) + 1] = x
            BY <1>3, <4>2, AppendFacts
          <5> QED
            BY <2>10, <5>1 DEF InChain
        <4> QED
          BY <1>1, <1>4, <4>1, <4>2
      <3> QED
        BY <2>1, <3>1, <3>2
    <2> QED
      BY <2>9, <2>10
  <1>13. Counted'
    BY <1>1, <1>12 DEF Counted
  <1>14. Recognising'
    BY <1>1, <1>6 DEF IInv, Recognising
  <1>15. Presentable' /\ ReturnsExactlyUsable'
    BY <1>1 DEF Presentable, ReturnsExactlyUsable
  <1> QED
    BY <1>1, <1>9, <1>11, <1>13, <1>14, <1>15, ReadingLeaves DEF IInv

\* Two elements that change places are as many as they were.
LEMMA SwapFacts ==
  ASSUME NEW S, chain \in Seq(S), NEW m \in DOMAIN chain,
         chain' = [chain EXCEPT ![1] = chain[m], ![m] = chain[1]]
  PROVE  /\ chain' \in Seq(S) /\ chain' # <<>>
         /\ chain'[1] = chain[m]
         /\ \A c : Cardinality(InChain(c)') = Cardinality(InChain(c))
  <1> DEFINE Over(i) == IF i = 1 THEN m ELSE IF i = m THEN 1 ELSE i
  <1>1. /\ Len(chain) \in Nat /\ DOMAIN chain = 1 .. Len(chain)
        /\ m \in 1 .. Len(chain) /\ 1 \in 1 .. Len(chain)
        /\ chain \in [1 .. Len(chain) -> S]
    OBVIOUS
  <1>2. DOMAIN chain' = DOMAIN chain
    OBVIOUS
  <1>3. \A i \in DOMAIN chain : chain'[i] = chain[Over(i)]
    BY <1>1
  <1>4. \A i \in DOMAIN chain : Over(i) \in DOMAIN chain /\ Over(Over(i)) = i
    BY <1>1
  <1>5. chain' \in Seq(S) /\ chain' # <<>>
    <2>1. chain' \in [1 .. Len(chain) -> S]
      BY <1>1
    <2>2. DOMAIN chain' # {}
      BY <1>1, <1>2
    <2>3. chain' \in Seq(S)
      BY <1>1, <2>1
    <2> QED
      BY <2>2, <2>3
  <1>6. chain'[1] = chain[m]
    BY <1>1, <1>3
  <1> HIDE DEF Over
  <1>7. ASSUME NEW c
        PROVE  Cardinality(InChain(c)') = Cardinality(InChain(c))
    <2> DEFINE A == {i \in DOMAIN chain : chain[i] = c}
               B == {i \in DOMAIN chain' : chain'[i] = c}
               f == [i \in A |-> Over(i)]
    <2>1. f \in [A -> B]
      <3>1. ASSUME NEW i \in A
            PROVE  Over(i) \in B
        <4>1. Over(i) \in DOMAIN chain /\ chain'[Over(i)] = chain[Over(Over(i))]
          BY <1>3, <1>4
        <4> QED
          BY <1>2, <1>4, <4>1
      <3> QED
        BY <3>1
    <2>2. \A a, b \in A : f[a] = f[b] => a = b
      BY <1>4
    <2>3. ASSUME NEW b \in B
          PROVE  \E a \in A : f[a] = b
      <3>1. b \in DOMAIN chain /\ chain[Over(b)] = c
        BY <1>2, <1>3
      <3>2. Over(b) \in A /\ f[Over(b)] = b
        BY <1>4, <3>1
      <3> QED
        BY <3>2
    <2>4. IsFiniteSet(A)
      <3>1. A \in SUBSET (1 .. Len(chain)) /\ 1 \in Int /\ Len(chain) \in Int
        BY <1>1
      <3>2. IsFiniteSet(1 .. Len(chain))
        BY <3>1, FS_Interval, Zenon
      <3> QED
        BY <3>1, <3>2, FS_Subset, Zenon
    <2> HIDE DEF A, B, f
    <2>5. f \in Bijection(A, B)
      BY <2>1, <2>2, <2>3, Fun_IsBij
    <2>6. Cardinality(B) = Cardinality(A)
      BY <2>4, <2>5, FS_Bijection DEF ExistsBijection
    <2> QED
      BY <2>6 DEF A, B, InChain
  <1> QED
    BY <1>5, <1>6, <1>7

\* At the end every place was looked at.
LEMMA AllIsLooked ==
  ASSUME IInv, tokens = <<>>, certs = <<>>
  PROVE  /\ Opened = Len(sent)
         /\ \A c : Looked(c) = Placed(c)
  <1>1. sent \in BoundedSeq(Token, MaxTokens) /\ sent \in Seq(Token) /\ Len(sent) \in Nat
    BY BoundedIs, ResponseAssumption DEF IInv, LooksInOrder
  <1>2. Opened = Len(sent)
    BY <1>1 DEF Opened
  <1>3. ASSUME NEW c, NEW p \in Placed(c)
        PROVE  p \in Looked(c)
    <2>1. p[1] \in 1 .. Len(sent) /\ p[2] \in 1 .. Len(sent[p[1]].certs)
      BY <1>1, PlacesFacts DEF Placed
    <2>2. Len(sent[p[1]].certs) \in Nat
      BY <1>1, <2>1, SeqFacts, TokenFacts
    <2>3. p[1] < Len(sent) \/ (p[1] = Len(sent) /\ p[2] <= Len(sent[p[1]].certs) - Len(certs))
      BY <1>1, <2>1, <2>2
    <2> QED
      BY <1>2, <2>3 DEF Looked
  <1>4. ASSUME NEW c
        PROVE  Looked(c) = Placed(c)
    <2>1. Looked(c) \subseteq Placed(c)
      BY DEF Looked
    <2>2. Placed(c) \subseteq Looked(c)
      BY <1>3
    <2> QED
      BY <2>1, <2>2
  <1> QED
    BY <1>2, <1>4

LEMMA VerifyKeeps ==
  ASSUME IInv, Verify, UNCHANGED <<config, posted, honest>>
  PROVE  IInv'
  <1> USE DEF answer
  <1>1. /\ at = "chain" /\ certs = <<>> /\ tokens = <<>>
        /\ UNCHANGED <<asked, envelope, issued, sent, tokens, certs>>
        /\ at' \in {"returned", "refused"}
    BY DEF Verify
  <1>2. /\ envelope = Ordinary /\ issued.x509 /\ issued.cert \in Certs
        /\ \A i \in 1 .. Opened : sent[i].pkcs7 => Parses(sent[i])
    BY <1>1 DEF IInv, Recognising
  <1>3. chain \in Seq(Certs \ {issued.cert}) /\ Len(chain) \in Nat /\ DOMAIN chain = 1 .. Len(chain)
    BY DEF IInv, TypeOK
  <1>4. Opened = Len(sent) /\ Opened' = Opened /\ \A c : Looked(c) = Placed(c)
    BY <1>1, AllIsLooked DEF Opened
  <1>5. \A c : Looked(c)' = Looked(c) /\ Placed(c)' = Placed(c)
    BY <1>1, <1>4 DEF Looked, Placed, Places
  <1>6. sent \in BoundedSeq(Token, MaxTokens)
    BY DEF IInv, LooksInOrder
  <1>7. ASSUME NEW c \in Certs, c # issued.cert
        PROVE  c \in SentBeside <=> \E i \in DOMAIN chain : chain[i] = c
    <2>1. Cardinality(InChain(c)) = Cardinality(Placed(c))
      BY <1>1, <1>4, <1>7 DEF IInv, Counted
    <2>2. IsFiniteSet(Placed(c))
      BY <1>6, PlacesFacts
    <2>3. IsFiniteSet(InChain(c))
      <3>1. InChain(c) \in SUBSET (1 .. Len(chain)) /\ 1 \in Int /\ Len(chain) \in Int
        BY <1>3 DEF InChain
      <3>2. IsFiniteSet(1 .. Len(chain))
        BY <3>1, FS_Interval, Zenon
      <3> QED
        BY <3>1, <3>2, FS_Subset, Zenon
    <2>4. Placed(c) # {} <=> InChain(c) # {}
      BY <2>1, <2>2, <2>3, FS_EmptySet
    <2> QED
      BY <1>7, <2>4 DEF SentBeside, InChain
  <1>8. Garbage \notin SentBeside
    <2>1. ASSUME NEW p \in Placed(Garbage)
          PROVE  FALSE
      <3>1. /\ p[1] \in 1 .. Len(sent) /\ sent[p[1]].pkcs7
            /\ p[2] \in 1 .. Len(sent[p[1]].certs)
            /\ sent[p[1]].certs[p[2]] = Garbage
        BY <1>6, PlacesFacts DEF Placed
      <3>2. Parses(sent[p[1]]) /\ sent[p[1]] \in Token
        BY <1>2, <1>4, <1>6, <3>1, BoundedIs, SeqFacts, ResponseAssumption
      <3> QED
        BY <3>1, <3>2, TokenFacts
    <2> QED
      BY <2>1 DEF SentBeside
  <1>9. IssuerAt # {} <=> SentBeside \cap SignedBy[issued.cert] # {}
    <2>1. SignedBy[issued.cert] \subseteq Certs
      BY <1>2, ResponseAssumption
    <2>2. \A i \in DOMAIN chain : chain[i] \in Certs /\ chain[i] # issued.cert
      BY <1>3, SeqFacts
    <2>3. ASSUME IssuerAt # {}
          PROVE  SentBeside \cap SignedBy[issued.cert] # {}
      <3>1. PICK i \in DOMAIN chain : chain[i] \in SignedBy[issued.cert]
        BY <2>3 DEF IssuerAt
      <3> QED
        BY <1>7, <2>2, <3>1
    <2>4. ASSUME SentBeside \cap SignedBy[issued.cert] # {}
          PROVE  IssuerAt # {}
      <3>1. PICK c \in SentBeside : c \in SignedBy[issued.cert]
        BY <2>4
      <3>2. c # issued.cert /\ c \in Certs
        BY <2>1, <3>1 DEF SentBeside
      <3> QED
        BY <1>7, <3>1, <3>2 DEF IssuerAt
    <2> QED
      BY <2>3, <2>4
  <1>10. Usable <=> NamesTarget /\ IssuerAt # {}
    BY <1>2, <1>8, <1>9 DEF Usable, NamesTarget
  <1>11. Usable' <=> Usable
    <2>1. SentBeside' = SentBeside
      BY <1>1, <1>5 DEF SentBeside
    <2> QED
      BY <1>1, <2>1 DEF Usable
  <1>12. LooksInOrder'
    BY <1>1, <1>4 DEF IInv, LooksInOrder
  <1>13. CASE /\ NamesTarget /\ IssuerAt # {} /\ at' = "returned"
              /\ chain' = IssuerToFront(CHOOSE i \in IssuerAt : \A j \in IssuerAt : i <= j)
    <2> DEFINE m == CHOOSE i \in IssuerAt : \A j \in IssuerAt : i <= j
    <2>1. m \in IssuerAt
      <3>1. IssuerAt \in SUBSET Nat
        BY <1>3 DEF IssuerAt
      <3>2. \E i \in IssuerAt : \A j \in IssuerAt : i <= j
        BY <1>13, <3>1, LeastNumber
      <3> QED
        BY <3>2
    <2>2. chain' = [chain EXCEPT ![1] = chain[m], ![m] = chain[1]]
      BY <1>13 DEF IssuerToFront
    <2> HIDE DEF m
    <2>3. m \in DOMAIN chain /\ chain[m] \in SignedBy[issued.cert]
      BY <2>1 DEF IssuerAt
    <2>4. /\ chain' \in Seq(Certs \ {issued.cert}) /\ chain' # <<>> /\ chain'[1] = chain[m]
          /\ \A c : Cardinality(InChain(c)') = Cardinality(InChain(c))
      BY <1>3, <2>2, <2>3, SwapFacts
    <2>5. TypeOK'
      BY <1>1, <2>4 DEF IInv, TypeOK
    <2>6. Counted'
      BY <1>1, <1>5, <2>4 DEF IInv, Counted
    <2>7. Recognising'
      BY <1>1, <1>2, <1>4 DEF Recognising
    <2>8. Presentable'
      BY <1>1, <1>13, <2>3, <2>4 DEF Presentable, NamesTarget
    <2>9. ReturnsExactlyUsable'
      BY <1>10, <1>11, <1>13 DEF ReturnsExactlyUsable
    <2> QED
      BY <1>1, <1>12, <2>5, <2>6, <2>7, <2>8, <2>9, ReadingLeaves DEF IInv
  <1>14. CASE ~(NamesTarget /\ IssuerAt # {}) /\ at' = "refused" /\ UNCHANGED chain
    <2>1. TypeOK'
      BY <1>1, <1>14 DEF IInv, TypeOK
    <2>2. Counted' /\ Recognising' /\ Presentable'
      BY <1>14 DEF Counted, Recognising, Presentable
    <2>3. ReturnsExactlyUsable'
      BY <1>10, <1>11, <1>14 DEF ReturnsExactlyUsable
    <2> QED
      BY <1>1, <1>12, <2>1, <2>2, <2>3, ReadingLeaves DEF IInv
  <1> QED
    BY <1>13, <1>14 DEF Verify
-----------------------------------------------------------------------------
\* The backend's own variables, and what was posted, account for every answer it
\* gives.
THEOREM Invariance == Spec => []IInv
  <1>1. Init => IInv
    <2> SUFFICES ASSUME Init
                 PROVE  IInv
      OBVIOUS
    <2> USE DEF Init, NoAnswer
    <2>1. PICK input \in Inputs : config = input.config /\ asked = input.request
      OBVIOUS
    <2>2. config \in Config /\ asked \in Request
      BY <2>1, BackendAssumption
    <2>3. sent \in BoundedSeq(Token, MaxTokens) /\ sent \in Seq(Token) /\ Len(sent) = 0
      <3>1. <<>> \in Seq(Token) /\ Len(<<>>) = 0
        OBVIOUS
      <3>2. sent \in Seq(Token) /\ Len(sent) = 0
        BY <3>1
      <3>3. Len(sent) <= MaxTokens
        BY <3>2, ResponseAssumption
      <3> QED
        BY <3>2, <3>3, BoundedIs, ResponseAssumption
    <2>4. Opened = 0 /\ tokens = sent /\ certs = <<>> /\ chain = <<>>
      BY <2>3 DEF Opened
    <2>5. TypeOK
      <3>1. tokens \in Seq(Token) /\ IsSuffix(tokens, sent)
        <4>1. tokens \in Seq(Token) /\ Len(tokens) = 0
          BY <2>3, <2>4
        <4>2. Len(tokens) <= Len(sent)
              /\ \A i \in 1 .. Len(tokens) : tokens[i] = sent[Len(sent) - Len(tokens) + i]
          BY <2>3, <4>1
        <4> QED
          BY <2>3, <4>1, <4>2, EndIsSuffix
      <3>2. Ordinary \in Envelope
        BY DEF Ordinary, Envelope
      <3>3. certs \in Seq(Certs) /\ chain \in Seq(Certs \ {issued.cert})
        BY <2>4
      <3> QED
        BY <2>2, <3>1, <3>2, <3>3 DEF TypeOK
    <2>6. PostedAsAsked /\ NothingYet
      BY <2>4 DEF PostedAsAsked, NothingYet, Before
    <2>7. LooksInOrder
      BY <2>3, <2>4 DEF LooksInOrder
    <2>8. Counted
      BY <2>3, <2>4, NothingIsCounted
    <2>9. Recognising /\ Presentable /\ HonestAnswer /\ ReturnsExactlyUsable
      BY DEF Recognising, Presentable, HonestAnswer, ReturnsExactlyUsable
    <2> QED
      BY <2>5, <2>6, <2>7, <2>8, <2>9 DEF IInv
  <1>2. IInv /\ [Next]_vars => IInv'
    <2> SUFFICES ASSUME IInv, [Next]_vars
                 PROVE  IInv'
      OBVIOUS
    <2>1. CASE Receiving /\ UNCHANGED <<config, posted, honest>>
      BY <2>1, ParseKeeps, NextTokenKeeps, NextCertificateKeeps, VerifyKeeps DEF Receiving
    <2>2. CASE UNCHANGED vars
      <3>1. UNCHANGED <<config, posted, honest, asked, envelope, issued, tokens, certs,
                        sent, at, chain>>
        BY <2>2 DEF vars
      <3>2. TypeOK' /\ NothingYet'
        BY <3>1 DEF IInv, TypeOK, NothingYet
      <3>3. PostedAsAsked'
        <4>1. CMCFor(asked)' = CMCFor(asked)
          BY <3>1 DEF CMCFor
        <4> QED
          BY <3>1, <4>1 DEF IInv, PostedAsAsked
      <3>4. Opened' = Opened
        BY <3>1 DEF Opened
      <3>5. LooksInOrder'
        BY <3>1, <3>4 DEF IInv, LooksInOrder
      <3>6. Counted'
        <4>1. \A c : Looked(c)' = Looked(c) /\ InChain(c)' = InChain(c)
          BY <3>1, <3>4 DEF Looked, InChain, Placed, Places
        <4> QED
          BY <3>1, <4>1 DEF IInv, Counted
      <3>7. Recognising' /\ Presentable' /\ HonestAnswer'
        BY <3>1, <3>4 DEF IInv, Recognising, Presentable, HonestAnswer
      <3>8. ReturnsExactlyUsable'
        <4>1. SentBeside' = SentBeside
          BY <3>1 DEF SentBeside, Placed, Places
        <4> QED
          BY <3>1, <4>1 DEF IInv, ReturnsExactlyUsable, Usable
      <3> QED
        BY <3>2, <3>3, <3>5, <3>6, <3>7, <3>8 DEF IInv
    <2> QED
      BY <2>1, <2>2, NewKeeps, IssueKeeps, IssueFailsKeeps, SubmitFailsKeeps, HonestCAKeeps,
         AnyAnswerKeeps DEF Next
  <1> QED
    BY <1>1, <1>2, PTL DEF Spec

\* Every variable has its type: a chain holds certificates, never what did not
\* parse and never the leaf, and what is to look at is the end of what was sent.
THEOREM TypeCorrect == Spec => []TypeOK
  <1>1. IInv => TypeOK
    BY DEF IInv
  <1> QED
    BY <1>1, Invariance, PTL

\* buildCMC and signPKIData hide nothing that the CA's reader would take for a
\* name or a field of its own: whatever the template and the account are made up
\* of, what a verified request names is what Issue was given.
THEOREM CAIsToldWhatWasAsked == Spec => []RequestSaysWhatWasAsked
  <1>1. IInv => RequestSaysWhatWasAsked
    BY RequestIsRead DEF IInv, TypeOK, PostedAsAsked, RequestSaysWhatWasAsked
  <1> QED
    BY <1>1, Invariance, PTL

\* What New checks is all that Issue needs of the configuration, but for the
\* algorithm of the agent's key.
THEOREM StartedIssues == Spec => []StartedCanIssue
  <1>1. IInv => StartedCanIssue
    BY AcceptedIsBuilt DEF IInv, TypeOK, PostedAsAsked, StartedCanIssue
  <1> QED
    BY <1>1, Invariance, PTL

\* parseRSTRC and verify: of an answer that came whole, what can be used is
\* returned and what cannot is refused, whatever was sent and in whatever order.
THEOREM FailsClosedOnly == Spec => []ReturnsExactlyUsable
  <1>1. IInv => ReturnsExactlyUsable
    BY DEF IInv
  <1> QED
    BY <1>1, Invariance, PTL

\* chainFrom and verify: the issuer comes first, and every certificate that was
\* sent is in the chain as often as it was sent.
THEOREM ChainIsWhole == Spec => []ChainIsPresentable
  <1>1. IInv => ChainIsPresentable
    <2> SUFFICES ASSUME IInv, at = "returned"
                 PROVE  /\ chain # <<>> /\ chain[1] \in SignedBy[issued.cert]
                        /\ \A c \in Certs :
                             Cardinality({i \in DOMAIN chain : chain[i] = c}) =
                               IF c = issued.cert THEN 0 ELSE Cardinality(Placed(c))
      BY DEF ChainIsPresentable
    <2>1. tokens = <<>> /\ certs = <<>> /\ chain # <<>> /\ chain[1] \in SignedBy[issued.cert]
      BY DEF IInv, Presentable
    <2>2. ASSUME NEW c \in Certs, c # issued.cert
          PROVE  Cardinality(InChain(c)) = Cardinality(Placed(c))
      <3>1. Looked(c) = Placed(c)
        BY <2>1, AllIsLooked
      <3> QED
        BY <2>2, <3>1 DEF IInv, Counted
    <2>3. InChain(issued.cert) = {}
      <3>1. chain \in Seq(Certs \ {issued.cert})
        BY DEF IInv, TypeOK
      <3>2. \A i \in DOMAIN chain : chain[i] # issued.cert
        BY <3>1, SeqFacts
      <3> QED
        BY <3>2 DEF InChain
    <2>4. Cardinality(InChain(issued.cert)) = 0
      BY <2>3, FS_EmptySet
    <2> QED
      BY <2>1, <2>2, <2>4 DEF InChain
  <1> QED
    BY <1>1, Invariance, PTL

\* What an honest CA sends beside a leaf makes its answer one of use.
LEMMA HonestAnswerIsUsable ==
  ASSUME sent \in BoundedSeq(Token, MaxTokens), issued.cert \in Certs,
         WholeChain(issued.cert, sent)
  PROVE  Garbage \notin SentBeside /\ SentBeside \cap SignedBy[issued.cert] # {}
  <1>1. sent \in Seq(Token) /\ DOMAIN sent = 1 .. Len(sent)
    BY BoundedIs, ResponseAssumption
  <1>2. Garbage \notin SentBeside
    <2>1. ASSUME NEW p \in Placed(Garbage)
          PROVE  FALSE
      <3>1. /\ p[1] \in 1 .. Len(sent) /\ sent[p[1]].pkcs7
            /\ p[2] \in 1 .. Len(sent[p[1]].certs)
            /\ sent[p[1]].certs[p[2]] = Garbage
        BY PlacesFacts DEF Placed
      <3>2. Parses(sent[p[1]]) /\ sent[p[1]] \in Token
        BY <1>1, <3>1, SeqFacts DEF WholeChain
      <3> QED
        BY <3>1, <3>2, TokenFacts
    <2> QED
      BY <2>1 DEF SentBeside
  <1>3. PICK i \in DOMAIN sent :
          sent[i].pkcs7
          /\ (ToSet(sent[i].certs) \cap SignedBy[issued.cert]) \ {issued.cert} # {}
    BY DEF WholeChain
  <1>4. PICK c \in SignedBy[issued.cert] : c # issued.cert /\ c \in ToSet(sent[i].certs)
    BY <1>3
  <1>5. sent[i] \in Token
    BY <1>1, SeqFacts
  <1>6. DOMAIN sent[i].certs = 1 .. Len(sent[i].certs)
    BY <1>5, SeqFacts, TokenFacts
  <1>7. PICK j \in 1 .. Len(sent[i].certs) : sent[i].certs[j] = c
    BY <1>4, <1>6 DEF ToSet
  <1>8. <<i, j>> \in Placed(c)
    <2>1. <<i, j>> \in Places
      BY <1>1, <1>3, PlacesFacts
    <2> QED
      BY <1>7, <2>1 DEF Placed
  <1>9. c \in Certs
    BY <1>4, ResponseAssumption
  <1>10. c \in SentBeside
    BY <1>4, <1>8, <1>9 DEF SentBeside
  <1> QED
    BY <1>2, <1>4, <1>10

\* From New to verify: an honest CA that is asked for an account answers for that
\* account, and its answer is returned exactly if the mapping's SID is the
\* account's.
THEOREM HonestAnswersCount == Spec => []HonestCAIsAccepted
  <1>1. IInv => HonestCAIsAccepted
    <2> DEFINE account == asked.account
               consistent == account \in DOMAIN Directory /\ asked.sid = Directory[account]
    <2> SUFFICES ASSUME IInv, honest
                 PROVE  /\ at = "returned" => consistent
                        /\ at = "refused" => ~consistent
      BY DEF HonestCAIsAccepted
    <2>1. /\ posted # Nothing
          /\ config \in Config /\ asked \in Request /\ CMCFor(asked) # Refused
          /\ posted = buildRSTForCMC(CMCFor(asked))
      BY DEF IInv, TypeOK, PostedAsAsked, HonestAnswer
    <2>2. /\ Resolved(posted) = IF account \in DOMAIN Directory THEN Directory[account] ELSE NoSID
          /\ account \in DOMAIN Directory => Directory[account] \in SIDs
      BY <2>1, ResolvedIs
    <2>3. NoSID \notin SIDs
      BY ResponseAssumption
    <2>4. ASSUME account \in DOMAIN Directory
          PROVE  /\ envelope = Ordinary /\ issued.x509 /\ issued.cert \in Certs
                 /\ SIDOf[issued.cert] = Directory[account]
                 /\ WholeChain(issued.cert, sent)
      <3>1. /\ Resolved(posted) = Directory[account] /\ Directory[account] \in SIDs
            /\ Resolved(posted) # NoSID
        BY <2>2, <2>3, <2>4
      <3>2. /\ envelope = Ordinary
            /\ issued = [x509 |-> TRUE, cert |-> LeafFor[Directory[account]]]
            /\ sent \in Chains[issued.cert]
        BY <3>1 DEF IInv, HonestAnswer
      <3>3. issued.x509 /\ issued.cert = LeafFor[Directory[account]]
        BY <3>2
      <3> QED
        BY <3>1, <3>2, <3>3, BackendAssumption
    <2>5. ASSUME at = "returned"
          PROVE  consistent
      <3>1. Usable
        BY <2>5 DEF IInv, ReturnsExactlyUsable
      <3>2. account \in DOMAIN Directory
        <4>1. ASSUME account \notin DOMAIN Directory
              PROVE  FALSE
          <5>1. envelope.fault
            BY <2>2, <4>1 DEF IInv, HonestAnswer
          <5> QED
            BY <3>1, <5>1 DEF Usable, Ordinary
        <4> QED
          BY <4>1
      <3> QED
        BY <2>4, <3>1, <3>2 DEF Usable
    <2>6. ASSUME at = "refused", consistent
          PROVE  FALSE
      <3>1. sent \in BoundedSeq(Token, MaxTokens)
        BY DEF IInv, LooksInOrder
      <3>2. Garbage \notin SentBeside /\ SentBeside \cap SignedBy[issued.cert] # {}
        BY <2>4, <2>6, <3>1, HonestAnswerIsUsable
      <3>3. Usable
        BY <2>4, <2>6, <3>2 DEF Usable
      <3> QED
        BY <2>1, <2>6, <3>3 DEF IInv, ReturnsExactlyUsable
    <2> QED
      BY <2>5, <2>6
  <1> QED
    BY <1>1, Invariance, PTL
=============================================================================
