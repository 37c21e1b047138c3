--------------------------- MODULE ClientDataProofs ---------------------------
(***************************************************************************)
(* What a browser's texts of any length tell their readers: which of them  *)
(* passes whom, and that a payment sheet's text tells what the sheet said. *)
(***************************************************************************)
EXTENDS Authority, SequenceTheorems, TLAPS

-----------------------------------------------------------------------------
(***************************************************************************)
(* Texts: the second token of a client data text is its challenge.         *)
(***************************************************************************)
IsText(s) == s \in Seq(Range(s))

LEMMA TextOf ==
  ASSUME NEW S, NEW s \in Seq(S)
  PROVE  IsText(s) /\ Len(s) \in Nat /\ DOMAIN s = 1 .. Len(s)
BY SeqOfRange, LenProperties DEF IsText

LEMMA ConcatText ==
  ASSUME NEW s, NEW t, IsText(s), IsText(t)
  PROVE  /\ IsText(s \o t)
         /\ Len(s \o t) = Len(s) + Len(t)
         /\ Len(s) \in Nat /\ Len(t) \in Nat
         /\ \A i \in 1 .. Len(s) : (s \o t)[i] = s[i]
<1> DEFINE S == Range(s) \union Range(t)
<1>1. s \in Seq(S) /\ t \in Seq(S)
  BY SeqMonotonic DEF IsText
<1> HIDE DEF S
<1>2. /\ s \o t \in Seq(S) /\ Len(s \o t) = Len(s) + Len(t)
      /\ \A i \in 1 .. Len(s) + Len(t) : (s \o t)[i] = IF i <= Len(s) THEN s[i] ELSE t[i - Len(s)]
  BY <1>1, ConcatProperties
<1>3. Len(s) \in Nat /\ Len(t) \in Nat
  BY <1>1, LenProperties
<1>4. \A i \in 1 .. Len(s) : (s \o t)[i] = s[i]
  BY <1>2, <1>3
<1> QED BY <1>2, <1>3, <1>4, TextOf

LEMMA OneText ==
  ASSUME NEW x
  PROVE  IsText(<<x>>)
<1>1. <<x>> \in Seq({x})
  OBVIOUS
<1> QED BY <1>1, TextOf

LEMMA TwoText ==
  ASSUME NEW x, NEW y
  PROVE  IsText(<<x, y>>)
<1>1. <<x, y>> \in Seq({x, y})
  OBVIOUS
<1> QED BY <1>1, TextOf

LEMMA ThreeText ==
  ASSUME NEW x, NEW y, NEW z
  PROVE  IsText(<<x, y, z>>) /\ Len(<<x, y, z>>) = 3 /\ <<x, y, z>>[2] = y
<1>1. <<x, y, z>> \in Seq({x, y, z})
  OBVIOUS
<1> QED BY <1>1, TextOf

\* A text that begins with three tokens.
Begins(s, x) == IsText(s) /\ Len(s) \in Nat /\ Len(s) >= 3 /\ s[2] = x

LEMMA BeginsOn ==
  ASSUME NEW s, NEW t, NEW x, Begins(s, x), IsText(t)
  PROVE  Begins(s \o t, x)
BY ConcatText DEF Begins

LEMMA PrefixSecond ==
  ASSUME NEW head, NEW json, NEW x, Begins(head, x), IsText(json), IsPrefix(head, json)
  PROVE  json[2] = x
<1> DEFINE S == Range(head) \union Range(json)
<1>1. head \in Seq(S) /\ json \in Seq(S)
  BY SeqMonotonic DEF IsText, Begins
<1> HIDE DEF S
<1>2. Len(head) \in Nat /\ Len(json) \in Nat /\ Len(head) <= Len(json) /\ Len(head) >= 3
  BY <1>1, LenProperties DEF IsPrefix, Begins
<1>3. SubSeq(head, 1, Len(head))[2] = head[2] /\ SubSeq(json, 1, Len(head))[2] = json[2]
  BY <1>1, <1>2
<1> QED BY <1>3 DEF IsPrefix, Begins

LEMMA DigitsText ==
  ASSUME NEW units, NEW n \in Nat
  PROVE  IsText(digits(units, n))
<1> DEFINE D == [i \in 1 .. n |-> <<"digit", decimal(units, i)>>]
           S == {<<"digit", decimal(units, i)>> : i \in 1 .. n}
<1>1. D \in [1 .. n -> S]
  OBVIOUS
<1>2. D \in Seq(S)
  BY <1>1, SeqDef
<1>3. IsText(D)
  BY <1>2, TextOf
<1> HIDE DEF D
<1>4. IsText(<<<<"whole", units \div 1000000>>, <<".">>>>)
  BY TwoText
<1>5. digits(units, n) = <<<<"whole", units \div 1000000>>, <<".">>>> \o D
  BY DEF digits, D
<1> QED BY <1>3, <1>4, <1>5, ConcatText

LEMMA TotalText ==
  ASSUME NEW units
  PROVE  IsText(formatSpcTotal(units))
<1> DEFINE P(n) == (n = 2 \/ decimal(units, n) # 0) /\ \A i \in n + 1 .. 6 : decimal(units, i) = 0
<1>1. \E n \in 2 .. 6 : P(n)
  <2>1. CASE decimal(units, 6) # 0
    BY <2>1
  <2>2. CASE decimal(units, 6) = 0 /\ decimal(units, 5) # 0
    BY <2>2
  <2>3. CASE decimal(units, 6) = 0 /\ decimal(units, 5) = 0 /\ decimal(units, 4) # 0
    BY <2>3
  <2>4. CASE decimal(units, 6) = 0 /\ decimal(units, 5) = 0 /\ decimal(units, 4) = 0 /\ decimal(units, 3) # 0
    BY <2>4
  <2>5. CASE decimal(units, 6) = 0 /\ decimal(units, 5) = 0 /\ decimal(units, 4) = 0 /\ decimal(units, 3) = 0
    BY <2>5
  <2> QED BY <2>1, <2>2, <2>3, <2>4, <2>5
<1>2. (CHOOSE n \in 2 .. 6 : P(n)) \in 2 .. 6
  BY <1>1
<1>3. (CHOOSE n \in 2 .. 6 : P(n)) \in Nat
  BY <1>2
<1> QED BY <1>3, DigitsText DEF formatSpcTotal

\* The account writes every total as the payment sheet does: dropping zeros from the right until two decimals are
\* left is stopping at the last decimal that is not zero, and no earlier than the second.
THEOREM TotalsAgree == \A units \in Nat : format_total(units) = formatSpcTotal(units)
<1> SUFFICES ASSUME NEW units \in Nat
             PROVE  format_total(units) = formatSpcTotal(units)
  OBVIOUS
<1> DEFINE P(n) == (n = 2 \/ decimal(units, n) # 0) /\ \A i \in n + 1 .. 6 : decimal(units, i) = 0
           shown == {2} \union {i \in 1 .. 6 : decimal(units, i) # 0}
           last == CHOOSE n \in shown : \A m \in shown : n >= m
<1>1. PICK n \in 2 .. 6 : P(n)
  <2>1. CASE decimal(units, 6) # 0
    BY <2>1
  <2>2. CASE decimal(units, 6) = 0 /\ decimal(units, 5) # 0
    BY <2>2
  <2>3. CASE decimal(units, 6) = 0 /\ decimal(units, 5) = 0 /\ decimal(units, 4) # 0
    BY <2>3
  <2>4. CASE decimal(units, 6) = 0 /\ decimal(units, 5) = 0 /\ decimal(units, 4) = 0 /\ decimal(units, 3) # 0
    BY <2>4
  <2>5. CASE decimal(units, 6) = 0 /\ decimal(units, 5) = 0 /\ decimal(units, 4) = 0 /\ decimal(units, 3) = 0
    BY <2>5
  <2> QED BY <2>1, <2>2, <2>3, <2>4, <2>5
<1>2. \A m \in 2 .. 6 : P(m) => m = n
  BY <1>1
<1>3. (CHOOSE m \in 2 .. 6 : P(m)) = n
  BY <1>1, <1>2
<1>4. n \in shown /\ \A m \in shown : n >= m
  BY <1>1
<1>5. \A m \in shown : m \in Int
  OBVIOUS
<1> HIDE DEF shown
<1>6. last \in shown /\ \A m \in shown : last >= m
  BY <1>4
<1> HIDE DEF last
<1>7. last = n
  BY <1>4, <1>5, <1>6
<1> QED BY <1>3, <1>7 DEF format_total, formatSpcTotal, Max, shown, last

LEMMA GetBegins ==
  ASSUME NEW key, NEW challenge, NEW origin, NEW next, IsText(origin)
  PROVE  /\ Begins(<<key, challenge, ORIGIN_KEY>> \o origin, challenge)
         /\ Begins(<<key, challenge, ORIGIN_KEY>> \o origin \o <<next>>, challenge)
<1>1. Begins(<<key, challenge, ORIGIN_KEY>>, challenge)
  BY ThreeText DEF Begins
<1> HIDE DEF ORIGIN_KEY
<1>2. Begins(<<key, challenge, ORIGIN_KEY>> \o origin, challenge)
  BY <1>1, BeginsOn
<1> QED BY <1>2, BeginsOn, OneText

\* The client data of an assertion names its challenge.
LEMMA SerializedChallenge ==
  ASSUME NEW how \in Ceremonies, NEW challenge
  PROVE  Begins(serialize(how, challenge), challenge)
<1>1. IsText(how.origin) /\ IsText(how.topOrigin) /\ IsText(how.tail)
  BY TextAssumption DEF IsText
<1>2. Begins(getJSON(how, challenge), challenge)
  BY <1>1, GetBegins, BeginsOn DEF getJSON
<1>3. Begins(paymentJSON(how, challenge), challenge)
  <2> DEFINE keys == <<IF how.top THEN SPC_RP_ID_KEY ELSE SPC_CROSS_ORIGIN_KEY, <<"rpId", RpId>>, SPC_TOP_ORIGIN_KEY>>
             name == <<SPC_PAYEE_NAME_KEY, payee_name(how.sheet.payee), QUOTE>>
             head == <<PAYMENT, challenge, ORIGIN_KEY>> \o how.origin
  <2>1. IsText(keys) /\ IsText(name) /\ IsText(<<SPC_TOTAL_KEY>>) /\ IsText(<<SPC_CURRENCY_AND_INSTRUMENT, CLOSE>>)
    BY ThreeText, TwoText, OneText
  <2>2. IsText(formatSpcTotal(how.sheet.total))
    BY TotalText
  <2>3. Begins(head, challenge)
    BY <1>1, GetBegins
  <2>4. paymentJSON(how, challenge) =
          head \o keys \o how.topOrigin \o name \o how.tail \o <<SPC_TOTAL_KEY>>
            \o formatSpcTotal(how.sheet.total) \o <<SPC_CURRENCY_AND_INSTRUMENT, CLOSE>>
    BY DEF paymentJSON
  <2> HIDE DEF keys, name, head
  <2>5. Begins(head \o keys \o how.topOrigin \o name, challenge)
    BY <1>1, <2>1, <2>3, BeginsOn
  <2>6. Begins(head \o keys \o how.topOrigin \o name \o how.tail \o <<SPC_TOTAL_KEY>>, challenge)
    BY <1>1, <2>1, <2>5, BeginsOn
  <2>7. Begins(head \o keys \o how.topOrigin \o name \o how.tail \o <<SPC_TOTAL_KEY>>
                 \o formatSpcTotal(how.sheet.total) \o <<SPC_CURRENCY_AND_INSTRUMENT, CLOSE>>, challenge)
    BY <2>1, <2>2, <2>6, BeginsOn
  <2> QED BY <2>4, <2>7
<1> QED BY <1>2, <1>3 DEF serialize

-----------------------------------------------------------------------------
(***************************************************************************)
(* Every reader takes the second token for the challenge.                  *)
(***************************************************************************)
LEMMA VerifyReads ==
  ASSUME NEW json, IsText(json), NEW challenge, verify(json, challenge, ORIGIN)
  PROVE  json[2] = challenge
<1>1. Begins(<<GET, challenge, ORIGIN_KEY>> \o ORIGIN \o <<QUOTE>>, challenge)
  BY TextAssumption, GetBegins DEF IsText
<1>2. IsPrefix(<<GET, challenge, ORIGIN_KEY>> \o ORIGIN \o <<QUOTE>>, json)
  BY DEF verify, matches
<1> QED BY <1>1, <1>2, PrefixSecond

LEMMA PaymentReads ==
  ASSUME NEW json, IsText(json), NEW challenge, NEW payment,
         verify_payment(json, challenge, ORIGIN, payment) = <<"rpId", RpId>>
  PROVE  json[2] = challenge
<1>1. Begins(<<PAYMENT, challenge, ORIGIN_KEY>> \o ORIGIN \o <<SPC_RP_ID_KEY>>, challenge)
  BY TextAssumption, GetBegins DEF IsText
<1>2. Refused # <<"rpId", RpId>>
  BY DEF Refused
<1>3. IsPrefix(<<PAYMENT, challenge, ORIGIN_KEY>> \o ORIGIN \o <<SPC_RP_ID_KEY>>, json)
  BY <1>2, Zenon DEF verify_payment
<1> QED BY <1>1, <1>3, PrefixSecond

LEMMA ModuleReads ==
  ASSUME NEW json, NEW challenge, _checkClientData(json, challenge)
  PROVE  json[2] = challenge
BY DEF _checkClientData

LEMMA ParserReads ==
  ASSUME NEW json, NEW x, Begins(json, x), NEW challenge, signed_on_verakey(json, challenge)
  PROVE  json[2] = challenge
<1>1. SubSeq(json, 1, 3) = <<GET, challenge, ORIGIN_KEY>>
  BY DEF signed_on_verakey
<1>2. SubSeq(json, 1, 3)[2] = json[2]
  BY DEF Begins, IsText
<1>3. <<GET, challenge, ORIGIN_KEY>>[2] = challenge
  OBVIOUS
<1> QED BY <1>1, <1>2, <1>3

-----------------------------------------------------------------------------
(***************************************************************************)
(* Reading a text: what stands in it after some tokens.                    *)
(***************************************************************************)
LEMMA TextFacts ==
  ASSUME NEW s, IsText(s)
  PROVE  /\ Len(s) \in Nat /\ DOMAIN s = 1 .. Len(s) /\ Range(s) = {s[i] : i \in 1 .. Len(s)}
         /\ \A i \in 1 .. Len(s) : s[i] \in Range(s)
<1>1. Len(s) \in Nat /\ DOMAIN s = 1 .. Len(s)
  BY LenProperties DEF IsText
<1> QED BY <1>1 DEF Range

LEMMA NoText == IsText(<<>>)
BY EmptySeq DEF IsText

\* The text t stands in json, after its first n tokens.
Reads(json, n, t) == n + Len(t) <= Len(json) /\ \A i \in 1 .. Len(t) : json[n + i] = t[i]

LEMMA ReadsConcat ==
  ASSUME NEW json, NEW n \in Nat, NEW s, NEW t, IsText(json), IsText(s), IsText(t)
  PROVE  Reads(json, n, s \o t) <=> Reads(json, n, s) /\ Reads(json, n + Len(s), t)
<1> DEFINE S == Range(s) \union Range(t)
<1>1. s \in Seq(S) /\ t \in Seq(S)
  BY SeqMonotonic DEF IsText
<1> HIDE DEF S
<1>2. /\ Len(s \o t) = Len(s) + Len(t) /\ Len(s) \in Nat /\ Len(t) \in Nat /\ Len(json) \in Nat
      /\ \A i \in 1 .. Len(s) + Len(t) : (s \o t)[i] = IF i <= Len(s) THEN s[i] ELSE t[i - Len(s)]
  BY <1>1, ConcatProperties, TextFacts
<1> DEFINE u == s \o t
<1>3. /\ Len(u) = Len(s) + Len(t)
      /\ \A i \in 1 .. Len(s) : u[i] = s[i]
      /\ \A i \in 1 .. Len(t) : u[Len(s) + i] = t[i]
  BY <1>2
<1> HIDE DEF u
<1>4. ASSUME Reads(json, n, u) PROVE Reads(json, n, s) /\ Reads(json, n + Len(s), t)
  <2>1. \A i \in 1 .. Len(t) : json[n + (Len(s) + i)] = u[Len(s) + i] /\ (n + Len(s)) + i = n + (Len(s) + i)
    BY <1>2, <1>3, <1>4 DEF Reads
  <2> QED BY <1>2, <1>3, <1>4, <2>1 DEF Reads
<1>5. ASSUME Reads(json, n, s), Reads(json, n + Len(s), t) PROVE Reads(json, n, u)
  <2> SUFFICES ASSUME NEW i \in 1 .. Len(u) PROVE json[n + i] = u[i]
    BY <1>2, <1>3, <1>5 DEF Reads
  <2>1. CASE i <= Len(s)
    BY <1>2, <1>3, <1>5, <2>1 DEF Reads
  <2>2. CASE i > Len(s)
    <3>1. i - Len(s) \in 1 .. Len(t) /\ Len(s) + (i - Len(s)) = i /\ (n + Len(s)) + (i - Len(s)) = n + i
      BY <1>2, <1>3, <2>2
    <3> QED BY <1>3, <1>5, <3>1 DEF Reads
  <2> QED BY <1>2, <1>3, <2>1, <2>2
<1> QED BY <1>4, <1>5 DEF u

LEMMA ReadsOne ==
  ASSUME NEW json, NEW n \in Nat, NEW x, IsText(json)
  PROVE  Reads(json, n, <<x>>) <=> n + 1 <= Len(json) /\ json[n + 1] = x
BY DEF Reads

LEMMA ReadsTwo ==
  ASSUME NEW json, NEW n \in Nat, NEW x, NEW y, IsText(json)
  PROVE  Reads(json, n, <<x, y>>) <=> n + 2 <= Len(json) /\ json[n + 1] = x /\ json[n + 2] = y
BY DEF Reads

LEMMA ReadsThree ==
  ASSUME NEW json, NEW n \in Nat, NEW x, NEW y, NEW z, IsText(json)
  PROVE  Reads(json, n, <<x, y, z>>) <=> n + 3 <= Len(json) /\ json[n + 1] = x /\ json[n + 2] = y /\ json[n + 3] = z
BY DEF Reads

LEMMA PartText ==
  ASSUME NEW json, IsText(json), NEW m \in Nat, NEW n \in Nat, 1 <= m, n <= Len(json)
  PROVE  /\ IsText(SubSeq(json, m, n))
         /\ Len(SubSeq(json, m, n)) = IF m <= n THEN n - m + 1 ELSE 0
         /\ \A i \in 1 .. n - m + 1 : SubSeq(json, m, n)[i] = json[m + i - 1]
<1> DEFINE S == Range(json)
<1>1. Len(json) \in Nat /\ \A i \in 1 .. Len(json) : json[i] \in S
  BY TextFacts, Zenon
<1> HIDE DEF S
<1>2. \A i \in m .. n : json[i] \in S
  BY <1>1
<1>3. m \in Int /\ n \in Int
  OBVIOUS
<1>4. /\ SubSeq(json, m, n) \in Seq(S)
      /\ Len(SubSeq(json, m, n)) = IF m <= n THEN n - m + 1 ELSE 0
      /\ \A i \in 1 .. n - m + 1 : SubSeq(json, m, n)[i] = json[m + i - 1]
  BY <1>2, <1>3, SubSeqProperties
<1> QED BY <1>4, TextOf

\* The beginning of a text.
LEMMA FirstPart ==
  ASSUME NEW json, IsText(json), NEW n \in Nat, n <= Len(json)
  PROVE  /\ IsText(SubSeq(json, 1, n)) /\ Len(SubSeq(json, 1, n)) = n
         /\ \A i \in 1 .. n : SubSeq(json, 1, n)[i] = json[i]
<1> DEFINE part == SubSeq(json, 1, n)
<1>1. /\ IsText(part) /\ Len(part) = IF 1 <= n THEN n - 1 + 1 ELSE 0
      /\ \A i \in 1 .. n - 1 + 1 : part[i] = json[1 + i - 1]
  <2>1. 1 \in Nat /\ 1 <= 1
    OBVIOUS
  <2> QED BY <2>1, PartText
<1> HIDE DEF part
<1>2. n - 1 + 1 = n /\ (IF 1 <= n THEN n - 1 + 1 ELSE 0) = n
  OBVIOUS
<1>3. \A i \in 1 .. n : 1 + i - 1 = i
  OBVIOUS
<1>4. IsText(part) /\ Len(part) = n /\ \A i \in 1 .. n : part[i] = json[i]
  BY <1>1, <1>2, <1>3, Zenon
<1> QED BY <1>4 DEF part

LEMMA SameText ==
  ASSUME NEW s, NEW t, IsText(s), IsText(t)
  PROVE  s = t <=> Len(s) = Len(t) /\ \A i \in 1 .. Len(s) : s[i] = t[i]
<1> DEFINE S == Range(s) \union Range(t)
<1>1. s \in Seq(S) /\ t \in Seq(S)
  BY SeqMonotonic DEF IsText
<1> HIDE DEF S
<1> QED BY <1>1, SeqEqual

LEMMA PrefixReads ==
  ASSUME NEW h, NEW json, IsText(h), IsText(json)
  PROVE  IsPrefix(h, json) <=> Reads(json, 0, h)
<1>1. Len(h) \in Nat /\ Len(json) \in Nat
  BY TextFacts
<1>2. CASE Len(h) <= Len(json)
  <2>1. /\ IsText(SubSeq(h, 1, Len(h))) /\ Len(SubSeq(h, 1, Len(h))) = Len(h)
        /\ \A i \in 1 .. Len(h) : SubSeq(h, 1, Len(h))[i] = h[i]
    <3>1. Len(h) <= Len(h)
      BY <1>1
    <3> QED BY <1>1, <3>1, FirstPart, Zenon
  <2>2. /\ IsText(SubSeq(json, 1, Len(h))) /\ Len(SubSeq(json, 1, Len(h))) = Len(h)
        /\ \A i \in 1 .. Len(h) : SubSeq(json, 1, Len(h))[i] = json[i]
    BY <1>1, <1>2, FirstPart, Zenon
  <2> QED BY <1>1, <1>2, <2>1, <2>2, SameText DEF IsPrefix, Reads
<1> QED BY <1>1, <1>2 DEF IsPrefix, Reads

LEMMA AfterText ==
  ASSUME NEW json, NEW h, IsText(json), IsText(h), Len(h) <= Len(json)
  PROVE  /\ IsText(After(json, h)) /\ Len(After(json, h)) = Len(json) - Len(h)
         /\ \A i \in 1 .. Len(json) - Len(h) : After(json, h)[i] = json[Len(h) + i]
         /\ \A n \in Nat : \A t : IsText(t) => (Reads(After(json, h), n, t) <=> Reads(json, Len(h) + n, t))
<1>1. Len(h) \in Nat /\ Len(json) \in Nat
  BY TextFacts
<1> DEFINE r == After(json, h)
<1>2. /\ IsText(r) /\ Len(r) = Len(json) - Len(h)
      /\ \A i \in 1 .. Len(json) - Len(h) : r[i] = json[Len(h) + i]
  BY <1>1, PartText DEF After
<1> HIDE DEF r
<1>3. ASSUME NEW n \in Nat, NEW t, IsText(t)
      PROVE  Reads(r, n, t) <=> Reads(json, Len(h) + n, t)
  <2>1. Len(t) \in Nat
    BY <1>3, TextFacts
  <2>2. \A i \in 1 .. Len(t) : n + Len(t) <= Len(r) => r[n + i] = json[Len(h) + n + i]
    BY <1>1, <1>2, <2>1
  <2> QED BY <1>1, <1>2, <2>1, <2>2 DEF Reads
<1> QED BY <1>2, <1>3 DEF r

LEMMA TailText ==
  ASSUME NEW json, IsText(json), json # <<>>
  PROVE  /\ IsText(Tail(json)) /\ Head(json) = json[1] /\ Len(Tail(json)) = Len(json) - 1 /\ Len(json) >= 1
         /\ \A n \in Nat : \A t : IsText(t) => (Reads(Tail(json), n, t) <=> Reads(json, n + 1, t))
<1>1. /\ Len(json) \in Nat /\ Len(json) >= 1
      /\ Tail(json) \in Seq(Range(json)) /\ Head(json) = json[1] /\ Len(Tail(json)) = Len(json) - 1
      /\ \A i \in 1 .. Len(json) - 1 : Tail(json)[i] = json[i + 1]
  BY HeadTailProperties, LenProperties, EmptySeq, TextFacts DEF IsText
<1>2. IsText(Tail(json))
  BY <1>1, TextOf
<1> DEFINE r == Tail(json)
<1>3. Len(r) = Len(json) - 1 /\ \A i \in 1 .. Len(json) - 1 : r[i] = json[i + 1]
  BY <1>1
<1> HIDE DEF r
<1>4. ASSUME NEW n \in Nat, NEW t, IsText(t)
      PROVE  Reads(r, n, t) <=> Reads(json, n + 1, t)
  <2>1. Len(t) \in Nat
    BY <1>4, TextFacts
  <2>2. \A i \in 1 .. Len(t) : n + Len(t) <= Len(r) => r[n + i] = json[n + 1 + i]
    BY <1>1, <1>3, <2>1
  <2> QED BY <1>1, <1>3, <2>1, <2>2 DEF Reads
<1> QED BY <1>1, <1>2, <1>4 DEF r

\* A token that stands in neither text ends both at the same place.
LEMMA Delimited ==
  ASSUME NEW json, NEW n \in Nat, NEW s, NEW t, NEW x, NEW y, IsText(json), IsText(s), IsText(t),
         Reads(json, n, s), Reads(json, n + Len(s), <<x>>), Reads(json, n, t), Reads(json, n + Len(t), <<y>>),
         x \notin Range(t), y \notin Range(s)
  PROVE  s = t /\ x = y
<1>1. Len(s) \in Nat /\ Len(t) \in Nat /\ Len(json) \in Nat
  BY TextFacts
<1>2. json[n + Len(s) + 1] = x /\ json[n + Len(t) + 1] = y
  BY <1>1, ReadsOne
<1>3. ~(Len(s) < Len(t))
  <2> SUFFICES ASSUME Len(s) < Len(t) PROVE FALSE
    OBVIOUS
  <2>1. Len(s) + 1 \in 1 .. Len(t) /\ n + (Len(s) + 1) = n + Len(s) + 1
    BY <1>1
  <2>2. json[n + (Len(s) + 1)] = t[Len(s) + 1]
    BY <2>1 DEF Reads
  <2> QED BY <1>2, <2>1, <2>2, TextFacts
<1>4. ~(Len(t) < Len(s))
  <2> SUFFICES ASSUME Len(t) < Len(s) PROVE FALSE
    OBVIOUS
  <2>1. Len(t) + 1 \in 1 .. Len(s) /\ n + (Len(t) + 1) = n + Len(t) + 1
    BY <1>1
  <2>2. json[n + (Len(t) + 1)] = s[Len(t) + 1]
    BY <2>1 DEF Reads
  <2> QED BY <1>2, <2>1, <2>2, TextFacts
<1>5. Len(s) = Len(t)
  BY <1>1, <1>3, <1>4
<1>6. \A i \in 1 .. Len(s) : s[i] = t[i]
  BY <1>5 DEF Reads
<1> QED BY <1>2, <1>5, <1>6, SameText

-----------------------------------------------------------------------------
(***************************************************************************)
(* What the account and the module ask of a text, and what a plain text says.*)
(***************************************************************************)
LEMMA TextAt ==
  ASSUME NEW how \in Ceremonies
  PROVE  /\ IsText(ORIGIN) /\ IsText(how.origin) /\ IsText(how.topOrigin) /\ IsText(how.tail)
         /\ Len(ORIGIN) \in Nat /\ Len(how.origin) \in Nat /\ Len(how.topOrigin) \in Nat /\ Len(how.tail) \in Nat
<1>1. IsText(ORIGIN) /\ IsText(how.origin) /\ IsText(how.topOrigin) /\ IsText(how.tail)
  BY TextAssumption DEF IsText
<1> QED BY <1>1, TextFacts

\* No origin holds punctuation.
LEMMA OriginTokens ==
  ASSUME NEW how \in Ceremonies, NEW x \in Punctuation
  PROVE  x \notin Range(ORIGIN) /\ x \notin Range(how.origin) /\ x \notin Range(how.topOrigin)
<1>1. Range(ORIGIN) \intersect Punctuation = {}
      /\ (Range(how.origin) \union Range(how.topOrigin)) \intersect Punctuation = {}
  BY BrowserAssumption
<1> HIDE DEF Punctuation
<1> QED BY <1>1, Zenon

\* The plain text: its head, its origin, a quote and what the browser appends.
LEMMA PlainReads ==
  ASSUME NEW how \in Ceremonies, NEW challenge, NEW json, json = getJSON(how, challenge)
  PROVE  /\ IsText(json) /\ Len(json) = 4 + Len(how.origin) + Len(how.tail)
         /\ Reads(json, 0, <<GET, challenge, ORIGIN_KEY>>)
         /\ Reads(json, 3, how.origin)
         /\ Reads(json, 3 + Len(how.origin), <<QUOTE>>)
         /\ Reads(json, 4 + Len(how.origin), how.tail)
<1> DEFINE head == <<GET, challenge, ORIGIN_KEY>>
           quote == <<QUOTE>>
<1>1. IsText(head) /\ Len(head) = 3 /\ IsText(quote) /\ Len(quote) = 1
  BY ThreeText, OneText
<1>2. IsText(how.origin) /\ IsText(how.tail) /\ Len(how.origin) \in Nat /\ Len(how.tail) \in Nat
  BY TextAt
<1>3. json = head \o how.origin \o quote \o how.tail
  BY DEF getJSON
<1> HIDE DEF head, quote
<1>4. IsText(head \o how.origin) /\ Len(head \o how.origin) = 3 + Len(how.origin)
  <2>1. IsText(head \o how.origin) /\ Len(head \o how.origin) = Len(head) + Len(how.origin)
    BY <1>1, <1>2, ConcatText, Zenon
  <2> QED BY <1>1, <2>1, Zenon
<1>5. IsText(head \o how.origin \o quote) /\ Len(head \o how.origin \o quote) = 4 + Len(how.origin)
  <2>1. IsText(head \o how.origin \o quote) /\ Len(head \o how.origin \o quote) = Len(head \o how.origin) + Len(quote)
    BY <1>1, <1>4, ConcatText, Zenon
  <2>2. Len(head \o how.origin \o quote) = (3 + Len(how.origin)) + 1
    BY <1>1, <1>4, <2>1, Zenon
  <2>3. (3 + Len(how.origin)) + 1 = 4 + Len(how.origin)
    BY <1>2
  <2> QED BY <2>1, <2>2, <2>3, Zenon
<1>6. IsText(json) /\ Len(json) = 4 + Len(how.origin) + Len(how.tail)
  <2>1. IsText(json) /\ Len(json) = Len(head \o how.origin \o quote) + Len(how.tail)
    BY <1>2, <1>3, <1>5, ConcatText, Zenon
  <2> QED BY <1>5, <2>1, Zenon
<1>7. Reads(json, 0, json)
  BY <1>6, <1>2 DEF Reads
<1>8. Reads(json, 0, head \o how.origin \o quote) /\ Reads(json, 0 + (4 + Len(how.origin)), how.tail)
  BY <1>2, <1>3, <1>5, <1>6, <1>7, ReadsConcat
<1>9. Reads(json, 0, head \o how.origin) /\ Reads(json, 0 + (3 + Len(how.origin)), quote)
  BY <1>1, <1>4, <1>6, <1>8, ReadsConcat
<1>10. Reads(json, 0, head) /\ Reads(json, 0 + 3, how.origin)
  BY <1>1, <1>2, <1>6, <1>9, ReadsConcat
<1>11. 0 + (4 + Len(how.origin)) = 4 + Len(how.origin) /\ 0 + (3 + Len(how.origin)) = 3 + Len(how.origin) /\ 0 + 3 = 3
  BY <1>2
<1> QED BY <1>6, <1>8, <1>9, <1>10, <1>11 DEF head, quote

\* The account asks for exactly its own head, and one more token.
LEMMA MatchesIff ==
  ASSUME NEW json, IsText(json), NEW challenge, IsText(ORIGIN)
  PROVE  matches(json, challenge, ORIGIN) <=>
           /\ Reads(json, 0, <<GET, challenge, ORIGIN_KEY>>)
           /\ Reads(json, 3, ORIGIN)
           /\ Reads(json, 3 + Len(ORIGIN), <<QUOTE>>)
           /\ Len(json) >= 5 + Len(ORIGIN)
           /\ json[5 + Len(ORIGIN)][1] \in {"}", ","} /\ json[5 + Len(ORIGIN)] # CROSS_ORIGIN_TRUE
<1> DEFINE begin == <<GET, challenge, ORIGIN_KEY>>
           quote == <<QUOTE>>
           head == begin \o ORIGIN \o quote
           rest == After(json, head)
<1>1. IsText(begin) /\ Len(begin) = 3 /\ IsText(quote) /\ Len(quote) = 1 /\ Len(ORIGIN) \in Nat /\ Len(json) \in Nat
  BY ThreeText, OneText, TextFacts
<1>2. matches(json, challenge, ORIGIN) <=>
        /\ IsPrefix(head, json)
        /\ rest # <<>> /\ Head(rest)[1] \in {"}", ","} /\ Head(rest) # CROSS_ORIGIN_TRUE
  BY DEF matches
<1> HIDE DEF begin, quote
<1>3. IsText(begin \o ORIGIN) /\ Len(begin \o ORIGIN) = 3 + Len(ORIGIN)
  <2>1. IsText(begin \o ORIGIN) /\ Len(begin \o ORIGIN) = Len(begin) + Len(ORIGIN)
    BY <1>1, ConcatText, Zenon
  <2> QED BY <1>1, <2>1, Zenon
<1>4. IsText(head) /\ Len(head) = 4 + Len(ORIGIN)
  <2>1. IsText(head) /\ Len(head) = Len(begin \o ORIGIN) + Len(quote)
    BY <1>1, <1>3, ConcatText, Zenon
  <2> HIDE DEF head
  <2>2. Len(head) = (3 + Len(ORIGIN)) + 1
    BY <1>1, <1>3, <2>1, Zenon
  <2>3. (3 + Len(ORIGIN)) + 1 = 4 + Len(ORIGIN)
    BY <1>1
  <2> QED BY <2>1, <2>2, <2>3, Zenon
<1>5. IsPrefix(head, json) <=> Reads(json, 0, head)
  BY <1>4, PrefixReads
<1>6. Reads(json, 0, head) <=> Reads(json, 0, begin \o ORIGIN) /\ Reads(json, 0 + (3 + Len(ORIGIN)), quote)
  BY <1>1, <1>3, ReadsConcat
<1>7. Reads(json, 0, begin \o ORIGIN) <=> Reads(json, 0, begin) /\ Reads(json, 0 + 3, ORIGIN)
  BY <1>1, ReadsConcat
<1>8. 0 + (3 + Len(ORIGIN)) = 3 + Len(ORIGIN) /\ 0 + 3 = 3
  BY <1>1
<1>9. IsPrefix(head, json) <=> Reads(json, 0, begin) /\ Reads(json, 3, ORIGIN) /\ Reads(json, 3 + Len(ORIGIN), quote)
  BY <1>5, <1>6, <1>7, <1>8
<1> HIDE DEF head
<1>10. ASSUME IsPrefix(head, json)
       PROVE  /\ rest # <<>> <=> Len(json) >= 5 + Len(ORIGIN)
              /\ rest # <<>> => Head(rest) = json[5 + Len(ORIGIN)]
  <2>1. Len(head) <= Len(json)
    BY <1>4, <1>5, <1>10 DEF Reads
  <2>2. /\ IsText(rest) /\ Len(rest) = Len(json) - (4 + Len(ORIGIN))
        /\ \A i \in 1 .. Len(json) - (4 + Len(ORIGIN)) : rest[i] = json[(4 + Len(ORIGIN)) + i]
    <3> HIDE DEF rest
    <3>1. /\ IsText(rest) /\ Len(rest) = Len(json) - Len(head)
          /\ \A i \in 1 .. Len(json) - Len(head) : rest[i] = json[Len(head) + i]
      BY <1>4, <2>1, AfterText, Zenon DEF rest
    <3> QED BY <1>4, <3>1
  <2> HIDE DEF rest
  <2>3. rest # <<>> => Len(rest) >= 1 /\ Head(rest) = rest[1]
    BY <2>2, TailText
  <2>4. rest = <<>> => Len(rest) = 0
    OBVIOUS
  <2> QED BY <1>1, <2>2, <2>3, <2>4
<1> HIDE DEF rest
<1>11. CASE ~IsPrefix(head, json)
  BY <1>2, <1>9, <1>11 DEF begin, quote
<1>12. CASE IsPrefix(head, json) /\ rest = <<>>
  BY <1>2, <1>10, <1>12
<1>13. CASE IsPrefix(head, json) /\ rest # <<>>
  BY <1>2, <1>9, <1>10, <1>13 DEF begin, quote
<1> QED BY <1>11, <1>12, <1>13

LEMMA VerifyIff ==
  ASSUME NEW json, IsText(json), NEW challenge, IsText(ORIGIN)
  PROVE  verify(json, challenge, ORIGIN) <=>
           /\ Len(json) <= MAX_CLIENT_DATA_LEN
           /\ Reads(json, 0, <<GET, challenge, ORIGIN_KEY>>)
           /\ Reads(json, 3, ORIGIN)
           /\ Reads(json, 3 + Len(ORIGIN), <<QUOTE>>)
           /\ Len(json) >= 5 + Len(ORIGIN)
           /\ json[5 + Len(ORIGIN)][1] \in {"}", ","} /\ json[5 + Len(ORIGIN)] # CROSS_ORIGIN_TRUE
BY MatchesIff, Zenon DEF verify

\* The module asks for the same.
LEMMA ModuleIff ==
  ASSUME NEW json, IsText(json), NEW challenge, IsText(ORIGIN)
  PROVE  _checkClientData(json, challenge) <=>
           /\ Len(json) <= MAX_CLIENT_DATA_LEN
           /\ Reads(json, 0, <<GET, challenge, ORIGIN_KEY>>)
           /\ Reads(json, 3, ORIGIN)
           /\ Reads(json, 3 + Len(ORIGIN), <<QUOTE>>)
           /\ Len(json) >= 5 + Len(ORIGIN)
           /\ \/ json[5 + Len(ORIGIN)] = CLOSE
              \/ json[5 + Len(ORIGIN)][1] = "," /\ json[5 + Len(ORIGIN)] # CROSS_ORIGIN_TRUE
<1>1. Len(ORIGIN) \in Nat /\ Len(json) \in Nat
  BY TextFacts
<1> DEFINE next == \/ json[5 + Len(ORIGIN)] = CLOSE
                   \/ json[5 + Len(ORIGIN)][1] = "," /\ json[5 + Len(ORIGIN)] # CROSS_ORIGIN_TRUE
           part == SubSeq(json, 4, (4 + Len(ORIGIN)) - 1)
<1>2. _checkClientData(json, challenge) <=>
        /\ Len(json) <= MAX_CLIENT_DATA_LEN /\ Len(json) >= 5 + Len(ORIGIN)
        /\ json[1] = GET /\ json[2] = challenge /\ json[3] = ORIGIN_KEY
        /\ part = ORIGIN /\ json[4 + Len(ORIGIN)] = QUOTE
        /\ next
  <2>1. (4 + Len(ORIGIN)) + 1 = 5 + Len(ORIGIN)
    BY <1>1
  <2> HIDE DEF part
  <2> QED BY <2>1 DEF _checkClientData, part
<1> HIDE DEF next
<1>3. CASE Len(json) >= 5 + Len(ORIGIN)
  <2>1. (4 + Len(ORIGIN)) - 1 = 3 + Len(ORIGIN) /\ 4 \in Nat /\ 3 + Len(ORIGIN) \in Nat /\ 1 <= 4
        /\ 3 + Len(ORIGIN) <= Len(json)
    BY <1>1, <1>3
  <2>2. /\ IsText(part) /\ Len(part) = IF 4 <= 3 + Len(ORIGIN) THEN (3 + Len(ORIGIN)) - 4 + 1 ELSE 0
        /\ \A i \in 1 .. (3 + Len(ORIGIN)) - 4 + 1 : part[i] = json[4 + i - 1]
    BY <2>1, PartText
  <2> HIDE DEF part
  <2>3. Len(part) = Len(ORIGIN) /\ \A i \in 1 .. Len(ORIGIN) : part[i] = json[3 + i]
    BY <1>1, <2>2
  <2>4. part = ORIGIN <=> \A i \in 1 .. Len(part) : part[i] = ORIGIN[i]
    BY <2>2, <2>3, SameText
  <2>5. part = ORIGIN <=> Reads(json, 3, ORIGIN)
    BY <1>1, <1>3, <2>3, <2>4 DEF Reads
  <2>6. Reads(json, 0, <<GET, challenge, ORIGIN_KEY>>) <=> json[1] = GET /\ json[2] = challenge /\ json[3] = ORIGIN_KEY
    BY <1>1, <1>3, ReadsThree
  <2>7. Reads(json, 3 + Len(ORIGIN), <<QUOTE>>) <=> json[4 + Len(ORIGIN)] = QUOTE
    <3>1. (3 + Len(ORIGIN)) + 1 = 4 + Len(ORIGIN) /\ (3 + Len(ORIGIN)) + 1 <= Len(json)
      BY <1>1, <1>3
    <3> QED BY <1>1, <2>1, <3>1, ReadsOne
  <2> QED BY <1>2, <1>3, <2>5, <2>6, <2>7 DEF next
<1>4. CASE ~(Len(json) >= 5 + Len(ORIGIN))
  BY <1>2, <1>4
<1> QED BY <1>3, <1>4

-----------------------------------------------------------------------------
(***************************************************************************)
(* The readers of a plain text agree.                                      *)
(***************************************************************************)
LEMMA PaymentBegins ==
  ASSUME NEW how \in Ceremonies, NEW challenge
  PROVE  LET json == serialize(how, challenge) IN
         /\ IsText(json) /\ Len(json) \in Nat /\ Len(json) >= 3 /\ json[2] = challenge
         /\ how.sheet # NoSheet => json = paymentJSON(how, challenge)
         /\ how.sheet = NoSheet => json = getJSON(how, challenge)
BY SerializedChallenge DEF serialize, Begins

\* What a browser appends to a plain text.
LEMMA TailTokens ==
  ASSUME NEW how \in Ceremonies, how.sheet = NoSheet
  PROVE  /\ how.top \in BOOLEAN
         /\ Len(how.tail) \in Nat /\ Len(how.tail) >= 1 /\ how.tail[Len(how.tail)] = CLOSE
         /\ \A i \in 1 .. Len(how.tail) : how.tail[i] = CLOSE \/ how.tail[i][1] = ","
         /\ how.top => \A i \in 1 .. Len(how.tail) : how.tail[i] # CROSS_ORIGIN_TRUE
         /\ ~how.top => how.tail[1] = CROSS_ORIGIN_TRUE
<1> DEFINE tail == how.tail
<1>1. /\ tail # <<>> /\ Last(tail) = CLOSE /\ how.top \in BOOLEAN
      /\ \A token \in Range(tail) : token = CLOSE \/ token[1] = ","
      /\ IF how.top THEN CROSS_ORIGIN_TRUE \notin Range(tail) ELSE tail[1] = CROSS_ORIGIN_TRUE
  BY BrowserAssumption
<1>2. IsText(tail)
  BY TextAt
<1>3. tail = <<>> \/ (Len(tail) \in Nat /\ Len(tail) >= 1)
  BY <1>2, TailText, TextFacts
<1> HIDE DEF tail, CLOSE, CROSS_ORIGIN_TRUE
<1>4. \A i \in 1 .. Len(tail) : tail[i] \in Range(tail)
  BY <1>2, TextFacts
<1> QED BY <1>1, <1>3, <1>4 DEF Last, tail

\* Where the plain text is cut, whoever reads VeraKey's origin before a quote has read the whole origin.
\* The first n tokens of json: what reads there reads in json.
IsCut(text, json, n) ==
  /\ IsText(text) /\ Len(text) = n /\ n \in Nat /\ n <= Len(json)
  /\ \A i \in 1 .. n : text[i] = json[i]
  /\ \A m \in Nat : \A t : IsText(t) /\ Reads(text, m, t) => Reads(json, m, t)

LEMMA CutReads ==
  ASSUME NEW json, IsText(json), NEW n \in 0 .. Len(json), NEW text, text = SubSeq(json, 1, n)
  PROVE  IsCut(text, json, n)
<1>1. IsText(json) /\ Len(json) \in Nat
  BY TextFacts
<1>2. n \in Nat /\ n <= Len(json)
  BY <1>1
<1>3. IsText(text) /\ Len(text) = n /\ \A i \in 1 .. n : text[i] = json[i]
  BY <1>1, <1>2, FirstPart, Zenon
<1>4. ASSUME NEW m \in Nat, NEW t, IsText(t), Reads(text, m, t)
      PROVE  Reads(json, m, t)
  <2>1. Len(t) \in Nat
    BY <1>4, TextFacts
  <2> QED BY <1>1, <1>2, <1>3, <1>4, <2>1 DEF Reads
<1> QED BY <1>1, <1>2, <1>3, <1>4, Zenon DEF IsCut

LEMMA OriginRead ==
  ASSUME NEW how \in Ceremonies, NEW challenge, NEW json, json = getJSON(how, challenge),
         Reads(json, 3, ORIGIN), Reads(json, 3 + Len(ORIGIN), <<QUOTE>>)
  PROVE  how.origin = ORIGIN
<1>1. /\ IsText(json) /\ IsText(ORIGIN) /\ IsText(how.origin)
      /\ Reads(json, 3, how.origin) /\ Reads(json, 3 + Len(how.origin), <<QUOTE>>)
  BY TextAt, PlainReads
<1>2. QUOTE \notin Range(ORIGIN) /\ QUOTE \notin Range(how.origin)
  BY OriginTokens DEF Punctuation
<1>3. 3 \in Nat
  OBVIOUS
<1> HIDE DEF QUOTE
<1> QED BY <1>1, <1>2, <1>3, Delimited

\* The token after the quote is the first the browser appends.
LEMMA NextToken ==
  ASSUME NEW how \in Ceremonies, how.sheet = NoSheet, NEW challenge, NEW json, json = getJSON(how, challenge)
  PROVE  /\ Len(json) \in Nat /\ Len(json) >= 5 + Len(how.origin)
         /\ json[5 + Len(how.origin)] = how.tail[1]
         /\ json[5 + Len(how.origin)] = CLOSE \/ json[5 + Len(how.origin)][1] = ","
         /\ how.top <=> json[5 + Len(how.origin)] # CROSS_ORIGIN_TRUE
<1> DEFINE tail == how.tail
<1>1. /\ IsText(json) /\ Len(json) = 4 + Len(how.origin) + Len(tail) /\ Reads(json, 4 + Len(how.origin), tail)
      /\ Len(how.origin) \in Nat
  BY PlainReads, TextAt
<1>2. /\ how.top \in BOOLEAN
      /\ Len(tail) \in Nat /\ Len(tail) >= 1
      /\ \A i \in 1 .. Len(tail) : tail[i] = CLOSE \/ tail[i][1] = ","
      /\ how.top => \A i \in 1 .. Len(tail) : tail[i] # CROSS_ORIGIN_TRUE
      /\ ~how.top => tail[1] = CROSS_ORIGIN_TRUE
  BY TailTokens, Zenon
<1> HIDE DEF tail, CLOSE, CROSS_ORIGIN_TRUE
<1>0. Len(tail) \in Nat /\ Len(tail) >= 1 /\ Len(how.origin) \in Nat /\ Len(json) = 4 + Len(how.origin) + Len(tail)
  BY <1>1, <1>2, Zenon
<1>3. 1 \in 1 .. Len(tail) /\ (4 + Len(how.origin)) + 1 = 5 + Len(how.origin)
  BY <1>0
<1>4. json[5 + Len(how.origin)] = tail[1]
  BY <1>1, <1>3 DEF Reads
<1>5. how.top <=> tail[1] # CROSS_ORIGIN_TRUE
  BY <1>2, <1>3, Zenon
<1>6. tail[1] = CLOSE \/ tail[1][1] = ","
  BY <1>2, <1>3
<1>7. Len(json) \in Nat /\ Len(json) >= 5 + Len(how.origin)
  BY <1>0
<1> QED BY <1>4, <1>5, <1>6, <1>7 DEF tail

\* Cut anywhere, a plain text passes the account and the module alike.
LEMMA CutAgrees ==
  ASSUME NEW how \in Ceremonies, how.sheet = NoSheet, NEW challenge, NEW json, json = getJSON(how, challenge),
         NEW n \in 0 .. Len(json), NEW text, text = SubSeq(json, 1, n)
  PROVE  _checkClientData(text, challenge) <=> verify(text, challenge, ORIGIN)
<1>1. /\ IsText(text) /\ Len(text) = n /\ n \in Nat /\ n <= Len(json)
      /\ \A i \in 1 .. n : text[i] = json[i]
      /\ \A m \in Nat : \A t : IsText(t) /\ Reads(text, m, t) => Reads(json, m, t)
  <2>1. IsText(json)
    BY PlainReads, Zenon
  <2>2. IsCut(text, json, n)
    BY <2>1, CutReads, Zenon
  <2> QED BY <2>2, Zenon DEF IsCut
<1>2. IsText(ORIGIN) /\ Len(ORIGIN) \in Nat /\ IsText(<<QUOTE>>)
  BY TextAt, OneText
<1>3. CASE Reads(text, 3, ORIGIN) /\ Reads(text, 3 + Len(ORIGIN), <<QUOTE>>) /\ Len(text) >= 5 + Len(ORIGIN)
  <2>1. Reads(json, 3, ORIGIN) /\ Reads(json, 3 + Len(ORIGIN), <<QUOTE>>)
    <3>1. 3 \in Nat /\ 3 + Len(ORIGIN) \in Nat
      BY <1>2
    <3> QED BY <1>1, <1>2, <1>3, <3>1
  <2>2. how.origin = ORIGIN
    BY <2>1, OriginRead
  <2>3. json[5 + Len(ORIGIN)] = CLOSE \/ json[5 + Len(ORIGIN)][1] = ","
    BY <2>2, NextToken, Zenon
  <2>4. text[5 + Len(ORIGIN)] = json[5 + Len(ORIGIN)]
    BY <1>1, <1>2, <1>3
  <2> DEFINE next == text[5 + Len(ORIGIN)]
  <2>5. next = CLOSE \/ next[1] = ","
    BY <2>3, <2>4
  <2>6. CLOSE[1] = "}" /\ CLOSE # CROSS_ORIGIN_TRUE
    BY DEF CLOSE, CROSS_ORIGIN_TRUE
  <2> HIDE DEF next, CLOSE, CROSS_ORIGIN_TRUE
  <2>7. next = CLOSE \/ (next[1] = "," /\ next # CROSS_ORIGIN_TRUE)
          <=> next[1] \in {"}", ","} /\ next # CROSS_ORIGIN_TRUE
    BY <2>5, <2>6
  <2> QED BY <1>1, <1>2, <2>7, VerifyIff, ModuleIff, Zenon DEF next
<1>4. CASE ~(Reads(text, 3, ORIGIN) /\ Reads(text, 3 + Len(ORIGIN), <<QUOTE>>) /\ Len(text) >= 5 + Len(ORIGIN))
  BY <1>1, <1>2, <1>4, VerifyIff, ModuleIff, Zenon
<1> QED BY <1>3, <1>4

LEMMA Places ==
  ASSUME NEW o \in Nat, NEW t \in Nat, NEW k \in Nat, k = 4 + o + t
  PROVE  /\ 3 + o \in Nat /\ 4 + o \in Nat /\ 4 + o \in 1 .. k /\ 3 <= k /\ 3 + o <= k /\ 1 <= 4
         /\ (3 + o) + 1 = 4 + o /\ (4 + o) + 1 = 5 + o
         /\ k >= 5 + o => 5 + o \in 1 .. k
         /\ \A i \in 1 .. k : \/ i \in 1 .. 3
                              \/ i - 3 \in 1 .. o /\ 3 + (i - 3) = i
                              \/ i = 4 + o
                              \/ i - (4 + o) \in 1 .. t /\ (4 + o) + (i - (4 + o)) = i
OBVIOUS

\* The first quote of a plain text ends its origin.
LEMMA FirstQuote ==
  ASSUME NEW how \in Ceremonies, how.sheet = NoSheet, NEW challenge, challenge # QUOTE,
         NEW json, json = getJSON(how, challenge)
  PROVE  SelectInSeq(json, LAMBDA token : token = QUOTE) = 4 + Len(how.origin)
<1> DEFINE I == {i \in 1 .. Len(json) : json[i] = QUOTE}
           q == 4 + Len(how.origin)
<1>1. /\ IsText(json) /\ Len(json) = 4 + Len(how.origin) + Len(how.tail)
      /\ Reads(json, 0, <<GET, challenge, ORIGIN_KEY>>) /\ Reads(json, 3, how.origin)
      /\ Reads(json, 3 + Len(how.origin), <<QUOTE>>)
  BY PlainReads
<1>2. IsText(how.origin) /\ Len(how.origin) \in Nat /\ Len(how.tail) \in Nat /\ Len(json) \in Nat
  BY <1>1, TextAt, TextFacts
<1>3. QUOTE \notin Range(how.origin) /\ GET # QUOTE /\ ORIGIN_KEY # QUOTE
  BY OriginTokens DEF Punctuation, GET, QUOTE, ORIGIN_KEY
<1>4. json[q] = QUOTE /\ q \in 1 .. Len(json)
  <2>1. 3 + Len(how.origin) \in Nat /\ (3 + Len(how.origin)) + 1 = q
    BY <1>2
  <2>2. json[(3 + Len(how.origin)) + 1] = QUOTE
    BY <1>1, <2>1, ReadsOne
  <2>3. Len(json) = 4 + Len(how.origin) + Len(how.tail)
    BY <1>1
  <2>4. q \in 1 .. Len(json)
    BY <1>2, <2>3, Places, Zenon
  <2> QED BY <2>1, <2>2, <2>4
<1>5. json[1] = GET /\ json[2] = challenge /\ json[3] = ORIGIN_KEY
  <2>1. json[0 + 1] = GET /\ json[0 + 2] = challenge /\ json[0 + 3] = ORIGIN_KEY
    BY <1>1, ReadsThree
  <2> QED BY <2>1
<1> HIDE DEF QUOTE, GET, ORIGIN_KEY
<1>6. ASSUME NEW i \in I PROVE q <= i
  <2> SUFFICES ASSUME i < q PROVE FALSE
    BY <1>2
  <2>1. i \in 1 .. 3 + Len(how.origin) /\ json[i] = QUOTE
    BY <1>2
  <2>2. CASE i \in 1 .. 3
    BY <1>3, <1>5, <2>1, <2>2
  <2>3. CASE i > 3
    <3>1. i - 3 \in 1 .. Len(how.origin) /\ 3 + (i - 3) = i
      BY <1>2, <2>1, <2>3
    <3>2. json[3 + (i - 3)] = how.origin[i - 3]
      BY <1>1, <3>1 DEF Reads
    <3>3. how.origin[i - 3] \in Range(how.origin)
      BY <1>2, <3>1, TextFacts
    <3> QED BY <1>3, <2>1, <3>1, <3>2, <3>3
  <2> QED BY <2>1, <2>2, <2>3
<1>7. q \in I /\ \A i \in I : i \in Int
  BY <1>4
<1>8. SelectInSeq(json, LAMBDA token : token = QUOTE) = IF I # {} THEN Min(I) ELSE 0
  BY DEF SelectInSeq
<1> HIDE DEF I
<1>9. Min(I) = q
  <2>1. Min(I) \in I /\ \A i \in I : Min(I) <= i
    BY <1>6, <1>7 DEF Min
  <2> QED BY <1>2, <1>6, <1>7, <2>1
<1> QED BY <1>7, <1>8, <1>9

\* What the module reads was made on VeraKey's page.
LEMMA ModuleHere ==
  ASSUME NEW how \in Ceremonies, how.sheet = NoSheet, NEW challenge, NEW json, json = getJSON(how, challenge),
         _checkClientData(json, challenge)
  PROVE  how.origin = ORIGIN /\ how.top
<1>1. IsText(json) /\ IsText(ORIGIN)
  BY PlainReads, TextAt, Zenon
<1>2. /\ Reads(json, 3, ORIGIN) /\ Reads(json, 3 + Len(ORIGIN), <<QUOTE>>)
      /\ json[5 + Len(ORIGIN)] = CLOSE \/ json[5 + Len(ORIGIN)] # CROSS_ORIGIN_TRUE
  BY <1>1, ModuleIff, Zenon
<1>3. how.origin = ORIGIN
  BY <1>2, OriginRead, Zenon
<1>4. CLOSE # CROSS_ORIGIN_TRUE
  BY Zenon DEF CLOSE, CROSS_ORIGIN_TRUE
<1>5. how.top <=> json[5 + Len(how.origin)] # CROSS_ORIGIN_TRUE
  BY NextToken, Zenon
<1> QED BY <1>2, <1>3, <1>4, <1>5, Zenon

\* A whole plain text of any length passes the parser, and the account's checks but for its limit, on a page of
\* VeraKey's origin that is in no other site's frame, and nowhere else.
LEMMA WholeAgrees ==
  ASSUME NEW how \in Ceremonies, how.sheet = NoSheet, NEW challenge, challenge # QUOTE, challenge # CROSS_ORIGIN_TRUE,
         NEW json, json = getJSON(how, challenge)
  PROVE  /\ signed_on_verakey(json, challenge) <=> how.origin = ORIGIN /\ how.top
         /\ matches(json, challenge, ORIGIN) <=> how.origin = ORIGIN /\ how.top
<1>1. /\ IsText(json) /\ Len(json) = 4 + Len(how.origin) + Len(how.tail)
      /\ Reads(json, 0, <<GET, challenge, ORIGIN_KEY>>) /\ Reads(json, 3, how.origin)
      /\ Reads(json, 3 + Len(how.origin), <<QUOTE>>)
      /\ Reads(json, 4 + Len(how.origin), how.tail)
  BY PlainReads
<1>2. /\ IsText(how.origin) /\ IsText(ORIGIN) /\ Len(how.origin) \in Nat /\ Len(ORIGIN) \in Nat
      /\ Len(how.tail) \in Nat /\ Len(json) \in Nat
  BY <1>1, TextAt, TextFacts, Zenon
<1>3. /\ Len(json) >= 5 + Len(how.origin)
      /\ json[5 + Len(how.origin)] = CLOSE \/ json[5 + Len(how.origin)][1] = ","
      /\ how.top <=> json[5 + Len(how.origin)] # CROSS_ORIGIN_TRUE
      /\ json[5 + Len(how.origin)] = how.tail[1]
  BY NextToken, Zenon
<1>a. Len(json) = 4 + Len(how.origin) + Len(how.tail) /\ Len(json) >= 5 + Len(how.origin)
  BY <1>1, <1>3
<1>c. /\ 3 + Len(how.origin) \in Nat /\ 3 <= Len(json) /\ 3 + Len(how.origin) <= Len(json) /\ 1 <= 4
      /\ (3 + Len(how.origin)) + 1 = 4 + Len(how.origin)
      /\ 5 + Len(how.origin) \in 1 .. Len(json)
      /\ \A i \in 1 .. Len(json) :
           \/ i \in 1 .. 3
           \/ i - 3 \in 1 .. Len(how.origin) /\ 3 + (i - 3) = i
           \/ i = 4 + Len(how.origin)
           \/ /\ i - (4 + Len(how.origin)) \in 1 .. Len(how.tail)
              /\ (4 + Len(how.origin)) + (i - (4 + Len(how.origin))) = i
  <2>1. Len(how.origin) \in Nat /\ Len(how.tail) \in Nat /\ Len(json) \in Nat
    BY <1>2
  <2> DEFINE o == Len(how.origin)
             u == Len(how.tail)
             k == Len(json)
  <2>2. o \in Nat /\ u \in Nat /\ k \in Nat /\ k = 4 + o + u /\ k >= 5 + o
    BY <1>a, <2>1
  <2> HIDE DEF o, u, k
  <2>3. /\ 3 + o \in Nat /\ 4 + o \in Nat /\ 4 + o \in 1 .. k /\ 3 <= k /\ 3 + o <= k /\ 1 <= 4
        /\ (3 + o) + 1 = 4 + o /\ (4 + o) + 1 = 5 + o
        /\ k >= 5 + o => 5 + o \in 1 .. k
        /\ \A i \in 1 .. k : \/ i \in 1 .. 3
                             \/ i - 3 \in 1 .. o /\ 3 + (i - 3) = i
                             \/ i = 4 + o
                             \/ i - (4 + o) \in 1 .. u /\ (4 + o) + (i - (4 + o)) = i
    BY <2>2
  <2> QED BY <2>2, <2>3, Zenon DEF o, u, k
<1>b. \A i \in 1 .. Len(how.origin) : json[3 + i] = how.origin[i]
  BY <1>1 DEF Reads
<1>4. json[1] = GET /\ json[2] = challenge /\ json[3] = ORIGIN_KEY
  <2>1. json[0 + 1] = GET /\ json[0 + 2] = challenge /\ json[0 + 3] = ORIGIN_KEY
    BY <1>1, ReadsThree
  <2> QED BY <2>1
<1>5. CLOSE[1] = "}"
  BY DEF CLOSE
<1>6. matches(json, challenge, ORIGIN) <=> how.origin = ORIGIN /\ how.top
  <2> HIDE DEF CLOSE, CROSS_ORIGIN_TRUE, GET, QUOTE
  <2>1. ASSUME matches(json, challenge, ORIGIN) PROVE how.origin = ORIGIN /\ how.top
    <3>1. how.origin = ORIGIN
      BY <1>1, <1>2, <2>1, MatchesIff, OriginRead, Zenon
    <3>2. json[5 + Len(ORIGIN)] # CROSS_ORIGIN_TRUE
      BY <1>1, <1>2, <2>1, MatchesIff, Zenon
    <3> QED BY <1>3, <3>1, <3>2, Zenon
  <2>2. ASSUME how.origin = ORIGIN, how.top PROVE matches(json, challenge, ORIGIN)
    <3>1. json[5 + Len(ORIGIN)][1] \in {"}", ","} /\ json[5 + Len(ORIGIN)] # CROSS_ORIGIN_TRUE
      BY <1>3, <1>5, <2>2
    <3> QED BY <1>1, <1>2, <1>3, <2>2, <3>1, MatchesIff, Zenon
  <2> QED BY <2>1, <2>2
<1>7. signed_on_verakey(json, challenge) <=> how.origin = ORIGIN /\ how.top
  <2>1. Last(json) = CLOSE
    <3>1. Len(how.tail) >= 1 /\ how.tail[Len(how.tail)] = CLOSE
      BY TailTokens, Zenon
    <3>2. Len(how.tail) \in 1 .. Len(how.tail) /\ (4 + Len(how.origin)) + Len(how.tail) = Len(json)
      BY <1>1, <1>2, <3>1
    <3> QED BY <1>1, <3>1, <3>2 DEF Reads, Last
  <2>2. SubSeq(json, 1, 3) = <<GET, challenge, ORIGIN_KEY>>
    <3> DEFINE part == SubSeq(json, 1, 3)
    <3>1. 3 <= Len(json) /\ IsText(json)
      BY <1>1, <1>c, Zenon
    <3>2. /\ IsText(part) /\ Len(part) = IF 1 <= 3 THEN 3 - 1 + 1 ELSE 0
          /\ \A i \in 1 .. 3 - 1 + 1 : part[i] = json[1 + i - 1]
      <4>1. 1 \in Nat /\ 3 \in Nat /\ 1 <= 1
        OBVIOUS
      <4> QED BY <3>1, <4>1, PartText
    <3> HIDE DEF part
    <3>3. Len(part) = 3 /\ part[1] = json[1] /\ part[2] = json[2] /\ part[3] = json[3]
      BY <3>2
    <3> DEFINE three == <<GET, challenge, ORIGIN_KEY>>
    <3>4. IsText(three) /\ Len(three) = 3 /\ three[1] = GET /\ three[2] = challenge /\ three[3] = ORIGIN_KEY
      BY ThreeText
    <3> HIDE DEF three
    <3>5. \A i \in 1 .. 3 : part[i] = three[i]
      BY <1>4, <3>3, <3>4
    <3>6. part = three
      BY <3>2, <3>3, <3>4, <3>5, SameText
    <3> QED BY <3>6 DEF part, three
  <2>3. SubSeq(json, 4, SelectInSeq(json, LAMBDA token : token = QUOTE) - 1) = how.origin
    <3>1. SelectInSeq(json, LAMBDA token : token = QUOTE) - 1 = 3 + Len(how.origin)
      <4>1. SelectInSeq(json, LAMBDA token : token = QUOTE) = 4 + Len(how.origin)
        BY FirstQuote
      <4> QED BY <1>2, <4>1
    <3> DEFINE part == SubSeq(json, 4, 3 + Len(how.origin))
    <3>2. /\ IsText(part) /\ Len(part) = IF 4 <= 3 + Len(how.origin) THEN (3 + Len(how.origin)) - 4 + 1 ELSE 0
          /\ \A i \in 1 .. (3 + Len(how.origin)) - 4 + 1 : part[i] = json[4 + i - 1]
      <4>1. 4 \in Nat /\ 3 + Len(how.origin) \in Nat /\ 1 <= 4 /\ 3 + Len(how.origin) <= Len(json)
        BY <1>c, Zenon
      <4>2. IsText(json)
        BY <1>1
      <4> QED BY <4>1, <4>2, PartText
    <3> HIDE DEF part
    <3>3. Len(part) = Len(how.origin) /\ \A i \in 1 .. Len(part) : part[i] = how.origin[i]
      BY <1>2, <1>b, <3>2
    <3>4. part = how.origin
      BY <1>2, <3>2, <3>3, SameText
    <3> QED BY <3>1, <3>4 DEF part
  <2>4. Contains(json, CROSS_ORIGIN_TRUE) <=> ~how.top
    <3>1. /\ how.top \in BOOLEAN
          /\ how.top => \A i \in 1 .. Len(how.tail) : how.tail[i] # CROSS_ORIGIN_TRUE
          /\ ~how.top => how.tail[1] = CROSS_ORIGIN_TRUE
      BY TailTokens, Zenon
    <3>2. CROSS_ORIGIN_TRUE \notin Range(how.origin)
      BY OriginTokens DEF Punctuation
    <3>3. GET # CROSS_ORIGIN_TRUE /\ QUOTE # CROSS_ORIGIN_TRUE /\ ORIGIN_KEY # CROSS_ORIGIN_TRUE
      BY DEF GET, QUOTE, ORIGIN_KEY, CROSS_ORIGIN_TRUE
    <3>4. json[4 + Len(how.origin)] = QUOTE
      <4>1. 3 + Len(how.origin) \in Nat /\ (3 + Len(how.origin)) + 1 = 4 + Len(how.origin)
        BY <1>2
      <4> QED BY <1>1, <4>1, ReadsOne
    <3> HIDE DEF GET, QUOTE, ORIGIN_KEY, CROSS_ORIGIN_TRUE
    <3>5. ASSUME ~how.top PROVE Contains(json, CROSS_ORIGIN_TRUE)
      <4>1. json[5 + Len(how.origin)] = CROSS_ORIGIN_TRUE /\ 5 + Len(how.origin) \in 1 .. Len(json)
        BY <1>3, <1>c, <3>1, <3>5, Zenon
      <4> QED BY <4>1, Zenon DEF Contains
    <3>6. ASSUME how.top, NEW i \in 1 .. Len(json), json[i] = CROSS_ORIGIN_TRUE PROVE FALSE
      <4>1. CASE i \in 1 .. 3
        BY <1>4, <3>3, <3>6, <4>1
      <4>2. CASE i - 3 \in 1 .. Len(how.origin) /\ 3 + (i - 3) = i
        <5>1. how.origin[i - 3] \in Range(how.origin) /\ json[3 + (i - 3)] = how.origin[i - 3]
          BY <1>2, <1>b, <4>2, TextFacts, Zenon
        <5> QED BY <3>2, <3>6, <4>2, <5>1, Zenon
      <4>3. CASE i = 4 + Len(how.origin)
        BY <3>3, <3>4, <3>6, <4>3
      <4>4. CASE /\ i - (4 + Len(how.origin)) \in 1 .. Len(how.tail)
                 /\ (4 + Len(how.origin)) + (i - (4 + Len(how.origin))) = i
        <5>1. json[(4 + Len(how.origin)) + (i - (4 + Len(how.origin)))] = how.tail[i - (4 + Len(how.origin))]
          BY <1>1, <4>4, Zenon DEF Reads
        <5> QED BY <3>1, <3>6, <4>4, <5>1, Zenon
      <4> QED BY <1>c, <3>6, <4>1, <4>2, <4>3, <4>4, Zenon
    <3> QED BY <3>1, <3>5, <3>6 DEF Contains
  <2> QED BY <2>1, <2>2, <2>3, <2>4, Zenon DEF signed_on_verakey
<1> QED BY <1>6, <1>7

-----------------------------------------------------------------------------
(***************************************************************************)
(* Payment sheets: the text of one, and what the account asks of it.       *)
(***************************************************************************)
LEMMA Peel ==
  ASSUME NEW json, IsText(json), NEW s, IsText(s), NEW t, IsText(t), Reads(json, 0, s \o t), NEW k \in Nat, Len(s) = k
  PROVE  Reads(json, 0, s) /\ Reads(json, k, t)
<1>1. Reads(json, 0, s) /\ Reads(json, 0 + Len(s), t)
  <2>1. 0 \in Nat
    OBVIOUS
  <2> QED BY <2>1, ReadsConcat, Zenon
<1>2. 0 + Len(s) = k
  OBVIOUS
<1> QED BY <1>1, <1>2, Zenon

LEMMA JoinThree ==
  ASSUME NEW json, IsText(json), NEW n \in Nat, NEW s, IsText(s), NEW t, IsText(t), NEW u, IsText(u)
  PROVE  /\ IsText(s \o t \o u) /\ Len(s \o t \o u) = Len(s) + Len(t) + Len(u)
         /\ Reads(json, n, s \o t \o u) <=>
              Reads(json, n, s) /\ Reads(json, n + Len(s), t) /\ Reads(json, n + (Len(s) + Len(t)), u)
<1>1. IsText(s \o t) /\ Len(s \o t) = Len(s) + Len(t)
  BY ConcatText, Zenon
<1>2. IsText(s \o t \o u) /\ Len(s \o t \o u) = Len(s) + Len(t) + Len(u)
  BY <1>1, ConcatText, Zenon
<1>3. Reads(json, n, s \o t \o u) <=> Reads(json, n, s \o t) /\ Reads(json, n + (Len(s) + Len(t)), u)
  BY <1>1, ReadsConcat, Zenon
<1>4. Reads(json, n, s \o t) <=> Reads(json, n, s) /\ Reads(json, n + Len(s), t)
  BY ReadsConcat, Zenon
<1> QED BY <1>2, <1>3, <1>4, Zenon

LEMMA PairHead ==
  ASSUME NEW json, IsText(json), NEW n \in Nat, NEW x, NEW y, Reads(json, n, <<x, y>>)
  PROVE  Reads(json, n, <<x>>)
<1>1. Len(json) \in Nat
  BY TextFacts
<1> QED BY <1>1, ReadsOne, ReadsTwo

FrameKey(how) == IF how.top THEN SPC_RP_ID_KEY ELSE SPC_CROSS_ORIGIN_KEY
FrameKeys(how) == <<FrameKey(how), <<"rpId", RpId>>, SPC_TOP_ORIGIN_KEY>>
NameShown(how) == <<SPC_PAYEE_NAME_KEY, payee_name(how.sheet.payee), QUOTE>>
SheetEnd == <<SPC_CURRENCY_AND_INSTRUMENT, CLOSE>>

\* The text of a payment sheet, piece by piece.
SheetText(how, challenge, json, total) ==
  \E o \in Nat, p \in Nat, q \in Nat :
    /\ o = Len(how.origin) /\ p = Len(how.topOrigin) /\ q = Len(how.tail)
    /\ IsText(json) /\ Reads(json, 0, <<PAYMENT, challenge, ORIGIN_KEY>>)
    /\ Reads(json, 3, how.origin) /\ Reads(json, 3 + o, FrameKeys(how)) /\ Reads(json, 6 + o, how.topOrigin)
    /\ Reads(json, 6 + o + p, NameShown(how)) /\ Reads(json, 9 + o + p, how.tail)
    /\ Reads(json, 9 + o + p + q, <<SPC_TOTAL_KEY>>) /\ Reads(json, 10 + o + p + q, total)
    /\ Reads(json, 10 + o + p + q + Len(total), <<SPC_CURRENCY_AND_INSTRUMENT>>)

LEMMA SheetReads ==
  ASSUME NEW how \in Ceremonies, NEW challenge, NEW json, json = paymentJSON(how, challenge),
         NEW total, total = formatSpcTotal(how.sheet.total)
  PROVE  SheetText(how, challenge, json, total)
<1> DEFINE head == <<PAYMENT, challenge, ORIGIN_KEY>>
           keys == FrameKeys(how)
           name == NameShown(how)
           key == <<SPC_TOTAL_KEY>>
           s1 == head \o how.origin
           s2 == s1 \o keys
           s3 == s2 \o how.topOrigin
           s4 == s3 \o name
           s5 == s4 \o how.tail
           s6 == s5 \o key
           s7 == s6 \o total
<1>1. /\ IsText(head) /\ Len(head) = 3 /\ IsText(keys) /\ Len(keys) = 3 /\ IsText(name) /\ Len(name) = 3
      /\ IsText(key) /\ Len(key) = 1
  BY ThreeText, OneText DEF FrameKeys, NameShown
<1>2. IsText(SheetEnd) /\ Len(SheetEnd) = 2
  BY TwoText DEF SheetEnd
<1>3. IsText(how.origin) /\ IsText(how.topOrigin) /\ IsText(how.tail) /\ IsText(total)
  BY TextAt, TotalText
<1>4. json = s7 \o SheetEnd
  BY DEF paymentJSON, FrameKeys, FrameKey, NameShown, SheetEnd
<1> HIDE DEF head, keys, name, key
<1>5. PICK o \in Nat, p \in Nat, q \in Nat, r \in Nat :
        o = Len(how.origin) /\ p = Len(how.topOrigin) /\ q = Len(how.tail) /\ r = Len(total)
  BY <1>3, TextFacts, Zenon
<1>6. PICK k1 \in Nat : k1 = 3 + o
  OBVIOUS
<1>7. PICK k2 \in Nat : k2 = k1 + 3
  OBVIOUS
<1>8. PICK k3 \in Nat : k3 = k2 + p
  OBVIOUS
<1>9. PICK k4 \in Nat : k4 = k3 + 3
  OBVIOUS
<1>10. PICK k5 \in Nat : k5 = k4 + q
  OBVIOUS
<1>11. PICK k6 \in Nat : k6 = k5 + 1
  OBVIOUS
<1>12. PICK k7 \in Nat : k7 = k6 + r
  OBVIOUS
<1>13. 3 \in Nat /\ 2 \in Nat /\ 1 \in Nat
  OBVIOUS
<1>14. IsText(s1) /\ Len(s1) = k1
  <2>1. IsText(head) /\ Len(head) = 3 /\ IsText(how.origin) /\ Len(how.origin) = o /\ k1 = 3 + o
    BY <1>1, <1>3, <1>5, <1>6, Zenon
  <2>2. IsText(s1) /\ Len(s1) = Len(head) + Len(how.origin)
    BY <2>1, ConcatText, Zenon
  <2> HIDE DEF s1
  <2> QED BY <2>1, <2>2, Zenon
<1> HIDE DEF s1
<1>15. IsText(s2) /\ Len(s2) = k2
  <2>1. IsText(s1) /\ Len(s1) = k1 /\ IsText(keys) /\ Len(keys) = 3 /\ k2 = k1 + 3
    BY <1>1, <1>7, <1>14, Zenon
  <2>2. IsText(s2) /\ Len(s2) = Len(s1) + Len(keys)
    BY <2>1, ConcatText, Zenon
  <2> HIDE DEF s2
  <2> QED BY <2>1, <2>2, Zenon
<1> HIDE DEF s2
<1>16. IsText(s3) /\ Len(s3) = k3
  <2>1. IsText(s2) /\ Len(s2) = k2 /\ IsText(how.topOrigin) /\ Len(how.topOrigin) = p /\ k3 = k2 + p
    BY <1>3, <1>5, <1>8, <1>15, Zenon
  <2>2. IsText(s3) /\ Len(s3) = Len(s2) + Len(how.topOrigin)
    BY <2>1, ConcatText, Zenon
  <2> HIDE DEF s3
  <2> QED BY <2>1, <2>2, Zenon
<1> HIDE DEF s3
<1>17. IsText(s4) /\ Len(s4) = k4
  <2>1. IsText(s3) /\ Len(s3) = k3 /\ IsText(name) /\ Len(name) = 3 /\ k4 = k3 + 3
    BY <1>1, <1>9, <1>16, Zenon
  <2>2. IsText(s4) /\ Len(s4) = Len(s3) + Len(name)
    BY <2>1, ConcatText, Zenon
  <2> HIDE DEF s4
  <2> QED BY <2>1, <2>2, Zenon
<1> HIDE DEF s4
<1>18. IsText(s5) /\ Len(s5) = k5
  <2>1. IsText(s4) /\ Len(s4) = k4 /\ IsText(how.tail) /\ Len(how.tail) = q /\ k5 = k4 + q
    BY <1>3, <1>5, <1>10, <1>17, Zenon
  <2>2. IsText(s5) /\ Len(s5) = Len(s4) + Len(how.tail)
    BY <2>1, ConcatText, Zenon
  <2> HIDE DEF s5
  <2> QED BY <2>1, <2>2, Zenon
<1> HIDE DEF s5
<1>19. IsText(s6) /\ Len(s6) = k6
  <2>1. IsText(s5) /\ Len(s5) = k5 /\ IsText(key) /\ Len(key) = 1 /\ k6 = k5 + 1
    BY <1>1, <1>11, <1>18, Zenon
  <2>2. IsText(s6) /\ Len(s6) = Len(s5) + Len(key)
    BY <2>1, ConcatText, Zenon
  <2> HIDE DEF s6
  <2> QED BY <2>1, <2>2, Zenon
<1> HIDE DEF s6
<1>20. IsText(s7) /\ Len(s7) = k7
  <2>1. IsText(s6) /\ Len(s6) = k6 /\ IsText(total) /\ Len(total) = r /\ k7 = k6 + r
    BY <1>3, <1>5, <1>12, <1>19, Zenon
  <2>2. IsText(s7) /\ Len(s7) = Len(s6) + Len(total)
    BY <2>1, ConcatText, Zenon
  <2> HIDE DEF s7
  <2> QED BY <2>1, <2>2, Zenon
<1> HIDE DEF s7
<1>21. IsText(json)
  BY <1>2, <1>4, <1>20, ConcatText, Zenon
<1>22. Reads(json, 0, json)
  <2>1. PICK k \in Nat : k = Len(json)
    BY <1>21, TextFacts, Zenon
  <2>2. 0 + k <= k /\ \A i \in 1 .. k : 0 + i = i
    OBVIOUS
  <2> QED BY <2>1, <2>2, Zenon DEF Reads
<1>23. Reads(json, 0, s7) /\ Reads(json, k7, SheetEnd)
  BY <1>2, <1>4, <1>20, <1>21, <1>22, Peel, Zenon
<1>24. Reads(json, 0, s6) /\ Reads(json, k6, total)
  BY <1>3, <1>19, <1>21, <1>23, Peel, Zenon DEF s7
<1>25. Reads(json, 0, s5) /\ Reads(json, k5, key)
  BY <1>1, <1>18, <1>21, <1>24, Peel, Zenon DEF s6
<1>26. Reads(json, 0, s4) /\ Reads(json, k4, how.tail)
  BY <1>3, <1>17, <1>21, <1>25, Peel, Zenon DEF s5
<1>27. Reads(json, 0, s3) /\ Reads(json, k3, name)
  BY <1>1, <1>16, <1>21, <1>26, Peel, Zenon DEF s4
<1>28. Reads(json, 0, s2) /\ Reads(json, k2, how.topOrigin)
  BY <1>3, <1>15, <1>21, <1>27, Peel, Zenon DEF s3
<1>29. Reads(json, 0, s1) /\ Reads(json, k1, keys)
  BY <1>1, <1>14, <1>21, <1>28, Peel, Zenon DEF s2
<1>30. Reads(json, 0, head) /\ Reads(json, 3, how.origin)
  BY <1>1, <1>3, <1>13, <1>21, <1>29, Peel, Zenon DEF s1
<1>31. Reads(json, k7, <<SPC_CURRENCY_AND_INSTRUMENT>>)
  BY <1>21, <1>23, PairHead, Zenon DEF SheetEnd
<1>32. /\ k1 = 3 + o /\ k2 = 6 + o /\ k3 = 6 + o + p /\ k4 = 9 + o + p /\ k5 = 9 + o + p + q
       /\ k6 = 10 + o + p + q /\ k7 = 10 + o + p + q + r
  BY <1>6, <1>7, <1>8, <1>9, <1>10, <1>11, <1>12
<1>33. /\ Reads(json, 3 + o, keys) /\ Reads(json, 6 + o, how.topOrigin)
       /\ Reads(json, 6 + o + p, name) /\ Reads(json, 9 + o + p, how.tail)
       /\ Reads(json, 9 + o + p + q, key) /\ Reads(json, 10 + o + p + q, total)
       /\ Reads(json, 10 + o + p + q + Len(total), <<SPC_CURRENCY_AND_INSTRUMENT>>)
  BY <1>5, <1>24, <1>25, <1>26, <1>27, <1>28, <1>29, <1>31, <1>32, Zenon
<1> QED BY <1>5, <1>21, <1>30, <1>33, Zenon DEF SheetText, head, keys, name, key

-----------------------------------------------------------------------------
\* What the account asks of the text of a payment sheet.
Shows(json, challenge, payment, l) ==
  /\ Len(json) <= MAX_CLIENT_DATA_LEN
  /\ Reads(json, 0, <<PAYMENT, challenge, ORIGIN_KEY>>) /\ Reads(json, 3, ORIGIN)
  /\ Reads(json, 3 + l, <<SPC_RP_ID_KEY>>) /\ Reads(json, 4 + l, <<<<"rpId", RpId>>>>)
  /\ Reads(json, 5 + l, <<SPC_TOP_ORIGIN_KEY>>) /\ Reads(json, 6 + l, ORIGIN)
  /\ Reads(json, 6 + l + l, <<SPC_PAYEE_NAME_KEY, payee_name(payment.payee), QUOTE>>)
  /\ \E logos \in {<<>>, <<SPC_LOGOS>>} :
       Reads(json, 9 + l + l, logos \o (<<SPC_TOTAL_KEY>> \o format_total(payment.total) \o <<SPC_CURRENCY_AND_INSTRUMENT>>))

LEMMA AccountPlaces ==
  ASSUME NEW l \in Nat
  PROVE  /\ 0 \in Nat /\ 1 \in Nat /\ 3 \in Nat /\ 3 + l \in Nat /\ 4 + l \in Nat /\ 5 + l \in Nat /\ 6 + l \in Nat
         /\ 0 + 3 = 3 /\ 0 + (3 + l) = 3 + l /\ 3 + l + 1 = 4 + l
         /\ 1 + l + 3 = 4 + l /\ (4 + l) + (0 + 1) = 5 + l /\ (5 + l) + 1 = 6 + l /\ (5 + l) + (1 + l) = 6 + l + l
         /\ (4 + l) + ((4 + l) + 0 + 1) = 9 + l + l /\ 0 + 1 \in Nat /\ (4 + l) + 0 \in Nat /\ (4 + l) + 0 + 1 \in Nat
OBVIOUS

LEMMA PaymentIff ==
  ASSUME NEW json, IsText(json), NEW challenge, NEW payment, payment.total \in Nat, IsText(ORIGIN),
         NEW l \in Nat, l = Len(ORIGIN)
  PROVE  verify_payment(json, challenge, ORIGIN, payment) = <<"rpId", RpId>> <=> Shows(json, challenge, payment, l)
<1> DEFINE begin == <<PAYMENT, challenge, ORIGIN_KEY>>
           key == <<SPC_RP_ID_KEY>>
           head == begin \o ORIGIN \o key
           top == <<SPC_TOP_ORIGIN_KEY>>
           name == <<SPC_PAYEE_NAME_KEY, payee_name(payment.payee), QUOTE>>
           shown == top \o ORIGIN \o name
           tkey == <<SPC_TOTAL_KEY>>
           currency == <<SPC_CURRENCY_AND_INSTRUMENT>>
           total == tkey \o format_total(payment.total) \o currency
           rest == After(json, head)
           sums == After(Tail(rest), shown)
           rpId == <<"rpId", RpId>>
           Logos == {<<>>, <<SPC_LOGOS>>}
<1>1. /\ IsText(begin) /\ Len(begin) = 3 /\ IsText(key) /\ Len(key) = 1 /\ IsText(top) /\ Len(top) = 1
      /\ IsText(name) /\ Len(name) = 3 /\ IsText(tkey) /\ IsText(currency)
  BY ThreeText, OneText
<1>2. IsText(format_total(payment.total))
  BY TotalsAgree, TotalText
<1>3. \A logos \in Logos : IsText(logos)
  BY NoText, OneText
<1>4. rpId[1] = "rpId" /\ Refused # rpId
  BY DEF Refused
<1>5. verify_payment(json, challenge, ORIGIN, payment) =
        IF /\ Len(json) <= MAX_CLIENT_DATA_LEN
           /\ IsPrefix(head, json)
           /\ rest # <<>> /\ Head(rest)[1] = "rpId"
           /\ IsPrefix(shown, Tail(rest))
           /\ \E logos \in Logos : IsPrefix(logos \o total, sums)
        THEN Head(rest) ELSE Refused
  BY DEF verify_payment
<1> HIDE DEF begin, key, top, name, tkey, currency, rpId, Logos
<1>6. /\ verify_payment(json, challenge, ORIGIN, payment) = rpId
         <=> /\ Len(json) <= MAX_CLIENT_DATA_LEN
             /\ IsPrefix(head, json)
             /\ rest # <<>> /\ Head(rest) = rpId
             /\ IsPrefix(shown, Tail(rest))
             /\ \E logos \in Logos : IsPrefix(logos \o total, sums)
  <2> HIDE DEF head, shown, total, rest, sums
  <2> QED BY <1>4, <1>5, Zenon
<1>7. /\ IsText(head) /\ Len(head) = 4 + l
      /\ Reads(json, 0, head) <=> Reads(json, 0, begin) /\ Reads(json, 3, ORIGIN) /\ Reads(json, 3 + l, key)
  <2>1. /\ IsText(head) /\ Len(head) = 3 + l + 1
        /\ Reads(json, 0, head) <=>
             Reads(json, 0, begin) /\ Reads(json, 0 + 3, ORIGIN) /\ Reads(json, 0 + (3 + l), key)
    <3>1. IsText(begin) /\ IsText(ORIGIN) /\ IsText(key) /\ 0 \in Nat
      BY <1>1, AccountPlaces, Zenon
    <3>2. Len(begin) = 3 /\ l = Len(ORIGIN) /\ Len(key) = 1
      BY <1>1, Zenon
    <3>3. /\ IsText(head) /\ Len(head) = Len(begin) + Len(ORIGIN) + Len(key)
          /\ Reads(json, 0, head) <=>
               Reads(json, 0, begin) /\ Reads(json, 0 + Len(begin), ORIGIN) /\ Reads(json, 0 + (Len(begin) + Len(ORIGIN)), key)
      BY <3>1, JoinThree, Zenon
    <3> HIDE DEF head
    <3> QED BY <3>2, <3>3, Zenon
  <2> HIDE DEF head
  <2> QED BY <2>1, AccountPlaces, Zenon
<1>8. /\ IsText(shown) /\ Len(shown) = 4 + l
      /\ Reads(json, 5 + l, shown) <=>
           Reads(json, 5 + l, top) /\ Reads(json, 6 + l, ORIGIN) /\ Reads(json, 6 + l + l, name)
  <2>1. /\ IsText(shown) /\ Len(shown) = 1 + l + 3
        /\ Reads(json, 5 + l, shown) <=>
             Reads(json, 5 + l, top) /\ Reads(json, (5 + l) + 1, ORIGIN) /\ Reads(json, (5 + l) + (1 + l), name)
    <3>1. IsText(top) /\ IsText(ORIGIN) /\ IsText(name) /\ 5 + l \in Nat
      BY <1>1, AccountPlaces, Zenon
    <3>2. Len(top) = 1 /\ l = Len(ORIGIN) /\ Len(name) = 3
      BY <1>1, Zenon
    <3>3. /\ IsText(shown) /\ Len(shown) = Len(top) + Len(ORIGIN) + Len(name)
          /\ Reads(json, 5 + l, shown) <=>
               Reads(json, 5 + l, top) /\ Reads(json, (5 + l) + Len(top), ORIGIN)
                 /\ Reads(json, (5 + l) + (Len(top) + Len(ORIGIN)), name)
      BY <3>1, JoinThree, Zenon
    <3> HIDE DEF shown
    <3> QED BY <3>2, <3>3, Zenon
  <2> HIDE DEF shown
  <2> QED BY <2>1, AccountPlaces, Zenon
<1>9. IsText(total)
  <2>1. IsText(tkey \o format_total(payment.total))
    BY <1>1, <1>2, ConcatText, Zenon
  <2> QED BY <1>1, <2>1, ConcatText, Zenon
<1> HIDE DEF total
<1>10. \A logos \in Logos : IsText(logos \o total)
  BY <1>3, <1>9, ConcatText, Zenon
<1> HIDE DEF head, shown
<1>11. IsPrefix(head, json) <=> Reads(json, 0, head)
  BY <1>7, PrefixReads, Zenon
<1>12. CASE IsPrefix(head, json)
  <2>1. Len(head) <= Len(json) /\ Len(json) \in Nat
    BY <1>7, <1>11, <1>12, TextFacts DEF Reads
  <2>2. /\ IsText(rest) /\ Len(rest) = Len(json) - (4 + l)
        /\ \A n \in Nat : \A t : IsText(t) => (Reads(rest, n, t) <=> Reads(json, (4 + l) + n, t))
    BY <1>7, <2>1, AfterText, Zenon
  <2> HIDE DEF rest
  <2>3. CASE rest # <<>>
    <3>1. /\ IsText(Tail(rest)) /\ Head(rest) = rest[1] /\ Len(rest) >= 1
          /\ \A n \in Nat : \A t : IsText(t) => (Reads(Tail(rest), n, t) <=> Reads(rest, n + 1, t))
      BY <2>2, <2>3, TailText, Zenon
    <3>2. Head(rest) = rpId <=> Reads(json, 4 + l, <<rpId>>)
      <4>1. Reads(rest, 0, <<rpId>>) <=> rest[1] = rpId
        <5>1. 0 + 1 = 1 /\ 0 + 1 <= Len(rest) /\ 0 \in Nat
          BY <3>1
        <5>2. Reads(rest, 0, <<rpId>>) <=> 0 + 1 <= Len(rest) /\ rest[0 + 1] = rpId
          BY <2>2, <5>1, ReadsOne, Zenon
        <5> QED BY <5>1, <5>2, Zenon
      <4>2. (4 + l) + 0 = 4 + l
        OBVIOUS
      <4>3. Reads(rest, 0, <<rpId>>) <=> Reads(json, 4 + l, <<rpId>>)
        BY <2>2, <4>2, AccountPlaces, OneText, Zenon
      <4> QED BY <3>1, <4>1, <4>3, Zenon
    <3>3. \A n \in Nat : \A t : IsText(t) => (Reads(Tail(rest), n, t) <=> Reads(json, (4 + l) + (n + 1), t))
      <4>1. \A n \in Nat : n + 1 \in Nat
        OBVIOUS
      <4> QED BY <2>2, <3>1, <4>1, Zenon
    <3>4. IsPrefix(shown, Tail(rest)) <=> Reads(Tail(rest), 0, shown)
      BY <1>8, <3>1, PrefixReads, Zenon
    <3>5. IsPrefix(shown, Tail(rest)) <=> Reads(json, 5 + l, shown)
      BY <1>8, <3>3, <3>4, AccountPlaces, Zenon
    <3>6. CASE IsPrefix(shown, Tail(rest))
      <4> DEFINE after == Tail(rest)
      <4>1. Len(shown) <= Len(after)
        <5> HIDE DEF after
        <5>1. Reads(after, 0, shown)
          BY <3>4, <3>6 DEF after
        <5>2. 0 + Len(shown) = Len(shown)
          BY <1>8
        <5> QED BY <5>1, <5>2 DEF Reads
      <4>2. IsText(sums) /\ \A n \in Nat : \A t : IsText(t) => (Reads(sums, n, t) <=> Reads(Tail(rest), (4 + l) + n, t))
        BY <1>8, <3>1, <4>1, AfterText, Zenon
      <4> HIDE DEF sums
      <4>3. \A t : IsText(t) => (IsPrefix(t, sums) <=> Reads(json, 9 + l + l, t))
        BY <3>3, <4>2, PrefixReads, AccountPlaces, Zenon
      <4>4. \A logos \in Logos : IsPrefix(logos \o total, sums) <=> Reads(json, 9 + l + l, logos \o total)
        BY <1>10, <4>3, Zenon
      <4> QED BY <1>6, <1>7, <1>8, <1>11, <1>12, <2>3, <3>2, <3>5, <3>6, <4>4, Zenon
              DEF Shows, begin, key, top, name, rpId, Logos, total, tkey, currency
    <3>7. CASE ~IsPrefix(shown, Tail(rest))
      BY <1>6, <1>8, <3>5, <3>7, Zenon DEF Shows, top, name, rpId
    <3> QED BY <3>6, <3>7
  <2>4. CASE rest = <<>>
    <3>1. Len(json) - (4 + l) = 0
      BY <2>2, <2>4
    <3>2. ~Reads(json, 4 + l, <<rpId>>)
      BY <2>1, <3>1, ReadsOne
    <3> QED BY <1>6, <2>4, <3>2, Zenon DEF Shows, rpId
  <2> QED BY <2>3, <2>4
<1>13. CASE ~IsPrefix(head, json)
  BY <1>6, <1>7, <1>11, <1>13, Zenon DEF Shows, begin, key, rpId
<1> QED BY <1>12, <1>13

-----------------------------------------------------------------------------
(***************************************************************************)
(* Totals: what is written tells the amount.                               *)
(***************************************************************************)
LEMMA Digit ==
  ASSUME NEW a \in Nat, NEW b \in Nat, 10 * b <= a, a < 10 * b + 10
  PROVE  a % 10 = a - 10 * b
BY SMT

LEMMA Powers == 10 ^ 0 = 1 /\ 10 ^ 1 = 10 /\ 10 ^ 2 = 100 /\ 10 ^ 3 = 1000 /\ 10 ^ 4 = 10000 /\ 10 ^ 5 = 100000
BY SMT

\* The decimal of r at the power k of ten.
DecimalOf(r, k) == (r \div k) % 10

\* The six decimals of a fraction tell it.
LEMMA SixDecimals ==
  ASSUME NEW r \in Nat, r < 1000000
  PROVE  r = ((((DecimalOf(r, 100000) * 10 + DecimalOf(r, 10000)) * 10 + DecimalOf(r, 1000)) * 10
                + DecimalOf(r, 100)) * 10 + DecimalOf(r, 10)) * 10 + DecimalOf(r, 1)
<1>1. PICK a \in Nat : a = r \div 100000 /\ 100000 * a <= r /\ r < 100000 * a + 100000
  BY SMT
<1>2. PICK b \in Nat : b = r \div 10000 /\ 10000 * b <= r /\ r < 10000 * b + 10000
  BY SMT
<1>3. PICK c \in Nat : c = r \div 1000 /\ 1000 * c <= r /\ r < 1000 * c + 1000
  BY SMT
<1>4. PICK d \in Nat : d = r \div 100 /\ 100 * d <= r /\ r < 100 * d + 100
  BY SMT
<1>5. PICK e \in Nat : e = r \div 10 /\ 10 * e <= r /\ r < 10 * e + 10
  BY SMT
<1>6. DecimalOf(r, 100000) = a
  BY <1>1, SMT DEF DecimalOf
<1>7. DecimalOf(r, 10000) = b - 10 * a
  BY <1>1, <1>2, Digit, SMT DEF DecimalOf
<1>8. DecimalOf(r, 1000) = c - 10 * b
  BY <1>2, <1>3, Digit, SMT DEF DecimalOf
<1>9. DecimalOf(r, 100) = d - 10 * c
  BY <1>3, <1>4, Digit, SMT DEF DecimalOf
<1>10. DecimalOf(r, 10) = e - 10 * d
  BY <1>4, <1>5, Digit, SMT DEF DecimalOf
<1>11. DecimalOf(r, 1) = r - 10 * e
  <2>1. r \div 1 = r
    BY SMT
  <2> QED BY <1>5, <2>1, Digit, SMT DEF DecimalOf
<1> QED BY <1>6, <1>7, <1>8, <1>9, <1>10, <1>11, SMT

LEMMA DecimalAt ==
  ASSUME NEW units \in Nat, NEW r, r = units % 1000000
  PROVE  /\ decimal(units, 1) = DecimalOf(r, 100000) /\ decimal(units, 2) = DecimalOf(r, 10000)
         /\ decimal(units, 3) = DecimalOf(r, 1000) /\ decimal(units, 4) = DecimalOf(r, 100)
         /\ decimal(units, 5) = DecimalOf(r, 10) /\ decimal(units, 6) = DecimalOf(r, 1)
BY Powers, SMT DEF decimal, DecimalOf

LEMMA DecimalsTell ==
  ASSUME NEW u \in Nat, NEW v \in Nat, u \div 1000000 = v \div 1000000,
         \A i \in 1 .. 6 : decimal(u, i) = decimal(v, i)
  PROVE  u = v
<1>1. PICK r \in Nat : r = u % 1000000 /\ r < 1000000
  BY SMT
<1>2. PICK s \in Nat : s = v % 1000000 /\ s < 1000000
  BY SMT
<1>3. /\ decimal(u, 1) = decimal(v, 1) /\ decimal(u, 2) = decimal(v, 2) /\ decimal(u, 3) = decimal(v, 3)
      /\ decimal(u, 4) = decimal(v, 4) /\ decimal(u, 5) = decimal(v, 5) /\ decimal(u, 6) = decimal(v, 6)
  BY SMT
<1>4. /\ decimal(u, 1) = DecimalOf(r, 100000) /\ decimal(u, 2) = DecimalOf(r, 10000)
      /\ decimal(u, 3) = DecimalOf(r, 1000) /\ decimal(u, 4) = DecimalOf(r, 100)
      /\ decimal(u, 5) = DecimalOf(r, 10) /\ decimal(u, 6) = DecimalOf(r, 1)
  BY <1>1, DecimalAt, SMT
<1>5. /\ decimal(v, 1) = DecimalOf(s, 100000) /\ decimal(v, 2) = DecimalOf(s, 10000)
      /\ decimal(v, 3) = DecimalOf(s, 1000) /\ decimal(v, 4) = DecimalOf(s, 100)
      /\ decimal(v, 5) = DecimalOf(s, 10) /\ decimal(v, 6) = DecimalOf(s, 1)
  BY <1>2, DecimalAt, SMT
<1>6. r = ((((DecimalOf(r, 100000) * 10 + DecimalOf(r, 10000)) * 10 + DecimalOf(r, 1000)) * 10
             + DecimalOf(r, 100)) * 10 + DecimalOf(r, 10)) * 10 + DecimalOf(r, 1)
  BY <1>1, SixDecimals, SMT
<1>7. s = ((((DecimalOf(s, 100000) * 10 + DecimalOf(s, 10000)) * 10 + DecimalOf(s, 1000)) * 10
             + DecimalOf(s, 100)) * 10 + DecimalOf(s, 10)) * 10 + DecimalOf(s, 1)
  BY <1>2, SixDecimals, SMT
<1>8. /\ DecimalOf(r, 100000) = DecimalOf(s, 100000) /\ DecimalOf(r, 10000) = DecimalOf(s, 10000)
      /\ DecimalOf(r, 1000) = DecimalOf(s, 1000) /\ DecimalOf(r, 100) = DecimalOf(s, 100)
      /\ DecimalOf(r, 10) = DecimalOf(s, 10) /\ DecimalOf(r, 1) = DecimalOf(s, 1)
  BY <1>3, <1>4, <1>5, SMT
<1>9. r = s
  BY <1>6, <1>7, <1>8, SMT
<1> QED BY <1>1, <1>2, <1>9, SMT

Whole(units) == units \div 1000000

LEMMA DigitsWritten ==
  ASSUME NEW units, NEW n
  PROVE  digits(units, n) = <<<<"whole", Whole(units)>>, <<".">>>> \o [i \in 1 .. n |-> <<"digit", decimal(units, i)>>]
BY SMT DEF digits, Whole

\* How a total is written: whole part, point, at least two decimals, none of those left out anything.
LEMMA TotalWritten ==
  ASSUME NEW units \in Nat
  PROVE  \E n \in 2 .. 6 :
           LET t == formatSpcTotal(units) IN
           /\ IsText(t) /\ Len(t) = 2 + n
           /\ t[1] = <<"whole", Whole(units)>>
           /\ \A i \in 1 .. n : t[2 + i] = <<"digit", decimal(units, i)>>
           /\ \A i \in n + 1 .. 6 : decimal(units, i) = 0
           /\ SPC_CURRENCY_AND_INSTRUMENT \notin Range(t)
<1> DEFINE P(n) == (n = 2 \/ decimal(units, n) # 0) /\ \A i \in n + 1 .. 6 : decimal(units, i) = 0
           n == CHOOSE m \in 2 .. 6 : P(m)
<1>1. \E m \in 2 .. 6 : P(m)
  <2>1. CASE decimal(units, 6) # 0
    BY <2>1
  <2>2. CASE decimal(units, 6) = 0 /\ decimal(units, 5) # 0
    BY <2>2
  <2>3. CASE decimal(units, 6) = 0 /\ decimal(units, 5) = 0 /\ decimal(units, 4) # 0
    BY <2>3
  <2>4. CASE decimal(units, 6) = 0 /\ decimal(units, 5) = 0 /\ decimal(units, 4) = 0 /\ decimal(units, 3) # 0
    BY <2>4
  <2>5. CASE decimal(units, 6) = 0 /\ decimal(units, 5) = 0 /\ decimal(units, 4) = 0 /\ decimal(units, 3) = 0
    BY <2>5
  <2> QED BY <2>1, <2>2, <2>3, <2>4, <2>5
<1>2. n \in 2 .. 6 /\ \A i \in n + 1 .. 6 : decimal(units, i) = 0
  BY <1>1
<1>3. formatSpcTotal(units) = digits(units, n)
  BY DEF formatSpcTotal
<1> HIDE DEF n
<1> DEFINE W == <<"whole", Whole(units)>>
           D == [i \in 1 .. n |-> <<"digit", decimal(units, i)>>]
           start == <<W, <<".">>>>
           t == digits(units, n)
<1>4. t = start \o D
  BY DigitsWritten
<1>5. /\ D \in Seq({<<"digit", decimal(units, i)>> : i \in 1 .. n}) /\ Len(D) = n
      /\ \A i \in 1 .. n : D[i] = <<"digit", decimal(units, i)>>
  <2>1. n \in Nat
    BY <1>2
  <2>2. D \in [1 .. n -> {<<"digit", decimal(units, i)>> : i \in 1 .. n}]
    OBVIOUS
  <2>3. D \in Seq({<<"digit", decimal(units, i)>> : i \in 1 .. n})
    <3> HIDE DEF D
    <3> QED BY <2>1, <2>2, SeqDef, Zenon
  <2>4. Len(D) \in Nat /\ DOMAIN D = 1 .. Len(D) /\ DOMAIN D = 1 .. n
    BY <2>3, LenProperties
  <2> QED BY <2>1, <2>3, <2>4
<1>6. IsText(D)
  BY <1>5, TextOf
<1>7. IsText(start) /\ Len(start) = 2 /\ start[1] = W /\ start[2] = <<".">>
  BY TwoText
<1> HIDE DEF D, start, W
<1> DEFINE S == Range(start) \union Range(D)
<1>8. start \in Seq(S) /\ D \in Seq(S)
  BY <1>6, <1>7, SeqMonotonic DEF IsText
<1> HIDE DEF S
<1>9. /\ start \o D \in Seq(S) /\ Len(start \o D) = 2 + n
      /\ \A i \in 1 .. 2 + n : (start \o D)[i] = IF i <= 2 THEN start[i] ELSE D[i - 2]
  <2>1. Len(D) = n /\ Len(start) = 2
    BY <1>5, <1>7, Zenon
  <2>2. /\ start \o D \in Seq(S) /\ Len(start \o D) = Len(start) + Len(D)
        /\ \A i \in 1 .. Len(start) + Len(D) : (start \o D)[i] = IF i <= Len(start) THEN start[i] ELSE D[i - Len(start)]
    BY <1>8, ConcatProperties, Zenon
  <2> QED BY <2>1, <2>2, Zenon
<1> HIDE DEF t
<1>10. IsText(t) /\ Len(t) = 2 + n /\ t[1] = W /\ t[2] = <<".">> /\ \A i \in 1 .. n : t[2 + i] = D[i]
  <2>1. IsText(t)
    BY <1>4, <1>9, TextOf
  <2>2. \A i \in 1 .. n : t[2 + i] = D[i]
    <3> SUFFICES ASSUME NEW i \in 1 .. n PROVE t[2 + i] = D[i]
      OBVIOUS
    <3>1. 2 + i \in 1 .. 2 + n /\ ~(2 + i <= 2) /\ (2 + i) - 2 = i
      BY <1>2
    <3> QED BY <1>4, <1>9, <3>1
  <2>3. 1 \in 1 .. 2 + n /\ 2 \in 1 .. 2 + n
    BY <1>2
  <2>4. Len(t) = 2 + n
    BY <1>4, <1>9, Zenon
  <2>5. t[1] = W /\ t[2] = <<".">>
    <3>1. 1 <= 2 /\ 2 <= 2
      OBVIOUS
    <3> QED BY <1>4, <1>7, <1>9, <2>3, <3>1, Zenon
  <2> QED BY <2>1, <2>2, <2>4, <2>5, Zenon
<1>11. SPC_CURRENCY_AND_INSTRUMENT \notin Range(t)
  <2>1. SPC_CURRENCY_AND_INSTRUMENT # W /\ SPC_CURRENCY_AND_INSTRUMENT # <<".">>
        /\ \A i : SPC_CURRENCY_AND_INSTRUMENT # <<"digit", decimal(units, i)>>
    <3>1. Len(SPC_CURRENCY_AND_INSTRUMENT) = 1 /\ SPC_CURRENCY_AND_INSTRUMENT # <<".">>
      BY Zenon DEF SPC_CURRENCY_AND_INSTRUMENT
    <3>2. Len(W) = 2 /\ \A i : Len(<<"digit", decimal(units, i)>>) = 2
      BY DEF W
    <3>3. 1 # 2
      OBVIOUS
    <3> QED BY <3>1, <3>2, <3>3, Zenon
  <2>2. Len(t) = 2 + n /\ Range(t) = {t[i] : i \in 1 .. Len(t)}
    BY <1>10, TextFacts
  <2>3. ASSUME NEW i \in 1 .. 2 + n PROVE t[i] # SPC_CURRENCY_AND_INSTRUMENT
    <3>1. i = 1 \/ i = 2 \/ (i - 2 \in 1 .. n /\ 2 + (i - 2) = i)
      BY <1>2
    <3> QED BY <1>5, <1>10, <2>1, <3>1, Zenon
  <2> QED BY <2>2, <2>3
<1> QED BY <1>2, <1>3, <1>5, <1>10, <1>11, Zenon DEF t, W

\* Two totals written alike are one.
LEMMA TotalTells ==
  ASSUME NEW u \in Nat, NEW v \in Nat, formatSpcTotal(u) = formatSpcTotal(v)
  PROVE  u = v
<1> DEFINE t == formatSpcTotal(u)
<1>1. PICK n \in 2 .. 6 :
        /\ Len(t) = 2 + n /\ t[1] = <<"whole", Whole(u)>>
        /\ \A i \in 1 .. n : t[2 + i] = <<"digit", decimal(u, i)>>
        /\ \A i \in n + 1 .. 6 : decimal(u, i) = 0
  BY TotalWritten, Zenon
<1>2. PICK m \in 2 .. 6 :
        /\ Len(t) = 2 + m /\ t[1] = <<"whole", Whole(v)>>
        /\ \A i \in 1 .. m : t[2 + i] = <<"digit", decimal(v, i)>>
        /\ \A i \in m + 1 .. 6 : decimal(v, i) = 0
  BY TotalWritten, Zenon
<1> HIDE DEF t
<1>3. m = n
  BY <1>1, <1>2
<1>4. Whole(u) = Whole(v)
  <2>1. <<"whole", Whole(u)>> = <<"whole", Whole(v)>>
    BY <1>1, <1>2, Zenon
  <2> QED BY <2>1
<1>5. ASSUME NEW i \in 1 .. 6 PROVE decimal(u, i) = decimal(v, i)
  <2>1. CASE i \in 1 .. n
    <3>1. <<"digit", decimal(u, i)>> = <<"digit", decimal(v, i)>>
      BY <1>1, <1>2, <1>3, <2>1, Zenon
    <3> QED BY <3>1
  <2>2. CASE i \in n + 1 .. 6
    BY <1>1, <1>2, <1>3, <2>2, Zenon
  <2> QED BY <2>1, <2>2
<1>6. u \div 1000000 = v \div 1000000
  BY <1>4, SMT DEF Whole
<1> QED BY <1>5, <1>6, DecimalsTell, SMT

-----------------------------------------------------------------------------
(***************************************************************************)
(* A payment sheet passes for what it showed, on VeraKey's page, and for   *)
(* nothing else.                                                           *)
(***************************************************************************)
LEMMA SplitThree ==
  ASSUME NEW json, IsText(json), NEW n \in Nat, NEW x, NEW y, NEW z
  PROVE  Reads(json, n, <<x, y, z>>) <=> Reads(json, n, <<x>>) /\ Reads(json, n + 1, <<y>>) /\ Reads(json, n + 2, <<z>>)
<1>1. Len(json) \in Nat
  BY TextFacts
<1>2. /\ Reads(json, n, <<x, y, z>>) <=> n + 3 <= Len(json) /\ json[n + 1] = x /\ json[n + 2] = y /\ json[n + 3] = z
      /\ Reads(json, n, <<x>>) <=> n + 1 <= Len(json) /\ json[n + 1] = x
  BY ReadsThree, ReadsOne
<1>3. /\ Reads(json, n + 1, <<y>>) <=> (n + 1) + 1 <= Len(json) /\ json[(n + 1) + 1] = y
      /\ Reads(json, n + 2, <<z>>) <=> (n + 2) + 1 <= Len(json) /\ json[(n + 2) + 1] = z
  <2>1. n + 1 \in Nat /\ n + 2 \in Nat
    OBVIOUS
  <2> QED BY <2>1, ReadsOne
<1>4. (n + 1) + 1 = n + 2 /\ (n + 2) + 1 = n + 3
  OBVIOUS
<1> QED BY <1>1, <1>2, <1>3, <1>4

LEMMA PaidPlaces ==
  ASSUME NEW l \in Nat, NEW q \in Nat, NEW r \in Nat
  PROVE  /\ 3 \in Nat /\ 3 + l \in Nat /\ 6 + l \in Nat /\ 6 + l + l \in Nat /\ 9 + l + l \in Nat /\ 9 + l + l + q \in Nat
         /\ 10 + l + l + q \in Nat /\ 10 + l + l + q + r \in Nat
         /\ (3 + l) + 1 = 4 + l /\ (3 + l) + 2 = 5 + l /\ 9 + l + l + 0 = 9 + l + l
         /\ (9 + l + l + q) + 1 = 10 + l + l + q /\ (9 + l + l + q) + (1 + r) = 10 + l + l + q + r
         /\ 4 + l \in Nat /\ 5 + l \in Nat /\ \A m \in Nat : 6 + l + m \in Nat
OBVIOUS

\* A token stands at one place only.
LEMMA OneToken ==
  ASSUME NEW json, IsText(json), NEW n \in Nat, NEW x, NEW y, Reads(json, n, <<x>>), Reads(json, n, <<y>>)
  PROVE  x = y
BY ReadsOne

LEMMA SheetTokens ==
  /\ SPC_RP_ID_KEY # SPC_CROSS_ORIGIN_KEY /\ SPC_LOGOS # SPC_TOTAL_KEY /\ GET # PAYMENT
  /\ {SPC_RP_ID_KEY, SPC_CROSS_ORIGIN_KEY, SPC_PAYEE_NAME_KEY} \subseteq Punctuation
BY Zenon DEF SPC_RP_ID_KEY, SPC_CROSS_ORIGIN_KEY, SPC_LOGOS, SPC_TOTAL_KEY, GET, PAYMENT, Punctuation

LEMMA JoinTotal ==
  ASSUME NEW json, IsText(json), NEW n \in Nat, NEW x, NEW t, IsText(t), NEW y
  PROVE  /\ IsText(<<x>> \o t \o <<y>>)
         /\ Reads(json, n, <<x>> \o t \o <<y>>) <=>
              Reads(json, n, <<x>>) /\ Reads(json, n + 1, t) /\ Reads(json, n + 1 + Len(t), <<y>>)
<1>1. IsText(<<x>>) /\ IsText(<<y>>) /\ Len(<<x>>) = 1
  BY OneText
<1>2. Len(t) \in Nat
  BY TextFacts
<1>3. n + (1 + Len(t)) = n + 1 + Len(t)
  BY <1>2
<1> DEFINE a == <<x>>
           b == <<y>>
<1> HIDE DEF a, b
<1>4. /\ IsText(a \o t \o b)
      /\ Reads(json, n, a \o t \o b) <=>
           Reads(json, n, a) /\ Reads(json, n + Len(a), t) /\ Reads(json, n + (Len(a) + Len(t)), b)
  BY <1>1, JoinThree, Zenon DEF a, b
<1>5. Len(a) = 1
  BY <1>1 DEF a
<1>6. /\ IsText(a \o t \o b)
      /\ Reads(json, n, a \o t \o b) <=> Reads(json, n, a) /\ Reads(json, n + 1, t) /\ Reads(json, n + 1 + Len(t), b)
  BY <1>3, <1>4, <1>5, Zenon
<1> QED BY <1>6, Zenon DEF a, b

LEMMA SheetOf ==
  ASSUME NEW how \in Ceremonies, how.sheet # NoSheet
  PROVE  how.top \in BOOLEAN /\ how.tail \in {<<>>, <<SPC_LOGOS>>} /\ how.sheet.total \in Nat
BY BrowserAssumption, Zenon

\* What the account takes from a sheet's text is what the sheet showed.
LEMMA SheetPaid ==
  ASSUME NEW how \in Ceremonies, how.sheet # NoSheet, NEW challenge, NEW json, json = paymentJSON(how, challenge),
         NEW payment, payment.total \in Nat,
         verify_payment(json, challenge, ORIGIN, payment) = <<"rpId", RpId>>
  PROVE  /\ how.origin = ORIGIN /\ how.top
         /\ how.sheet.payee = payment.payee /\ how.sheet.total = payment.total
<1> DEFINE total == formatSpcTotal(how.sheet.total)
           paid == format_total(payment.total)
           tkey == <<SPC_TOTAL_KEY>>
           currency == <<SPC_CURRENCY_AND_INSTRUMENT>>
<1>1. /\ IsText(ORIGIN) /\ IsText(how.origin) /\ IsText(how.topOrigin) /\ IsText(how.tail)
      /\ IsText(total) /\ IsText(paid) /\ IsText(tkey) /\ Len(tkey) = 1 /\ IsText(currency)
  BY TextAt, TotalText, TotalsAgree, OneText
<1>2. how.top \in BOOLEAN /\ how.tail \in {<<>>, <<SPC_LOGOS>>} /\ how.sheet.total \in Nat
  BY SheetOf
<1>3. /\ SPC_CURRENCY_AND_INSTRUMENT \notin Range(total) /\ SPC_CURRENCY_AND_INSTRUMENT \notin Range(paid)
      /\ paid = formatSpcTotal(payment.total)
  BY <1>2, TotalWritten, TotalsAgree, Zenon
<1> HIDE DEF total, paid, tkey, currency
<1>a. PICK l \in Nat : l = Len(ORIGIN)
  BY <1>1, TextFacts, Zenon
<1>b. PICK o \in Nat, p \in Nat, q \in Nat :
      /\ o = Len(how.origin) /\ p = Len(how.topOrigin) /\ q = Len(how.tail)
      /\ IsText(json) /\ Reads(json, 0, <<PAYMENT, challenge, ORIGIN_KEY>>)
      /\ Reads(json, 3, how.origin) /\ Reads(json, 3 + o, FrameKeys(how)) /\ Reads(json, 6 + o, how.topOrigin)
      /\ Reads(json, 6 + o + p, NameShown(how)) /\ Reads(json, 9 + o + p, how.tail)
      /\ Reads(json, 9 + o + p + q, <<SPC_TOTAL_KEY>>) /\ Reads(json, 10 + o + p + q, total)
      /\ Reads(json, 10 + o + p + q + Len(total), <<SPC_CURRENCY_AND_INSTRUMENT>>)
  <2>1. total = formatSpcTotal(how.sheet.total)
    BY DEF total
  <2>2. SheetText(how, challenge, json, total)
    BY <2>1, SheetReads, Zenon
  <2> QED BY <2>2, Zenon DEF SheetText
<1>4. l = Len(ORIGIN) /\ o = Len(how.origin) /\ p = Len(how.topOrigin) /\ q = Len(how.tail)
  BY <1>a, <1>b, Zenon
<1>5. /\ IsText(json)
      /\ Reads(json, 3, how.origin) /\ Reads(json, 3 + o, FrameKeys(how)) /\ Reads(json, 6 + o, how.topOrigin)
      /\ Reads(json, 6 + o + p, NameShown(how)) /\ Reads(json, 9 + o + p, how.tail)
      /\ Reads(json, 9 + o + p + q, tkey) /\ Reads(json, 10 + o + p + q, total)
      /\ Reads(json, 10 + o + p + q + Len(total), currency)
  BY <1>b, Zenon DEF tkey, currency
<1>6. Shows(json, challenge, payment, l)
  BY <1>1, <1>4, <1>5, PaymentIff, Zenon
<1>7. how.origin = ORIGIN /\ how.top
  <2>1. Reads(json, 3 + o, <<FrameKey(how)>>)
    <3>1. 3 + o \in Nat
      OBVIOUS
    <3> QED BY <1>5, <3>1, SplitThree, Zenon DEF FrameKeys
  <2>2. FrameKey(how) \in Punctuation
    BY SheetTokens, Zenon DEF FrameKey
  <2>3. FrameKey(how) \notin Range(ORIGIN) /\ SPC_RP_ID_KEY \notin Range(how.origin)
    BY <2>2, OriginTokens, SheetTokens
  <2>4. /\ 3 \in Nat /\ Reads(json, 3, how.origin) /\ Reads(json, 3 + Len(how.origin), <<FrameKey(how)>>)
        /\ Reads(json, 3, ORIGIN) /\ Reads(json, 3 + Len(ORIGIN), <<SPC_RP_ID_KEY>>)
        /\ IsText(json) /\ IsText(how.origin) /\ IsText(ORIGIN)
    BY <1>1, <1>4, <1>5, <1>6, <2>1, PaidPlaces, Zenon DEF Shows
  <2>5. how.origin = ORIGIN /\ FrameKey(how) = SPC_RP_ID_KEY
    BY <2>3, <2>4, Delimited
  <2> QED BY <1>2, <2>5, SheetTokens, Zenon DEF FrameKey
<1>8. o = l
  BY <1>4, <1>7, Zenon
<1>9. how.topOrigin = ORIGIN
  <2>1. 6 + l + p \in Nat /\ 6 + l + l \in Nat /\ 6 + l \in Nat
    OBVIOUS
  <2>2. Reads(json, 6 + l + p, <<SPC_PAYEE_NAME_KEY>>)
    BY <1>5, <1>8, <2>1, SplitThree, Zenon DEF NameShown
  <2>3. Reads(json, 6 + l + l, <<SPC_PAYEE_NAME_KEY>>) /\ Reads(json, 6 + l, ORIGIN)
    BY <1>5, <1>6, <2>1, SplitThree, Zenon DEF Shows
  <2>4. SPC_PAYEE_NAME_KEY \notin Range(ORIGIN) /\ SPC_PAYEE_NAME_KEY \notin Range(how.topOrigin)
    BY OriginTokens, SheetTokens
  <2>5. /\ Reads(json, 6 + l, how.topOrigin) /\ Reads(json, 6 + l + Len(how.topOrigin), <<SPC_PAYEE_NAME_KEY>>)
        /\ Reads(json, 6 + l, ORIGIN) /\ Reads(json, 6 + l + Len(ORIGIN), <<SPC_PAYEE_NAME_KEY>>)
        /\ IsText(json) /\ IsText(how.topOrigin) /\ IsText(ORIGIN)
    BY <1>1, <1>4, <1>5, <1>8, <2>2, <2>3, Zenon
  <2> QED BY <2>1, <2>4, <2>5, Delimited
<1>10. p = l
  BY <1>4, <1>9, Zenon
<1>11. how.sheet.payee = payment.payee
  <2>1. 6 + l + l \in Nat /\ 6 + l + l + 1 \in Nat
    OBVIOUS
  <2>2. Reads(json, 6 + l + l + 1, <<payee_name(how.sheet.payee)>>)
    BY <1>5, <1>8, <1>10, <2>1, SplitThree, Zenon DEF NameShown
  <2>3. Reads(json, 6 + l + l + 1, <<payee_name(payment.payee)>>)
    BY <1>5, <1>6, <2>1, SplitThree, Zenon DEF Shows
  <2>4. payee_name(how.sheet.payee) = payee_name(payment.payee)
    BY <1>5, <2>1, <2>2, <2>3, OneToken, Zenon
  <2> QED BY <2>4 DEF payee_name
<1>12. PICK logos \in {<<>>, <<SPC_LOGOS>>} : Reads(json, 9 + l + l, logos \o (tkey \o paid \o currency))
  BY <1>6, Zenon DEF Shows, tkey, paid, currency
<1>13. IsText(tkey \o paid \o currency) /\ IsText(logos)
  <2>1. 9 \in Nat
    OBVIOUS
  <2>2. IsText(tkey \o paid \o currency)
    BY <1>1, <1>5, <2>1, JoinTotal, Zenon DEF tkey, currency
  <2> QED BY <1>12, <2>2, NoText, OneText, Zenon
<1>14. Reads(json, 9 + l + l, logos) /\ Reads(json, 9 + l + l + Len(logos), tkey \o paid \o currency)
  BY <1>5, <1>12, <1>13, ReadsConcat, PaidPlaces, Zenon
<1>15. Len(logos) \in Nat /\ Reads(json, 9 + l + l + Len(logos), tkey)
  <2>1. Len(logos) \in Nat
    BY <1>13, TextFacts, Zenon
  <2>2. 9 + l + l + Len(logos) \in Nat
    BY <2>1, PaidPlaces, Zenon
  <2> QED BY <1>1, <1>5, <1>14, <2>1, <2>2, JoinTotal, Zenon DEF tkey, currency
<1>16. Reads(json, 9 + l + l, how.tail) /\ Reads(json, 9 + l + l + q, tkey)
  BY <1>5, <1>8, <1>10, Zenon
<1>17. logos = how.tail
  <2>1. Len(<<>>) = 0 /\ 9 + l + l \in Nat
    OBVIOUS
  <2>2. ASSUME NEW x \in {<<>>, <<SPC_LOGOS>>}, NEW y \in {<<>>, <<SPC_LOGOS>>},
               Reads(json, 9 + l + l, x), Reads(json, 9 + l + l + Len(y), tkey), y = <<>>
        PROVE  x = <<>>
    <3>1. Reads(json, 9 + l + l, <<SPC_TOTAL_KEY>>)
      BY <2>1, <2>2, PaidPlaces, Zenon DEF tkey
    <3>2. ~Reads(json, 9 + l + l, <<SPC_LOGOS>>)
      BY <1>5, <2>1, <3>1, OneToken, SheetTokens, Zenon
    <3> QED BY <2>2, <3>2, Zenon
  <2>3. logos = <<>> <=> how.tail = <<>>
    BY <1>2, <1>4, <1>14, <1>15, <1>16, <2>2, Zenon
  <2> QED BY <1>2, <1>12, <2>3, Zenon
<1>18. Reads(json, 9 + l + l + q, tkey \o paid \o currency)
  BY <1>4, <1>14, <1>17, Zenon
<1>19. Reads(json, 10 + l + l + q, paid) /\ Reads(json, 10 + l + l + q + Len(paid), currency)
  <2>1. Reads(json, 9 + l + l + q + 1, paid) /\ Reads(json, 9 + l + l + q + 1 + Len(paid), currency)
    BY <1>1, <1>5, <1>18, PaidPlaces, JoinTotal, Zenon DEF tkey, currency
  <2>2. 9 + l + l + q + 1 = 10 + l + l + q
    OBVIOUS
  <2> QED BY <2>1, <2>2, Zenon
<1>20. Reads(json, 10 + l + l + q, total) /\ Reads(json, 10 + l + l + q + Len(total), currency)
  BY <1>5, <1>8, <1>10, Zenon
<1>21. total = paid
  <2>1. 10 + l + l + q \in Nat
    OBVIOUS
  <2>2. IsText(total) /\ IsText(paid) /\ IsText(json)
    BY <1>1, <1>5, Zenon
  <2> QED BY <1>3, <1>19, <1>20, <2>1, <2>2, Delimited, Zenon DEF currency
<1>22. how.sheet.total = payment.total
  BY <1>2, <1>3, <1>21, TotalTells, Zenon DEF total
<1> QED BY <1>7, <1>11, <1>22, Zenon

\* A sheet shown on VeraKey's page passes for the payment it showed.
LEMMA SheetPasses ==
  ASSUME NEW how \in Ceremonies, how.sheet # NoSheet, NEW challenge, NEW json, json = paymentJSON(how, challenge),
         NEW payment, payment.total \in Nat, how.sheet.payee = payment.payee, how.sheet.total = payment.total,
         how.origin = ORIGIN, how.topOrigin = ORIGIN, how.top, Len(json) <= MAX_CLIENT_DATA_LEN
  PROVE  verify_payment(json, challenge, ORIGIN, payment) = <<"rpId", RpId>>
<1> DEFINE total == formatSpcTotal(how.sheet.total)
           tkey == <<SPC_TOTAL_KEY>>
           currency == <<SPC_CURRENCY_AND_INSTRUMENT>>
<1>1. /\ IsText(ORIGIN) /\ IsText(how.tail) /\ IsText(total) /\ IsText(tkey) /\ Len(tkey) = 1 /\ IsText(currency)
  BY TextAt, TotalText, OneText
<1>2. total = format_total(payment.total) /\ how.tail \in {<<>>, <<SPC_LOGOS>>}
  BY TotalsAgree, SheetOf
<1> HIDE DEF total, tkey, currency
<1>3. PICK l \in Nat, q \in Nat : l = Len(ORIGIN) /\ q = Len(how.tail)
  BY <1>1, TextFacts, Zenon
<1>4. /\ IsText(json) /\ Reads(json, 0, <<PAYMENT, challenge, ORIGIN_KEY>>)
      /\ Reads(json, 3, ORIGIN) /\ Reads(json, 3 + l, FrameKeys(how)) /\ Reads(json, 6 + l, ORIGIN)
      /\ Reads(json, 6 + l + l, NameShown(how)) /\ Reads(json, 9 + l + l, how.tail)
      /\ Reads(json, 9 + l + l + q, tkey) /\ Reads(json, 10 + l + l + q, total)
      /\ Reads(json, 10 + l + l + q + Len(total), currency)
  <2>1. PICK o \in Nat, p \in Nat, k \in Nat :
        /\ o = Len(how.origin) /\ p = Len(how.topOrigin) /\ k = Len(how.tail)
        /\ IsText(json) /\ Reads(json, 0, <<PAYMENT, challenge, ORIGIN_KEY>>)
        /\ Reads(json, 3, how.origin) /\ Reads(json, 3 + o, FrameKeys(how)) /\ Reads(json, 6 + o, how.topOrigin)
        /\ Reads(json, 6 + o + p, NameShown(how)) /\ Reads(json, 9 + o + p, how.tail)
        /\ Reads(json, 9 + o + p + k, <<SPC_TOTAL_KEY>>) /\ Reads(json, 10 + o + p + k, total)
        /\ Reads(json, 10 + o + p + k + Len(total), <<SPC_CURRENCY_AND_INSTRUMENT>>)
    <3>1. total = formatSpcTotal(how.sheet.total)
      BY DEF total
    <3>2. SheetText(how, challenge, json, total)
      BY <3>1, SheetReads, Zenon
    <3> QED BY <3>2, Zenon DEF SheetText
  <2>2. o = l /\ p = l /\ k = q
    BY <1>3, <2>1, Zenon
  <2> QED BY <2>1, <2>2, Zenon DEF tkey, currency
<1>5. Reads(json, 3 + l, <<SPC_RP_ID_KEY>>) /\ Reads(json, 4 + l, <<<<"rpId", RpId>>>>)
      /\ Reads(json, 5 + l, <<SPC_TOP_ORIGIN_KEY>>)
  BY <1>4, SplitThree, PaidPlaces, Zenon DEF FrameKeys, FrameKey
<1>6. 9 + l + l \in Nat /\ 9 + l + l + q \in Nat /\ 9 + l + l + q + 1 = 10 + l + l + q
  OBVIOUS
<1>7. IsText(tkey \o total \o currency) /\ Reads(json, 9 + l + l + q, tkey \o total \o currency)
  BY <1>1, <1>4, <1>6, JoinTotal, Zenon DEF tkey, currency
<1>8. Reads(json, 9 + l + l, how.tail \o (tkey \o total \o currency))
  <2>1. Reads(json, 9 + l + l + Len(how.tail), tkey \o total \o currency)
    BY <1>3, <1>7, Zenon
  <2>2. IsText(json) /\ IsText(how.tail) /\ Reads(json, 9 + l + l, how.tail)
    BY <1>1, <1>4, Zenon
  <2> QED BY <1>6, <1>7, <2>1, <2>2, ReadsConcat, Zenon
<1>9. Shows(json, challenge, payment, l)
  BY <1>2, <1>4, <1>5, <1>8, Zenon DEF Shows, NameShown, tkey, currency
<1> QED BY <1>1, <1>3, <1>4, <1>9, PaymentIff, Zenon

-----------------------------------------------------------------------------
(***************************************************************************)
(* No reader takes one kind of text for the other.                         *)
(***************************************************************************)
\* What a text is begins it, and who asks for an ordinary assertion reads no payment.
LEMMA FirstToken ==
  ASSUME NEW how \in Ceremonies, NEW challenge, NEW json, json = serialize(how, challenge)
  PROVE  /\ IsText(json) /\ Len(json) \in Nat
         /\ how.sheet = NoSheet => json[1] = GET /\ Head(json) = GET
         /\ how.sheet # NoSheet => json[1] = PAYMENT /\ Head(json) = PAYMENT
<1>1. IsText(json) /\ Len(json) \in Nat /\ Len(json) >= 3
  BY PaymentBegins
<1>2. Head(json) = json[1]
  BY <1>1 DEF IsText
<1>3. ASSUME NEW x, NEW y, NEW z, Reads(json, 0, <<x, y, z>>) PROVE json[1] = x
  <2>1. json[0 + 1] = x
    BY <1>1, <1>3, ReadsThree
  <2> QED BY <2>1
<1>4. ASSUME how.sheet = NoSheet PROVE json[1] = GET
  <2>1. json = getJSON(how, challenge)
    BY <1>4 DEF serialize
  <2>2. Reads(json, 0, <<GET, challenge, ORIGIN_KEY>>)
    BY <2>1, PlainReads, Zenon
  <2> QED BY <1>3, <2>2, Zenon
<1>5. ASSUME how.sheet # NoSheet PROVE json[1] = PAYMENT
  <2>1. json = paymentJSON(how, challenge)
    BY <1>5 DEF serialize
  <2>2. SheetText(how, challenge, json, formatSpcTotal(how.sheet.total))
    BY <2>1, SheetReads, Zenon
  <2>3. Reads(json, 0, <<PAYMENT, challenge, ORIGIN_KEY>>)
    BY <2>2, Zenon DEF SheetText
  <2> QED BY <1>3, <2>3, Zenon
<1> QED BY <1>1, <1>2, <1>4, <1>5, Zenon

LEMMA GetFirst ==
  ASSUME NEW json, IsText(json), Len(json) \in Nat, NEW challenge,
         \/ matches(json, challenge, ORIGIN) \/ _checkClientData(json, challenge) \/ signed_on_verakey(json, challenge)
  PROVE  json[1] = GET
<1>1. CASE matches(json, challenge, ORIGIN)
  <2>1. Reads(json, 0, <<GET, challenge, ORIGIN_KEY>>)
    BY <1>1, TextAssumption, MatchesIff DEF IsText
  <2>2. json[0 + 1] = GET
    BY <2>1, ReadsThree
  <2> QED BY <2>2
<1>2. CASE _checkClientData(json, challenge)
  BY <1>2 DEF _checkClientData
<1>3. CASE signed_on_verakey(json, challenge)
  <2> DEFINE part == SubSeq(json, 1, 3)
             three == <<GET, challenge, ORIGIN_KEY>>
  <2>1. part = three
    BY <1>3, Zenon DEF signed_on_verakey
  <2>2. three[1] = GET /\ Len(three) = 3
    BY ThreeText
  <2>3. part[1] = json[1]
    BY DEF IsText
  <2> HIDE DEF part, three
  <2> QED BY <2>1, <2>2, <2>3
<1> QED BY <1>1, <1>2, <1>3

\* Wherever a sheet's text ends, nobody takes it for an ordinary one.
LEMMA NoPaymentReads ==
  ASSUME NEW how \in Ceremonies, how.sheet # NoSheet, NEW challenge, NEW other, NEW json, json = serialize(how, challenge)
  PROVE  /\ ~signed_on_verakey(json, other) /\ ~matches(json, other, ORIGIN)
         /\ \A n \in 0 .. Len(json) : /\ ~verify(SubSeq(json, 1, n), other, ORIGIN)
                                      /\ ~_checkClientData(SubSeq(json, 1, n), other)
<1>1. IsText(json) /\ Len(json) \in Nat /\ json[1] = PAYMENT
  BY FirstToken, Zenon
<1>2. GET # PAYMENT
  BY SheetTokens
<1>3. ~signed_on_verakey(json, other) /\ ~matches(json, other, ORIGIN)
  BY <1>1, <1>2, GetFirst, Zenon
<1>4. ASSUME NEW n \in 0 .. Len(json), NEW text, text = SubSeq(json, 1, n)
      PROVE  ~verify(text, other, ORIGIN) /\ ~_checkClientData(text, other)
  <2>1. n \in Nat /\ n <= Len(json)
    BY <1>1
  <2>2. IsText(text) /\ Len(text) = n /\ \A i \in 1 .. n : text[i] = json[i]
    BY <1>1, <1>4, <2>1, FirstPart, Zenon
  <2>3. CASE n = 0
    <3>1. Len(text) = 0 /\ IsText(ORIGIN) /\ Len(ORIGIN) \in Nat
      BY <2>2, <2>3, TextAt
    <3>2. ~(Len(text) >= 5 + Len(ORIGIN))
      BY <3>1
    <3> QED BY <2>2, <3>1, <3>2, VerifyIff, ModuleIff, Zenon
  <2>4. CASE n # 0
    <3>1. 1 \in 1 .. n
      BY <2>1, <2>4
    <3>2. IsText(text) /\ Len(text) \in Nat /\ text[1] = PAYMENT
      BY <1>1, <2>1, <2>2, <3>1, Zenon
    <3> QED BY <1>2, <3>2, GetFirst, Zenon DEF verify
  <2> QED BY <2>3, <2>4
<1> QED BY <1>3, <1>4, Zenon
=============================================================================
