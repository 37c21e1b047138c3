------------------------------ MODULE ClientData ------------------------------
(***************************************************************************)
(* What a browser writes into clientDataJSON for a passkey, and the four   *)
(* places that read it: the Stylus account byte by byte (client_data.rs),  *)
(* the ERC-7579 module at fixed offsets (VeraKeyValidator.sol), and sites  *)
(* and audiences with JSON.parse (signin.ts, disclosure.ts).               *)
(*                                                                         *)
(* The text is a sequence of tokens, each a piece no reader looks into: a  *)
(* key with the punctuation around it, a piece of an origin, a digest.  An *)
(* origin is several tokens, so that one can begin with another.           *)
(***************************************************************************)
EXTENDS Integers, FiniteSetsExt, SequencesExt

CONSTANTS
  ORIGIN,               \* the deployment's origin, as tokens
  RpId,                 \* its WebAuthn relying party
  MAX_CLIENT_DATA_LEN   \* 1024 bytes, here in tokens

GET == <<"webauthn.get">>           \* TYPE_AND_CHALLENGE_KEY
PAYMENT == <<"payment.get">>        \* SPC_PREFIX
ORIGIN_KEY == <<"origin">>
QUOTE == <<"quote">>
CLOSE == <<"}">>
CROSS_ORIGIN_TRUE == <<",", "crossOrigin:true">>
SPC_RP_ID_KEY == <<"crossOrigin:false,payment">>
SPC_CROSS_ORIGIN_KEY == <<"crossOrigin:true,payment">>
SPC_TOP_ORIGIN_KEY == <<"topOrigin">>
SPC_PAYEE_NAME_KEY == <<"payeeName">>
SPC_LOGOS == <<"paymentEntitiesLogos">>
SPC_TOTAL_KEY == <<"total">>
SPC_CURRENCY_AND_INSTRUMENT == <<"currency:USD,instrument">>

Refused == <<"refused">>

After(json, head) == SubSeq(json, Len(head) + 1, Len(json))

-------------------------------------------------------------------------------
(* The total of a payment sheet, written by the browser's page and again   *)
(* by the account.                                                         *)

decimal(units, i) == ((units % 1000000) \div (10 ^ (6 - i))) % 10

digits(units, n) ==
  <<<<"whole", units \div 1000000>>, <<".">>>> \o [i \in 1 .. n |-> <<"digit", decimal(units, i)>>]

\* Mutant: trailing zeros go beyond the cents too.
format_total_short(units) == digits(units, Max({0} \union {i \in 1 .. 6 : decimal(units, i) # 0}))

\* client_data.rs: at least two decimals, no zeros after those.
format_total(units) == digits(units, Max({2} \union {i \in 1 .. 6 : decimal(units, i) # 0}))

\* webauthn.ts: drops a last zero while there are more than two decimals.
formatSpcTotal(units) ==
  digits(units, CHOOSE n \in 2 .. 6 : /\ n = 2 \/ decimal(units, n) # 0
                                      /\ \A i \in n + 1 .. 6 : decimal(units, i) = 0)

payee_name(payee) == <<"payee", payee>>

-------------------------------------------------------------------------------
(* The browser (external).  A ceremony c says what the browser knows: the  *)
(* page's origin, its frame, what it appends, and the sheet it showed.     *)

NoSheet == [payee |-> "none", total |-> 0]

getJSON(c, challenge) == <<GET, challenge, ORIGIN_KEY>> \o c.origin \o <<QUOTE>> \o c.tail

paymentJSON(c, challenge) ==
  <<PAYMENT, challenge, ORIGIN_KEY>> \o c.origin
    \o <<IF c.top THEN SPC_RP_ID_KEY ELSE SPC_CROSS_ORIGIN_KEY, <<"rpId", RpId>>, SPC_TOP_ORIGIN_KEY>>
    \o c.topOrigin \o <<SPC_PAYEE_NAME_KEY, payee_name(c.sheet.payee), QUOTE>>
    \o c.tail \o <<SPC_TOTAL_KEY>> \o formatSpcTotal(c.sheet.total)
    \o <<SPC_CURRENCY_AND_INSTRUMENT, CLOSE>>

serialize(c, challenge) == IF c.sheet = NoSheet THEN getJSON(c, challenge) ELSE paymentJSON(c, challenge)

-------------------------------------------------------------------------------
(* The readers.                                                            *)

\* client_data.rs: whether this is a webauthn.get of exactly this challenge and origin,
matches(json, challenge, origin) ==
  LET head == <<GET, challenge, ORIGIN_KEY>> \o origin \o <<QUOTE>>
      rest == After(json, head)
  IN /\ IsPrefix(head, json)
     /\ rest # <<>> /\ Head(rest)[1] \in {"}", ","} /\ Head(rest) # CROSS_ORIGIN_TRUE

\* in a text that is not too long to be read at all.
verify(json, challenge, origin) == Len(json) <= MAX_CLIENT_DATA_LEN /\ matches(json, challenge, origin)

\* Mutant: the sheet's total is not compared.
verify_payment_any_total(json, challenge, origin, payment) ==
  LET head == <<PAYMENT, challenge, ORIGIN_KEY>> \o origin \o <<SPC_RP_ID_KEY>>
      shown == <<SPC_TOP_ORIGIN_KEY>> \o origin \o <<SPC_PAYEE_NAME_KEY, payee_name(payment.payee), QUOTE>>
      rest == After(json, head)
  IN IF /\ Len(json) <= MAX_CLIENT_DATA_LEN
        /\ IsPrefix(head, json)
        /\ rest # <<>> /\ Head(rest)[1] = "rpId" /\ IsPrefix(shown, Tail(rest))
     THEN Head(rest) ELSE Refused

\* client_data.rs: the rpId signed by a payment sheet that showed exactly this payment.
verify_payment(json, challenge, origin, payment) ==
  LET head == <<PAYMENT, challenge, ORIGIN_KEY>> \o origin \o <<SPC_RP_ID_KEY>>
      shown == <<SPC_TOP_ORIGIN_KEY>> \o origin \o <<SPC_PAYEE_NAME_KEY, payee_name(payment.payee), QUOTE>>
      total == <<SPC_TOTAL_KEY>> \o format_total(payment.total) \o <<SPC_CURRENCY_AND_INSTRUMENT>>
      rest == After(json, head)
      sums == After(Tail(rest), shown)
  IN IF /\ Len(json) <= MAX_CLIENT_DATA_LEN
        /\ IsPrefix(head, json)
        /\ rest # <<>> /\ Head(rest)[1] = "rpId"
        /\ IsPrefix(shown, Tail(rest))
        /\ \E logos \in {<<>>, <<SPC_LOGOS>>} : IsPrefix(logos \o total, sums)
     THEN Head(rest) ELSE Refused

\* Mutant: the byte after the quote may be missing.
_checkClientData_truncated(json, challenge) ==
  LET quote == 4 + Len(ORIGIN) IN
  /\ Len(json) \in quote .. MAX_CLIENT_DATA_LEN
  /\ SubSeq(json, 1, quote) = <<GET, challenge, ORIGIN_KEY>> \o ORIGIN \o <<QUOTE>>
  /\ \/ Len(json) = quote
     \/ json[quote + 1][1] \in {"}", ","} /\ json[quote + 1] # CROSS_ORIGIN_TRUE

\* VeraKeyValidator.sol: the same, read at fixed offsets; `quote` is where the origin's quote must be.
_checkClientData(json, challenge) ==
  LET quote == 4 + Len(ORIGIN) IN
  /\ Len(json) <= MAX_CLIENT_DATA_LEN /\ Len(json) >= quote + 1
  /\ json[1] = GET /\ json[2] = challenge /\ json[3] = ORIGIN_KEY
  /\ SubSeq(json, 4, quote - 1) = ORIGIN /\ json[quote] = QUOTE
  /\ \/ json[quote + 1] = CLOSE
     \/ json[quote + 1][1] = "," /\ json[quote + 1] # CROSS_ORIGIN_TRUE

\* signin.ts and disclosure.ts: the fields of the whole parsed text, of any length.
signed_on_verakey(json, challenge) ==
  /\ Last(json) = CLOSE /\ SubSeq(json, 1, 3) = <<GET, challenge, ORIGIN_KEY>>
  /\ SubSeq(json, 4, SelectInSeq(json, LAMBDA token : token = QUOTE) - 1) = ORIGIN
  /\ ~Contains(json, CROSS_ORIGIN_TRUE)
=============================================================================
