---------------------------- MODULE ConnectProofs ---------------------------
(***************************************************************************)
(* Signing in and paying with the popup, for any calls, visits and number  *)
(* of mishaps: several payments in a visit, several sign-ins, any overlap. *)
(*                                                                         *)
(* A request goes to the popup once, when its values are there and the     *)
(* popup said it is ready.  Until then nothing was said of it and nothing  *)
(* sent (Untouched); afterwards what the popup says reaches the page in    *)
(* order, so a request that hears an end has heard of the sending before   *)
(* (SentInv).  That, and the two reads of the nonce (NonceInv), is why a   *)
(* payment that left the popup is never lost to the page.                  *)
(***************************************************************************)
EXTENDS ConnectProperties, SequenceTheorems, TLAPS

Live == {"wire", "pool", "mined"}

\* No message of call c waits to be read.
Quiet(c) == \A i \in DOMAIN inbox : inbox[i].call # c

NothingSent(c) == Quiet(c) /\ tx[c] = "none" /\ req[c].sending = -1 /\ ~req[c].sent

Untouched(c) == c \notin mail /\ popup.call # c /\ NothingSent(c)

\* A sending message of call c is among the first n.
Announced(c, n) == \E j \in 1 .. n : inbox[j].call = c /\ inbox[j].type = "sending"

Told(c, n) == req[c].sending >= 0 \/ Announced(c, n)

\* A request is handed to the popup once, when both sides are ready for it.
RequestInv(c) ==
  /\ stage[c] \in {"never", "new"} => Untouched(c)
  /\ stage[c] = "open" /\ ~(req[c].ready /\ req[c].values) => Untouched(c)
  /\ c \in mail =>
       /\ stage[c] = "open" /\ win.open /\ req[c].window = win.id
       /\ req[c].ready /\ req[c].values
       /\ popup.call # c /\ NothingSent(c)

\* The popup works for its window's request, and before it sends the page knows nothing of it.
PopupInv ==
  /\ popup.at \in {"loading", "waiting"} => popup.call = NoCall
  /\ popup.at \in {"ensuring", "signing", "relaying", "confirming"} => popup.call \in Pays
  /\ popup.call # NoCall => win.open /\ req[popup.call].window = win.id
  /\ popup.at \in {"asked", "ensuring", "signing"} =>
       stage[popup.call] = "open" /\ req[popup.call].ready /\ req[popup.call].values /\ NothingSent(popup.call)

\* What the popup reports as the nonce is what it signs, unless the nonce moved in between.
NonceInv ==
  /\ popup.at \in {"ensuring", "signing"} => popup.shown >= 0
  /\ popup.at = "ensuring" => popup.shown = nonce \/ popup.call \in moved
  /\ popup.at = "signing" => popup.shown = signed[popup.call] \/ popup.call \in moved
  /\ \A i \in DOMAIN inbox : inbox[i].type = "sending" =>
       inbox[i].nonce >= 0 /\ (inbox[i].nonce = signed[inbox[i].call] \/ inbox[i].call \in moved)
  /\ \A c \in Calls : req[c].sending # -1 =>
       req[c].sending >= 0 /\ (req[c].sending = signed[c] \/ c \in moved)
  /\ \A c \in Calls : named[c].by = "nonce" => named[c].nonce = signed[c] \/ c \in moved

\* Messages of a call come from its window, and an end that comes after the payment left the
\* popup says "relay" and comes after the message that it is being sent.
MessageOf(m, before) ==
  /\ m.call \in Calls /\ m.from = req[m.call].window
  /\ m.type \in {"sending", "submitted"} => tx[m.call] # "none"
  /\ m.type \in {"cancelled", "policy", "relay", "busy"} /\ tx[m.call] \in Live /\ stage[m.call] = "open" =>
       m.type = "relay" /\ Told(m.call, before)

MessageInv == \A i \in DOMAIN inbox : inbox[i].type # "ready" => MessageOf(inbox[i], i - 1)

\* The page has been told, or will be, of each payment that left the popup.
SentInv ==
  \A c \in Calls : tx[c] # "none" /\ stage[c] = "open" => Told(c, Len(inbox))

NamedInv ==
  \A c \in Calls :
    /\ stage[c] \in {"never", "new", "open"} => named[c] = Unnamed /\ outcome[c] = "none" /\ receipt[c] = NoCall
    /\ stage[c] \in {"asking", "answered"} /\ c \in Pays => named[c] # Unnamed
    /\ named[c].by = "nothing" => named[c] = Unnamed
    /\ stage[c] = "open" => c \in Opens

\* A receipt is of a payment mined and accepted, and the server gives each one once.
ReceiptInv ==
  \A c \in Pays :
    /\ answer[c] = "yes" \/ outcome[c] = "ok" => receipt[c] # NoCall
    /\ receipt[c] # NoCall =>
         /\ receipt[c] \in accepted /\ tx[receipt[c]] = "mined"
         /\ receipt[c] = c \/ named[c] = [by |-> "nonce", nonce |-> signed[receipt[c]]]
         /\ \A d \in Pays \ {c} : receipt[d] # receipt[c]

SingleRequest ==
  \A c, d \in Calls : stage[c] = "open" /\ stage[d] = "open" /\ req[c].conn = req[d].conn => c = d

\* With no lost answer and calls one after the other, what the page shows follows from the
\* call under way and the cookie.
Shown == IF cookie THEN "signed-in" ELSE "signed-out"

Agrees(c) ==
  CASE Kind[c] = "load" -> stage[c] = "answered" => (answer[c] = "yes" <=> cookie)
    [] Kind[c] = "signIn" -> IF stage[c] = "answered" THEN answer[c] = "yes" <=> cookie ELSE ~cookie
    [] Kind[c] = "signOut" -> stage[c] = "answered" => answer[c] = "yes" /\ ~cookie
    [] Kind[c] = "pay" ->
         /\ status # "loading" => status = Shown
         /\ stage[c] = "answered" => (answer[c] = "401" <=> ~cookie)

StatusInv ==
  /\ \A c \in Calls : answer[c] = "lost" => losses > 0
  /\ ~overlapped => \A c, d \in Calls : UnderWay(c) /\ UnderWay(d) => c = d
  /\ ~overlapped /\ losses = 0 =>
       /\ (\A c \in Calls : ~UnderWay(c)) /\ status # "loading" => status = Shown
       /\ \A c \in Calls : UnderWay(c) => Agrees(c)

PopupSide == (\A c \in Calls : RequestInv(c)) /\ PopupInv /\ NonceInv /\ MessageInv /\ SentInv /\ NamedInv

IInv == TypeOK /\ PopupSide /\ PaymentNamed /\ ReceiptInv /\ SingleRequest /\ PayingHonest /\ StatusInv

-----------------------------------------------------------------------------
(***************************************************************************)
(* Types                                                                   *)
(***************************************************************************)
Request == [conn : Nat, window : Nat, ready : BOOLEAN, values : BOOLEAN, sent : BOOLEAN, sending : Int]
Name == [by : {"nothing", "hash", "nonce"}, nonce : Int]
Message ==
  [from : Nat, call : Calls \union {NoCall}, nonce : Int,
   type : {"ready", "sending", "submitted", "result", "cancelled", "policy", "relay", "busy"}]

Window == [id : Nat, open : BOOLEAN]
Page ==
  [at : {"loading", "waiting", "asked", "ensuring", "signing", "relaying", "confirming", "finished"},
   call : Calls \union {NoCall}, shown : Int]
PopupStates == {"loading", "waiting", "asked", "ensuring", "signing", "relaying", "confirming", "finished"}
Stages == {"never", "new", "open", "asking", "answered", "done"}
Statuses == {"loading", "signed-out", "signing-in", "signed-in"}
Outcomes == {"none", "ok", "null", "error"}
Answers == {"none", "yes", "no", "401", "lost"}
Progress == {"none", "wire", "refused", "pool", "mined", "gone"}

\* The last two conjuncts of TypeOK.
Sensible ==
  /\ popup.at \in {"asked", "ensuring", "signing", "relaying", "confirming"} => popup.call # NoCall
  /\ popup.at = "loading" => mail = {}

LEMMA CallTypes ==
  ASSUME TypeOK
  PROVE  /\ status \in Statuses /\ paying \in BOOLEAN /\ connect \in Nat
         /\ stage \in [Calls -> Stages] /\ outcome \in [Calls -> Outcomes]
         /\ named \in [Calls -> Name] /\ req \in [Calls -> Request]
PROOF
  BY DEF TypeOK, PageType, Statuses, Stages, Outcomes, Name, Request

LEMMA PopupTypes ==
  ASSUME TypeOK
  PROVE  win \in Window /\ popup \in Page /\ inbox \in Seq(Message) /\ mail \subseteq Calls
PROOF
  BY DEF TypeOK, PopupType, Window, Page, Message

LEMMA RequestFields ==
  /\ NoRequest \in Request
  /\ \A r \in Request, n \in Nat : [r EXCEPT !.conn = n] \in Request
  /\ \A r \in Request, n \in Nat : [r EXCEPT !.window = n] \in Request
  /\ \A r \in Request, b \in BOOLEAN : [r EXCEPT !.ready = b] \in Request
  /\ \A r \in Request, b \in BOOLEAN : [r EXCEPT !.values = b] \in Request
  /\ \A r \in Request, b \in BOOLEAN : [r EXCEPT !.sent = b] \in Request
  /\ \A r \in Request, n \in Int : [r EXCEPT !.sending = n] \in Request
PROOF
<1>1. \A r \in Request, b \in BOOLEAN : [r EXCEPT !.ready = b] \in Request
  BY DEF Request
<1>2. \A r \in Request, b \in BOOLEAN : [r EXCEPT !.values = b] \in Request
  BY DEF Request
<1>3. \A r \in Request, b \in BOOLEAN : [r EXCEPT !.sent = b] \in Request
  BY DEF Request
<1>4. \A r \in Request, n \in Int : [r EXCEPT !.sending = n] \in Request
  BY DEF Request
<1>5. NoRequest \in Request
  BY DEF NoRequest, Request
<1>6. \A r \in Request, n \in Nat : [r EXCEPT !.conn = n] \in Request
  BY DEF Request
<1>7. \A r \in Request, n \in Nat : [r EXCEPT !.window = n] \in Request
  BY DEF Request
<1> QED
  BY <1>1, <1>2, <1>3, <1>4, <1>5, <1>6, <1>7

LEMMA EndedType ==
  ASSUME TypeOK, NEW c \in Calls, NEW code
  PROVE  Ended(c, code) \in Name
PROOF
<1>1. req[c] \in Request
  BY CallTypes
<1>2. req[c].sending \in Int
  BY <1>1 DEF Request
<1> QED
  BY <1>2 DEF Ended, Name, Unnamed

LEMMA ForgetType ==
  ASSUME TypeOK, NEW c \in Calls, forget(c)
  PROVE  req' \in [Calls -> Request]
PROOF
<1> DEFINE r1 == [req[c] EXCEPT !.ready = FALSE]
           r2 == [r1 EXCEPT !.sent = FALSE]
           r3 == [r2 EXCEPT !.sending = -1]
<1>1. req[c] \in Request
  BY CallTypes
<1>2. r1 \in Request
  BY <1>1, RequestFields
<1>3. r2 \in Request
  <2> HIDE DEF r1
  <2> QED
    BY <1>2, RequestFields
<1>4. r3 \in Request
  <2> HIDE DEF r2
  <2> QED
    BY <1>3, RequestFields
<1>5. req' = [req EXCEPT ![c] = r3]
  BY DEF forget
<1> HIDE DEF r3
<1> QED
  BY <1>4, <1>5, CallTypes

\* What the end of a request leaves.
LEMMA FailTypes ==
  ASSUME TypeOK, NEW c \in Calls, NEW code, fail(c, code)
  PROVE  /\ status' \in Statuses /\ paying' \in BOOLEAN /\ connect' \in Nat
         /\ stage' \in [Calls -> Stages] /\ outcome' \in [Calls -> Outcomes]
         /\ named' \in [Calls -> Name] /\ req' \in [Calls -> Request]
PROOF
<1>1. Ended(c, code) \in Name
  BY EndedType
<1>2. named' \in [Calls -> Name]
  <2>1. named' = [named EXCEPT ![c] = Ended(c, code)]
    BY DEF fail
  <2> QED
    BY <1>1, <2>1, CallTypes
<1>3. req' \in [Calls -> Request]
  BY ForgetType DEF fail
<1>4. stage' \in [Calls -> Stages] /\ outcome' \in [Calls -> Outcomes]
  BY CallTypes DEF fail, go, Stages, Outcomes
<1>5. status' \in Statuses /\ paying' \in BOOLEAN /\ connect' \in Nat
  BY CallTypes DEF fail, pageVars, Statuses
<1> QED
  BY <1>2, <1>3, <1>4, <1>5

LEMMA SayType ==
  ASSUME TypeOK, NEW c \in Calls \union {NoCall}, NEW n \in Int,
         NEW t \in {"ready", "sending", "submitted", "result", "cancelled", "policy", "relay", "busy"}, say(c, t, n)
  PROVE  inbox' \in Seq(Message)
PROOF
<1> DEFINE m == [from |-> win.id, type |-> t, call |-> c, nonce |-> n]
<1>1. win.id \in Nat
  BY PopupTypes DEF Window
<1>2. m \in Message
  BY <1>1 DEF Message
<1>3. inbox' = Append(inbox, m)
  BY DEF say
<1> HIDE DEF m
<1> QED
  BY <1>2, <1>3, PopupTypes, AppendProperties

LEMMA ShutType ==
  ASSUME TypeOK, shut
  PROVE  win' \in Window /\ popup' = Blank /\ mail' = {}
PROOF
  BY PopupTypes DEF shut, Window

LEMMA BlankType == Blank \in Page
PROOF
  BY DEF Blank, Page

LEMMA OutsideTypes ==
  ASSUME TypeOK
  PROVE  /\ answer \in [Calls -> Answers] /\ receipt \in [Calls -> Calls \union {NoCall}] /\ cookie \in BOOLEAN
         /\ nonce \in Nat /\ signed \in [Calls -> Int] /\ tx \in [Calls -> Progress]
         /\ accepted \subseteq Pays
         /\ others \in Nat /\ losses \in Nat /\ reloads \in Nat /\ others + losses + reloads <= MaxMishaps
         /\ overlapped \in BOOLEAN /\ moved \subseteq Pays /\ overtaken \subseteq Calls
PROOF
  BY BoundsAssumption DEF TypeOK, PageType, OutsideType, Answers, Progress

\* What TypeOK asks of the next state, part by part.
LEMMA PageTypeNext ==
  ASSUME status' \in Statuses, paying' \in BOOLEAN, connect' \in Nat, cookie' \in BOOLEAN,
         stage' \in [Calls -> Stages], answer' \in [Calls -> Answers], outcome' \in [Calls -> Outcomes],
         named' \in [Calls -> Name], receipt' \in [Calls -> Calls \union {NoCall}], req' \in [Calls -> Request]
  PROVE  PageType'
PROOF
  BY DEF PageType, Statuses, Stages, Answers, Outcomes, Name, Request

LEMMA PopupTypeNext ==
  ASSUME win' \in Window, popup' \in Page, inbox' \in Seq(Message), mail' \subseteq Calls
  PROVE  PopupType'
PROOF
  BY DEF PopupType, Window, Page, Message

Bounded ==
  {others, losses, reloads} \subseteq 0 .. MaxMishaps /\ others + losses + reloads <= MaxMishaps

\* A mishap that is still allowed.
LEMMA OneMishap ==
  ASSUME TypeOK, mishap,
         \/ others' = others + 1 /\ losses' = losses /\ reloads' = reloads
         \/ losses' = losses + 1 /\ others' = others /\ reloads' = reloads
         \/ reloads' = reloads + 1 /\ others' = others /\ losses' = losses
  PROVE  Bounded'
PROOF
<1> USE OutsideTypes, BoundsAssumption DEF mishap
<1>1. CASE others' = others + 1 /\ losses' = losses /\ reloads' = reloads
  BY <1>1 DEF Bounded
<1>2. CASE losses' = losses + 1 /\ others' = others /\ reloads' = reloads
  BY <1>2 DEF Bounded
<1>3. CASE reloads' = reloads + 1 /\ others' = others /\ losses' = losses
  BY <1>3 DEF Bounded
<1> QED
  BY <1>1, <1>2, <1>3

LEMMA NoMishap ==
  ASSUME TypeOK, others' = others, losses' = losses, reloads' = reloads
  PROVE  Bounded'
PROOF
  BY DEF TypeOK, OutsideType, Bounded

LEMMA OutsideTypeNext ==
  ASSUME nonce' \in Nat, signed' \in [Calls -> Int], tx' \in [Calls -> Progress], accepted' \subseteq Pays, Bounded',
         overlapped' \in BOOLEAN, moved' \subseteq Pays, overtaken' \subseteq Calls
  PROVE  OutsideType'
PROOF
  BY DEF OutsideType, Progress, Bounded

LEMMA TypeNext ==
  ASSUME PageType', PopupType', OutsideType', Sensible'
  PROVE  TypeOK'
PROOF
  BY DEF TypeOK, Sensible

LEMMA SensibleNow == ASSUME TypeOK PROVE Sensible
PROOF
  BY DEF TypeOK, Sensible

\* Steps that leave a part alone.
LEMMA SamePage ==
  ASSUME TypeOK, UNCHANGED <<pageVars, callVars, cookie>>
  PROVE  PageType'
PROOF
  BY DEF pageVars, callVars, TypeOK, PageType

LEMMA SamePopup ==
  ASSUME TypeOK, UNCHANGED popupVars
  PROVE  PopupType' /\ Sensible'
PROOF
  BY DEF popupVars, TypeOK, PopupType, Sensible

LEMMA SameOutside ==
  ASSUME TypeOK, UNCHANGED <<chainVars, accepted, boundVars, history>>
  PROVE  OutsideType'
PROOF
  BY DEF chainVars, boundVars, history, TypeOK, OutsideType
-----------------------------------------------------------------------------
\* The steps of calls that touch neither request nor popup.
Plain(c) ==
  \/ load(c) \/ unopened(c) \/ signOut(c) \/ confirmPayment(c) \/ \E l \in Calls : signIn_reloading(c, l)
  \/ receive(c) \/ serve_session(c) \/ serve_payment(c) \/ lose(c)

LEMMA TypePlain ==
  ASSUME TypeOK, NEW c \in Calls, Plain(c)
  PROVE  TypeOK'
PROOF
<1> USE CallTypes, OutsideTypes
<1>1. /\ UNCHANGED <<named, req, popupVars, chainVars>>
      /\ moved' = moved /\ overtaken' = overtaken /\ others' = others /\ reloads' = reloads
  BY DEF Plain, load, unopened, signOut, confirmPayment, signIn_reloading, receive, serve_session, serve_payment, lose,
         boundVars, history
<1>2. stage' \in [Calls -> Stages] /\ outcome' \in [Calls -> Outcomes]
  <2>1. CASE \E l \in Calls : signIn_reloading(c, l)
    BY <2>1 DEF signIn_reloading, Stages, Outcomes
  <2>2. CASE receive(c)
    BY <2>2 DEF receive, loaded, signedIn, signedOut, paid, ends, go, Stages, Outcomes
  <2>3. CASE load(c) \/ unopened(c) \/ signOut(c) \/ confirmPayment(c)
    BY <2>3 DEF load, unopened, signOut, confirmPayment, go, Stages, Outcomes
  <2>4. CASE serve_session(c) \/ serve_payment(c) \/ lose(c)
    BY <2>4 DEF serve_session, serve_payment, lose, says, go, Stages, Outcomes
  <2> QED
    BY <2>1, <2>2, <2>3, <2>4 DEF Plain
<1>3. answer' \in [Calls -> Answers]
  <2>1. CASE receive(c) \/ serve_payment(c) \/ lose(c)
    BY <2>1 DEF receive, serve_payment, lose, says, Answers
  <2>2. CASE serve_session(c)
    BY <2>2 DEF serve_session, says, Answers
  <2>3. CASE ~(receive(c) \/ serve_payment(c) \/ lose(c) \/ serve_session(c))
    BY <2>3 DEF Plain, load, unopened, signOut, confirmPayment, signIn_reloading
  <2> QED
    BY <2>1, <2>2, <2>3
<1>4. receipt' \in [Calls -> Calls \union {NoCall}] /\ accepted' \subseteq Pays
  <2>1. CASE serve_payment(c)
    BY <2>1 DEF serve_payment, Found, Pays
  <2>2. CASE ~serve_payment(c)
    BY <2>2 DEF Plain, load, unopened, signOut, confirmPayment, signIn_reloading, receive, serve_session, lose, serverVars
  <2> QED
    BY <2>1, <2>2
<1>5. status' \in Statuses /\ paying' \in BOOLEAN /\ connect' \in Nat
  <2>1. CASE receive(c)
    <3>1. CASE loaded(c)
      BY <3>1 DEF loaded, Statuses
    <3>2. CASE signedIn(c) \/ signedOut(c) \/ paid(c)
      BY <3>2 DEF signedIn, signedOut, paid, Statuses
    <3> QED
      BY <2>1, <3>1, <3>2 DEF receive
  <2>2. CASE ~receive(c)
    BY <2>2 DEF Plain, load, unopened, signOut, confirmPayment, signIn_reloading, serve_session, serve_payment, lose, pageVars
  <2> QED
    BY <2>1, <2>2
<1>6. cookie' \in BOOLEAN /\ overlapped' \in BOOLEAN
  BY DEF Plain, load, unopened, signOut, confirmPayment, signIn_reloading, receive, serve_session, serve_payment, lose,
         begin, serverVars, history
<1>7. Bounded'
  <2>1. CASE lose(c)
    BY <1>1, <2>1, OneMishap DEF lose
  <2>2. CASE ~lose(c)
    <3>1. losses' = losses
      BY <2>2 DEF Plain, load, unopened, signOut, confirmPayment, signIn_reloading, receive, serve_session,
                  serve_payment, boundVars
    <3> QED
      BY <1>1, <3>1, NoMishap
  <2> QED
    BY <2>1, <2>2
<1>8. PageType'
  BY <1>1, <1>2, <1>3, <1>4, <1>5, <1>6, PageTypeNext
<1>9. PopupType' /\ Sensible'
  BY <1>1, SamePopup
<1>10. OutsideType'
  BY <1>1, <1>4, <1>6, <1>7, OutsideTypeNext DEF chainVars
<1> QED
  BY <1>8, <1>9, <1>10, TypeNext

\* The steps of the relayer and the chain.
ChainStep(c) == relayer_sends(c) \/ relayer_refuses(c) \/ mine(c) \/ revert_or_drop(c)

LEMMA TypeChain ==
  ASSUME TypeOK, PopupInv, \/ other_action
                           \/ \E c \in Calls : ChainStep(c)
  PROVE  TypeOK'
PROOF
<1> USE OutsideTypes
<1>1. UNCHANGED <<pageVars, callVars, popupVars, serverVars, signed, losses, reloads, overlapped, overtaken>>
  BY DEF ChainStep, relayer_sends, relayer_refuses, mine, revert_or_drop, other_action, chainFrame
<1>2. tx' \in [Calls -> Progress]
  BY DEF ChainStep, relayer_sends, relayer_refuses, mine, revert_or_drop, other_action, Progress
<1>3. nonce' \in Nat /\ moved' \subseteq Pays
  <2>1. ASSUME advance PROVE nonce' \in Nat /\ moved' \subseteq Pays
    BY <2>1 DEF advance, at, PopupInv
  <2>2. advance \/ UNCHANGED <<nonce, moved>>
    BY DEF ChainStep, relayer_sends, relayer_refuses, mine, revert_or_drop, other_action
  <2> QED
    BY <2>1, <2>2
<1>4. Bounded'
  <2>1. CASE other_action
    BY <1>1, <2>1, OneMishap DEF other_action
  <2>2. CASE ~other_action
    <3>1. others' = others
      BY <2>2 DEF ChainStep, relayer_sends, relayer_refuses, mine, revert_or_drop
    <3> QED
      BY <1>1, <3>1, NoMishap
  <2> QED
    BY <2>1, <2>2
<1>5. OutsideType'
  BY <1>1, <1>2, <1>3, <1>4, OutsideTypeNext DEF serverVars
<1> QED
  BY <1>1, <1>5, SamePage, SamePopup, TypeNext DEF serverVars

\* The popup's steps; each but the last posts at most one message.
LEMMA PageFields ==
  /\ \A p \in Page, a \in PopupStates : [p EXCEPT !.at = a] \in Page
  /\ \A p \in Page, c \in Calls : [p EXCEPT !.at = "asked", !.call = c] \in Page
  /\ \A p \in Page, n \in Int : [p EXCEPT !.at = "ensuring", !.shown = n] \in Page
PROOF
  BY DEF Page, PopupStates

LEMMA PopupFrame ==
  ASSUME PopupStep
  PROVE  UNCHANGED <<pageVars, callVars, serverVars, overlapped, overtaken>>
PROOF
  BY DEF PopupStep, announce, cancel, prove_sign_in, read_nonce, authorize, submit, submitted, confirmed, not_confirmed,
         close_window, reload_window, receive_request, stop_before_sending, not_submitted, popupFrame

LEMMA TypePopup ==
  ASSUME TypeOK, PopupInv, PopupStep
  PROVE  TypeOK'
PROOF
<1> USE PopupTypes, OutsideTypes
<1>1. UNCHANGED <<pageVars, callVars, serverVars, overlapped, overtaken>>
  BY PopupFrame
<1>2. popup.call \in Calls \union {NoCall} /\ popup.shown \in Int /\ -1 \in Int
  BY DEF Page
<1>3. inbox' \in Seq(Message)
  <2>1. ASSUME NEW c \in Calls \union {NoCall}, NEW n \in Int,
               NEW t \in {"ready", "sending", "submitted", "result", "cancelled", "policy", "relay", "busy"}, say(c, t, n)
        PROVE  inbox' \in Seq(Message)
    BY <2>1, SayType
  <2>2. CASE announce \/ cancel \/ prove_sign_in \/ submit \/ submitted \/ confirmed \/ not_confirmed
    <3>1. CASE announce
      BY <1>2, <2>1, <3>1, Zenon DEF announce
    <3>2. CASE cancel
      BY <1>2, <2>1, <3>2, Zenon DEF cancel
    <3>3. CASE prove_sign_in \/ confirmed
      <4>1. say(popup.call, "result", -1)
        BY <3>3 DEF prove_sign_in, confirmed
      <4> QED
        BY <1>2, <2>1, <4>1, Zenon
    <3>4. CASE submit
      BY <1>2, <2>1, <3>4, Zenon DEF submit
    <3>5. CASE submitted
      BY <1>2, <2>1, <3>5, Zenon DEF submitted
    <3>6. CASE not_confirmed
      BY <1>2, <2>1, <3>6, Zenon DEF not_confirmed
    <3> QED
      BY <2>2, <3>1, <3>2, <3>3, <3>4, <3>5, <3>6
  <2>3. CASE read_nonce \/ authorize \/ close_window \/ reload_window
    BY <2>3 DEF read_nonce, authorize, close_window, reload_window
  <2>4. CASE \E c \in Calls : receive_request(c)
    BY <2>1, <2>4 DEF receive_request
  <2>5. CASE \E code \in {"cancelled", "policy", "relay"} : stop_before_sending(code) \/ not_submitted(code)
    <3>1. PICK code \in {"cancelled", "policy", "relay"} : say(popup.call, code, -1)
      BY <2>5 DEF stop_before_sending, not_submitted
    <3> QED
      BY <1>2, <2>1, <3>1, Zenon
  <2> QED
    BY <2>2, <2>3, <2>4, <2>5 DEF PopupStep
<1>4. /\ win' \in Window /\ popup' \in Page /\ mail' \subseteq Calls
      /\ Sensible'
  <2>1. ASSUME shut PROVE win' \in Window /\ popup' \in Page /\ mail' \subseteq Calls /\ Sensible'
    BY <2>1, ShutType, BlankType DEF Sensible, Blank
  <2>2. ASSUME NEW s \in PopupStates, to(s), s # "loading",
               s \in {"asked", "ensuring", "signing", "relaying", "confirming"} => popup.call # NoCall
        PROVE  win' \in Window /\ popup' \in Page /\ mail' \subseteq Calls /\ Sensible'
    <3>1. popup' = [popup EXCEPT !.at = s] /\ win' = win /\ mail' = mail
      BY <2>2 DEF to
    <3>2. popup' \in Page
      BY <3>1, PageFields
    <3>3. popup'.at = s /\ popup'.call = popup.call
      BY <3>1 DEF Page
    <3> QED
      BY <2>2, <3>1, <3>2, <3>3 DEF Sensible
  <2>3. popup.at \in {"asked", "ensuring", "signing", "relaying", "confirming"} => popup.call # NoCall
    BY SensibleNow DEF Sensible
  <2>4. CASE cancel \/ prove_sign_in \/ confirmed \/ close_window
    BY <2>1, <2>4 DEF cancel, prove_sign_in, confirmed, close_window
  <2>5. CASE announce \/ not_confirmed \/ \E code \in {"cancelled", "policy", "relay"} : stop_before_sending(code) \/ not_submitted(code)
    BY <2>2, <2>5 DEF announce, not_confirmed, stop_before_sending, not_submitted, PopupStates
  <2>6. CASE authorize \/ submit \/ submitted
    BY <2>2, <2>3, <2>6 DEF authorize, submit, submitted, at, PopupStates
  <2>7. CASE read_nonce
    <3>1. popup' = [popup EXCEPT !.at = "ensuring", !.shown = nonce] /\ win' = win /\ mail' = mail
      BY <2>7 DEF read_nonce
    <3>2. popup' \in Page
      <4>1. nonce \in Int
        OBVIOUS
      <4> QED
        BY <3>1, <4>1, PageFields
    <3>3. popup'.at = "ensuring" /\ popup'.call = popup.call
      BY <3>1 DEF Page
    <3> QED
      BY <2>3, <2>7, <3>1, <3>2, <3>3 DEF read_nonce, at, Sensible
  <2>8. CASE reload_window
    BY <2>8, BlankType DEF reload_window, Sensible, Blank
  <2>9. ASSUME NEW c \in Calls, receive_request(c) PROVE win' \in Window /\ popup' \in Page /\ mail' \subseteq Calls /\ Sensible'
    <3>1. win' = win /\ mail' \subseteq Calls /\ popup.at # "loading" /\ c # NoCall
      BY <2>9, SensibleNow, KindAssumption DEF receive_request, Sensible
    <3>2. CASE popup.call = NoCall
      <4>1. popup' = [popup EXCEPT !.at = "asked", !.call = c]
        BY <2>9, <3>2 DEF receive_request
      <4>2. popup' \in Page
        BY <4>1, PageFields
      <4>3. popup'.at = "asked" /\ popup'.call = c
        BY <4>1 DEF Page
      <4> QED
        BY <3>1, <4>2, <4>3 DEF Sensible
    <3>3. CASE popup.call # NoCall
      BY <2>9, <3>1, <3>3 DEF receive_request, Sensible
    <3> QED
      BY <3>2, <3>3
  <2> QED
    BY <2>4, <2>5, <2>6, <2>7, <2>8, <2>9 DEF PopupStep
<1>5. /\ nonce' = nonce /\ moved' = moved
      /\ signed' \in [Calls -> Int] /\ tx' \in [Calls -> Progress]
  <2>1. CASE authorize
    <3>1. nonce \in Int
      OBVIOUS
    <3>2. signed' \in [Calls -> Int]
      BY <2>1, <3>1 DEF authorize
    <3> QED
      BY <2>1, <3>2 DEF authorize
  <2>2. CASE submit
    BY <2>2 DEF submit, Progress
  <2>3. CASE ~(authorize \/ submit)
    BY <2>3 DEF PopupStep, announce, cancel, prove_sign_in, read_nonce, submitted, confirmed, not_confirmed,
                close_window, reload_window, receive_request, stop_before_sending, not_submitted, still, chainVars
  <2> QED
    BY <2>1, <2>2, <2>3
<1>6. Bounded'
  <2>1. CASE reload_window
    BY <2>1, OneMishap DEF reload_window
  <2>2. CASE ~reload_window
    <3>1. UNCHANGED boundVars
      BY <2>2 DEF PopupStep, announce, cancel, prove_sign_in, read_nonce, authorize, submit, submitted, confirmed, not_confirmed,
                  close_window, receive_request, stop_before_sending, not_submitted, still
    <3> QED
      BY <3>1, NoMishap DEF boundVars
  <2> QED
    BY <2>1, <2>2
<1>7. PopupType'
  BY <1>3, <1>4, PopupTypeNext
<1>8. OutsideType'
  BY <1>1, <1>5, <1>6, OutsideTypeNext DEF serverVars
<1> QED
  BY <1>1, <1>4, <1>7, <1>8, SamePage, TypeNext DEF serverVars

-----------------------------------------------------------------------------
\* What a request's steps do to the calls, one by one.
LEMMA ForgetEffect ==
  ASSUME TypeOK, NEW c \in Calls, forget(c)
  PROVE  /\ \A d \in Calls \ {c} : req'[d] = req[d]
         /\ req'[c].conn = req[c].conn /\ req'[c].window = req[c].window /\ req'[c].values = req[c].values
         /\ ~req'[c].ready /\ ~req'[c].sent /\ req'[c].sending = -1
PROOF
<1>1. req \in [Calls -> Request]
  BY CallTypes
<1>2. req[c] \in Request
  BY <1>1
<1>3. req' = [req EXCEPT ![c] = [req[c] EXCEPT !.ready = FALSE, !.sent = FALSE, !.sending = -1]]
  BY DEF forget
<1>4. req'[c] = [req[c] EXCEPT !.ready = FALSE, !.sent = FALSE, !.sending = -1]
  BY <1>1, <1>3
<1>5. \A d \in Calls \ {c} : req'[d] = req[d]
  BY <1>1, <1>3
<1> QED
  BY <1>2, <1>4, <1>5 DEF Request

\* A request that ends goes to the server if its payment has a name, and is over otherwise.
LEMMA FailEffect ==
  ASSUME TypeOK, NEW c \in Calls, NEW code, fail(c, code)
  PROVE  /\ \A d \in Calls \ {c} :
              stage'[d] = stage[d] /\ named'[d] = named[d] /\ outcome'[d] = outcome[d] /\ req'[d] = req[d]
         /\ named'[c] = Ended(c, code)
         /\ \/ stage'[c] = "asking" /\ named'[c] # Unnamed /\ outcome'[c] = outcome[c] /\ UNCHANGED <<status, paying>>
            \/ /\ stage'[c] = "done" /\ named'[c] = Unnamed /\ outcome'[c] \in {"null", "error"}
               /\ status' = IF Kind[c] = "signIn" THEN "signed-out" ELSE status
               /\ paying' = (Kind[c] # "pay" /\ paying)
         /\ connect' = connect
PROOF
<1> USE CallTypes
<1>1. forget(c) /\ named' = [named EXCEPT ![c] = Ended(c, code)]
  BY DEF fail
<1>2. \A d \in Calls \ {c} : req'[d] = req[d] /\ named'[d] = named[d]
  BY <1>1, ForgetEffect
<1>3. named'[c] = Ended(c, code)
  BY <1>1
<1>4. CASE named'[c] # Unnamed
  <2>1. go(c, "asking") /\ UNCHANGED <<pageVars, outcome>>
    BY <1>4 DEF fail
  <2> QED
    BY <1>2, <1>3, <1>4, <2>1 DEF go, pageVars
<1>5. CASE named'[c] = Unnamed
  <2>1. /\ go(c, "done")
        /\ outcome' = [outcome EXCEPT ![c] = IF code \in {"cancelled", "closed"} THEN "null" ELSE "error"]
        /\ status' = IF Kind[c] = "signIn" THEN "signed-out" ELSE status
        /\ paying' = (Kind[c] # "pay" /\ paying)
        /\ UNCHANGED connect
    BY <1>5 DEF fail
  <2> QED
    BY <1>2, <1>3, <1>5, <2>1 DEF go
<1> QED
  BY <1>4, <1>5

LEMMA OpenEffect ==
  ASSUME TypeOK, NEW c \in Calls, open(c)
  PROVE  /\ \A d \in Calls \ {c} : stage'[d] = stage[d] /\ req'[d] = req[d]
         /\ stage'[c] = "open" /\ req'[c] \in Request
         /\ req'[c].conn = connect /\ req'[c].window = win'.id /\ req'[c].values = (Kind[c] = "pay")
         /\ ~req'[c].ready /\ ~req'[c].sent /\ req'[c].sending = -1
         /\ stage' \in [Calls -> Stages] /\ req' \in [Calls -> Request]
         /\ win' \in Window /\ win'.open /\ popup' = Blank /\ mail' = {}
         /\ \A d \in Calls \ {c} : stage[d] = "open" => req[d].conn # connect
PROOF
<1> DEFINE r == [[[NoRequest EXCEPT !.conn = connect] EXCEPT !.window = win'.id] EXCEPT !.values = (Kind[c] = "pay")]
<1>1. win' \in Window /\ win'.open
  BY PopupTypes DEF open, Window
<1>2. r \in Request
  <2> DEFINE r1 == [NoRequest EXCEPT !.conn = connect]
             r2 == [r1 EXCEPT !.window = win'.id]
  <2>1. win'.id \in Nat /\ connect \in Nat
    BY <1>1, CallTypes DEF Window
  <2>2. r1 \in Request
    BY <2>1, RequestFields
  <2>3. r2 \in Request
    <3> HIDE DEF r1
    <3> QED
      BY <2>1, <2>2, RequestFields
  <2> HIDE DEF r2
  <2>4. [r2 EXCEPT !.values = TRUE] \in Request /\ [r2 EXCEPT !.values = FALSE] \in Request
    BY <2>3, RequestFields
  <2>5. r = [r2 EXCEPT !.values = TRUE] \/ r = [r2 EXCEPT !.values = FALSE]
    BY DEF r2
  <2> QED
    BY <2>4, <2>5
<1>3. /\ r.conn = connect /\ r.window = win'.id /\ r.values = (Kind[c] = "pay")
      /\ ~r.ready /\ ~r.sent /\ r.sending = -1
  BY DEF NoRequest
<1>4. req' = [req EXCEPT ![c] = r]
  BY DEF open
<1> HIDE DEF r
<1>5. /\ \A d \in Calls \ {c} : req'[d] = req[d]
      /\ req'[c] = r /\ req' \in [Calls -> Request]
  BY <1>2, <1>4, CallTypes
<1>6. /\ \A d \in Calls \ {c} : stage'[d] = stage[d]
      /\ stage'[c] = "open" /\ stage' \in [Calls -> Stages]
  BY CallTypes DEF open, go, Stages
<1>7. popup' = Blank /\ mail' = {} /\ \A d \in Calls \ {c} : stage[d] = "open" => req[d].conn # connect
  BY DEF open, Busy
<1> QED
  BY <1>1, <1>2, <1>3, <1>5, <1>6, <1>7

LEMMA TypeOpen ==
  ASSUME TypeOK, NEW c \in Calls, signIn(c) \/ pay(c)
  PROVE  TypeOK'
PROOF
<1> USE CallTypes, PopupTypes, OutsideTypes
<1>1. open(c)
  BY DEF signIn, pay
<1>2. UNCHANGED <<connect, answer, outcome, named, receipt, inbox, chainVars, serverVars, boundVars, moved, overtaken>>
  BY <1>1 DEF open
<1>3. status' \in Statuses /\ paying' \in BOOLEAN
  BY DEF signIn, pay, Statuses
<1>4. overlapped' \in BOOLEAN
  BY <1>1 DEF open, begin
<1>5. PageType'
  BY <1>1, <1>2, <1>3, OpenEffect, PageTypeNext DEF serverVars
<1>6. PopupType' /\ Sensible'
  <2>1. win' \in Window /\ popup' = Blank /\ mail' = {}
    BY <1>1, OpenEffect
  <2> QED
    BY <1>2, <2>1, BlankType, PopupTypeNext DEF Sensible, Blank
<1>7. OutsideType'
  BY <1>2, <1>4, NoMishap, OutsideTypeNext DEF chainVars, serverVars, boundVars
<1> QED
  BY <1>5, <1>6, <1>7, TypeNext

\* The requests that end without a message, and the site's nonce.
EndStep(c) == closedPoll(c) \/ readyTimer(c) \/ values_fail(c)

LEMMA TypeFail ==
  ASSUME TypeOK, NEW c \in Calls, EndStep(c)
  PROVE  TypeOK'
PROOF
<1> USE OutsideTypes
<1>1. PICK code : fail(c, code)
  BY DEF EndStep, closedPoll, readyTimer, values_fail
<1>2. UNCHANGED <<answer, receipt, inbox, chainVars, serverVars, boundVars, overlapped, moved>>
  BY DEF EndStep, closedPoll, readyTimer, values_fail, popupVars, history
<1>3. PageType'
  BY <1>1, <1>2, FailTypes, PageTypeNext DEF serverVars
<1>4. PopupType' /\ Sensible'
  <2>1. CASE UNCHANGED popupVars
    BY <2>1, SamePopup
  <2>2. CASE shut
    <3>1. win' \in Window /\ popup' = Blank /\ mail' = {}
      BY <2>2, ShutType
    <3> QED
      BY <1>2, <3>1, PopupTypes, BlankType, PopupTypeNext DEF Sensible, Blank
  <2> QED
    BY <2>1, <2>2 DEF EndStep, closedPoll, readyTimer, values_fail, popupVars
<1>5. overtaken' \subseteq Calls
  BY DEF EndStep, closedPoll, readyTimer, values_fail, history
<1>6. OutsideType'
  BY <1>2, <1>5, NoMishap, OutsideTypeNext DEF chainVars, serverVars, boundVars
<1> QED
  BY <1>3, <1>4, <1>6, TypeNext

LEMMA TypeValues ==
  ASSUME TypeOK, NEW c \in Calls, values_arrive(c)
  PROVE  TypeOK'
PROOF
<1> USE CallTypes, OutsideTypes
<1>1. UNCHANGED <<pageVars, stage, answer, outcome, named, receipt, win, popup, inbox, chainVars, serverVars, boundVars, history>>
  BY DEF values_arrive
<1>2. req' \in [Calls -> Request]
  <2>1. req' = [req EXCEPT ![c] = [req[c] EXCEPT !.values = TRUE]]
    BY DEF values_arrive
  <2>2. req[c] \in Request
    OBVIOUS
  <2>3. [req[c] EXCEPT !.values = TRUE] \in Request
    BY <2>2, RequestFields
  <2> QED
    BY <2>1, <2>3
<1>3. PageType'
  BY <1>1, <1>2, PageTypeNext DEF pageVars, serverVars
<1>4. PopupType' /\ Sensible'
  <2>1. post(IF req[c].ready THEN {c} ELSE {})
    BY DEF values_arrive
  <2>2. mail' \subseteq Calls /\ (popup.at = "loading" => mail' = {})
    BY <2>1, PopupTypes, SensibleNow DEF post, Sensible
  <2>3. popup.at \in {"asked", "ensuring", "signing", "relaying", "confirming"} => popup.call # NoCall
    BY SensibleNow DEF Sensible
  <2> QED
    BY <1>1, <2>2, <2>3, PopupTypes, PopupTypeNext DEF Sensible
<1>5. OutsideType'
  BY <1>1, SameOutside DEF serverVars
<1> QED
  BY <1>3, <1>4, <1>5, TypeNext

LEMMA HeadTail ==
  ASSUME TypeOK, inbox # <<>>, inbox' = Tail(inbox)
  PROVE  /\ Head(inbox) = inbox[1] /\ Head(inbox) \in Message /\ inbox' \in Seq(Message)
         /\ Len(inbox) \in Nat /\ Len(inbox) > 0 /\ Len(inbox') = Len(inbox) - 1
         /\ DOMAIN inbox = 1 .. Len(inbox) /\ DOMAIN inbox' = 1 .. Len(inbox')
         /\ \A i \in 1 .. Len(inbox') : inbox'[i] = inbox[i + 1] /\ i + 1 \in 1 .. Len(inbox)
PROOF
<1>1. inbox \in Seq(Message)
  BY PopupTypes
<1>2. Tail(inbox) \in Seq(Message) /\ Head(inbox) = inbox[1] /\ Head(inbox) \in Message
  BY <1>1, HeadTailProperties, ElementOfSeq, LenProperties
<1>3. Len(inbox) \in Nat /\ Len(inbox) > 0 /\ Len(inbox') = Len(inbox) - 1
  BY <1>1, HeadTailProperties, LenProperties, EmptySeq
<1>4. DOMAIN inbox = 1 .. Len(inbox) /\ DOMAIN inbox' = 1 .. Len(inbox')
  BY <1>1, <1>2, LenProperties
<1>5. \A i \in 1 .. Len(inbox') : inbox'[i] = inbox[i + 1] /\ i + 1 \in 1 .. Len(inbox)
  BY <1>1, <1>3, HeadTailProperties
<1> QED
  BY <1>1, <1>2, <1>3, <1>4, <1>5

LEMMA TypeMessage ==
  ASSUME TypeOK, MessageInv, onMessage
  PROVE  TypeOK'
PROOF
<1> PICK m : m = Head(inbox)
  OBVIOUS
<1> USE CallTypes, OutsideTypes
<1>1. UNCHANGED <<answer, receipt, win, popup, chainVars, serverVars, boundVars, history>>
  BY DEF onMessage
<1>2. inbox # <<>> /\ inbox' = Tail(inbox) /\ (hear_ready(m) \/ hear_progress(m) \/ hear_end(m))
  BY DEF onMessage
<1>3. m \in Message /\ inbox' \in Seq(Message)
  BY <1>2, HeadTail
<1>4. m.type # "ready" => m.call \in Calls
  <2>1. m = inbox[1] /\ 1 \in DOMAIN inbox
    BY <1>2, HeadTail
  <2> QED
    BY <2>1 DEF MessageInv, MessageOf
<1>5. m.nonce \in Int
  BY <1>3 DEF Message
<1> DEFINE Pageward ==
      /\ status' \in Statuses /\ paying' \in BOOLEAN /\ connect' \in Nat
      /\ stage' \in [Calls -> Stages] /\ outcome' \in [Calls -> Outcomes]
      /\ named' \in [Calls -> Name] /\ req' \in [Calls -> Request]
<1>6. ASSUME hear_ready(m)
      PROVE  Pageward /\ mail' \subseteq Calls /\ (popup.at = "loading" => mail' = {})
  <2> DEFINE first == {c \in Calls : Hears(c, m) /\ ~req[c].ready}
  <2>1. /\ req' = [c \in Calls |-> IF c \in first THEN [req[c] EXCEPT !.ready = TRUE] ELSE req[c]]
        /\ post({c \in first : req[c].values})
        /\ UNCHANGED <<pageVars, stage, outcome, named>>
    BY <1>6 DEF hear_ready
  <2> HIDE DEF first
  <2>2. req' \in [Calls -> Request]
    <3>1. \A c \in Calls : [req[c] EXCEPT !.ready = TRUE] \in Request
      BY RequestFields
    <3> QED
      BY <2>1, <3>1
  <2>3. mail' \subseteq Calls /\ (popup.at = "loading" => mail' = {})
    BY <2>1, PopupTypes, SensibleNow DEF post, Sensible, first
  <2> QED
    BY <2>1, <2>2, <2>3 DEF pageVars
<1>7. ASSUME hear_progress(m)
      PROVE  Pageward /\ mail' \subseteq Calls /\ (popup.at = "loading" => mail' = {})
  <2>1. UNCHANGED <<pageVars, stage, outcome, named, mail>>
    BY <1>7 DEF hear_progress
  <2>2. req' \in [Calls -> Request]
    <3>1. CASE req' = req
      BY <3>1
    <3>2. CASE m.call \in Calls /\ req' = [req EXCEPT ![m.call] = [req[m.call] EXCEPT !.sending = m.nonce]]
      BY <3>2, <1>5, RequestFields
    <3>3. CASE m.call \in Calls /\ req' = [req EXCEPT ![m.call] = [req[m.call] EXCEPT !.sent = TRUE]]
      BY <3>3, RequestFields
    <3> QED
      BY <1>7, <3>1, <3>2, <3>3 DEF hear_progress
  <2> QED
    BY <2>1, <2>2, SensibleNow, PopupTypes DEF pageVars, Sensible
<1>8. ASSUME hear_end(m)
      PROVE  Pageward /\ mail' \subseteq Calls /\ (popup.at = "loading" => mail' = {})
  <2>1. mail' = mail /\ m.call \in Calls
    BY <1>8, <1>4 DEF hear_end
  <2>2. ASSUME UNCHANGED <<pageVars, stage, outcome, named, req>> PROVE Pageward
    BY <2>2 DEF pageVars
  <2>3. ASSUME fail(m.call, m.type) PROVE Pageward
    BY <2>1, <2>3, FailTypes
  <2>4. ASSUME Hears(m.call, m), m.type = "result" PROVE Pageward
    <3>1. go(m.call, "asking") /\ forget(m.call) /\ UNCHANGED <<pageVars, outcome>>
      BY <1>8, <2>4 DEF hear_end
    <3>2. named' \in [Calls -> Name]
      BY <1>8, <2>1, <2>4 DEF hear_end, Name
    <3>3. req' \in [Calls -> Request]
      BY <2>1, <3>1, ForgetType
    <3> QED
      BY <2>1, <3>1, <3>2, <3>3 DEF go, Stages, pageVars
  <2>5. Pageward
    BY <1>8, <2>2, <2>3, <2>4 DEF hear_end
  <2> QED
    BY <2>1, <2>5, SensibleNow, PopupTypes DEF Sensible
<1>9. Pageward /\ mail' \subseteq Calls /\ (popup.at = "loading" => mail' = {})
  BY <1>2, <1>6, <1>7, <1>8
<1>10. PageType'
  BY <1>1, <1>9, PageTypeNext DEF serverVars
<1>11. PopupType' /\ Sensible'
  BY <1>1, <1>3, <1>9, PopupTypes, SensibleNow, PopupTypeNext DEF Sensible
<1>12. OutsideType'
  BY <1>1, SameOutside DEF serverVars
<1> QED
  BY <1>10, <1>11, <1>12, TypeNext

LEMMA TypeStep ==
  ASSUME TypeOK, PopupInv, MessageInv, [Next]_vars
  PROVE  TypeOK'
PROOF
<1>1. CASE UNCHANGED vars
  BY <1>1, SamePage, SamePopup, SameOutside, TypeNext DEF vars, serverVars
<1>2. CASE onMessage
  BY <1>2, TypeMessage
<1>3. CASE PopupStep
  BY <1>3, TypePopup
<1>4. CASE other_action
  BY <1>4, TypeChain
<1>5. ASSUME NEW c \in Calls, PageStep(c) \/ OutsideStep(c)
      PROVE  TypeOK'
  <2>1. CASE Plain(c)
    BY <2>1, TypePlain
  <2>2. CASE ChainStep(c)
    BY <2>2, TypeChain
  <2>3. CASE signIn(c) \/ pay(c)
    BY <2>3, TypeOpen
  <2>4. CASE EndStep(c)
    BY <2>4, TypeFail
  <2>5. CASE values_arrive(c)
    BY <2>5, TypeValues
  <2> QED
    BY <1>5, <2>1, <2>2, <2>3, <2>4, <2>5 DEF PageStep, OutsideStep, Plain, ChainStep, EndStep
<1> QED
  BY <1>1, <1>2, <1>3, <1>4, <1>5 DEF Next

-----------------------------------------------------------------------------
(***************************************************************************)
(* What the page, the popup and the messages between them know             *)
(***************************************************************************)
LEMMA AskedCall ==
  ASSUME TypeOK
  PROVE  /\ popup.call \in Calls \union {NoCall}
         /\ popup.at \in {"asked", "ensuring", "signing", "relaying", "confirming"} => popup.call \in Calls
PROOF
  BY PopupTypes, SensibleNow DEF Page, Sensible

LEMMA PlainEffect ==
  ASSUME TypeOK, NamedInv, NEW c \in Calls, Plain(c)
  PROVE  /\ UNCHANGED <<named, req, popupVars, chainVars, moved, overtaken>>
         /\ \A d \in Calls \ {c} : stage'[d] = stage[d] \/ (Kind[d] = "load" /\ stage[d] = "new" /\ stage'[d] = "asking")
         /\ \A d \in Calls \ {c} : outcome'[d] = outcome[d] /\ receipt'[d] = receipt[d]
         /\ stage[c] \in {"new", "asking", "answered", "done"} /\ stage'[c] \in {"asking", "answered", "done"}
         /\ stage'[c] \in {"asking", "answered"} /\ c \in Pays => named[c] # Unnamed
         /\ stage[c] = "done" => stage'[c] = "asking"
PROOF
<1> USE CallTypes, OutsideTypes
<1>1. UNCHANGED <<named, req, popupVars, chainVars, moved, overtaken>>
  BY DEF Plain, load, unopened, signOut, confirmPayment, signIn_reloading, receive, serve_session, serve_payment, lose, history
<1>2. CASE receive(c)
  <2>1. go(c, "done") /\ stage[c] = "answered" /\ receipt' = receipt /\ \A d \in Calls \ {c} : outcome'[d] = outcome[d]
    BY <1>2 DEF receive, loaded, signedIn, signedOut, paid, ends
  <2> QED
    BY <1>1, <2>1 DEF go
<1>3. CASE serve_session(c) \/ serve_payment(c) \/ lose(c)
  <2>1. go(c, "answered") /\ stage[c] \in {"asking", "answered"} /\ outcome' = outcome
    BY <1>3 DEF serve_session, serve_payment, lose, says
  <2>2. \A d \in Calls \ {c} : receipt'[d] = receipt[d]
    BY <1>3 DEF serve_session, serve_payment, lose
  <2> QED
    BY <1>1, <2>1, <2>2 DEF go, NamedInv
<1>4. CASE load(c) \/ signOut(c) \/ confirmPayment(c)
  <2>1. go(c, "asking") /\ stage[c] \in {"new", "done"} /\ UNCHANGED <<outcome, receipt>>
    BY <1>4 DEF load, signOut, confirmPayment
  <2>2. c \in Pays => named[c] # Unnamed
    BY <1>4 DEF load, signOut, confirmPayment, Pays
  <2> QED
    BY <1>1, <2>1, <2>2 DEF go
<1>5. CASE unopened(c)
  BY <1>1, <1>5 DEF unopened, go
<1>6. CASE \E l \in Calls : signIn_reloading(c, l)
  <2>1. PICK l \in Calls : signIn_reloading(c, l)
    BY <1>6
  <2>2. /\ Kind[c] = "signIn" /\ Kind[l] = "load" /\ stage[l] = "new" /\ stage[c] = "new"
        /\ stage' = [stage EXCEPT ![c] = "done", ![l] = "asking"]
        /\ receipt' = receipt /\ outcome' = [outcome EXCEPT ![c] = "error"]
    BY <2>1 DEF signIn_reloading
  <2> QED
    BY <1>1, <2>2
<1> QED
  BY <1>2, <1>3, <1>4, <1>5, <1>6 DEF Plain

LEMMA SidePlain ==
  ASSUME TypeOK, PopupSide, NEW c \in Calls, Plain(c)
  PROVE  PopupSide'
PROOF
<1> USE KindAssumption DEF PopupSide
<1>1. UNCHANGED <<named, req, win, popup, inbox, mail, nonce, tx, signed, moved>>
  BY PlainEffect DEF popupVars, chainVars
<1>2. \A d \in Calls : stage'[d] \in {"never", "new", "open"} \/ stage[d] = "open" => stage'[d] = stage[d]
  BY PlainEffect
<1>3. \A d \in Calls : RequestInv(d)'
  BY <1>1, <1>2 DEF RequestInv, Untouched, NothingSent, Quiet
<1>4. PopupInv'
  BY <1>1, <1>2, AskedCall DEF PopupInv, NothingSent, Quiet
<1>5. NonceInv'
  BY <1>1 DEF NonceInv
<1>6. MessageInv'
  BY <1>1, <1>2 DEF MessageInv, MessageOf, Told, Announced
<1>7. SentInv'
  BY <1>1, <1>2 DEF SentInv, Told, Announced
<1>8. NamedInv'
  <2>1. \A d \in Calls : stage'[d] \in {"never", "new", "open"} => outcome'[d] = outcome[d] /\ receipt'[d] = receipt[d]
    BY PlainEffect
  <2>2. \A d \in Calls : stage'[d] \in {"asking", "answered"} /\ d \in Pays => named[d] # Unnamed
    BY PlainEffect DEF NamedInv, Pays
  <2> QED
    BY <1>1, <1>2, <2>1, <2>2 DEF NamedInv
<1> QED
  BY <1>3, <1>4, <1>5, <1>6, <1>7, <1>8

\* The relayer and the chain never bring a payment back.
LEMMA ChainEffect ==
  ASSUME TypeOK, \/ other_action
                 \/ \E c \in Calls : ChainStep(c)
  PROVE  /\ UNCHANGED <<pageVars, callVars, popupVars, serverVars, signed, overtaken>>
         /\ \A d \in Calls : tx'[d] = tx[d] \/ (tx[d] \in {"wire", "pool"} /\ tx'[d] \in {"refused", "pool", "mined", "gone"})
         /\ moved \subseteq moved'
         /\ nonce' = nonce \/ (popup.at = "ensuring" /\ win.open => popup.call \in moved')
PROOF
<1> USE OutsideTypes
<1>1. UNCHANGED <<pageVars, callVars, popupVars, serverVars, signed, overtaken>>
  BY DEF ChainStep, relayer_sends, relayer_refuses, mine, revert_or_drop, other_action, chainFrame
<1>2. \A d \in Calls : tx'[d] = tx[d] \/ (tx[d] \in {"wire", "pool"} /\ tx'[d] \in {"refused", "pool", "mined", "gone"})
  BY DEF ChainStep, relayer_sends, relayer_refuses, mine, revert_or_drop, other_action
<1>3. advance \/ UNCHANGED <<nonce, moved>>
  BY DEF ChainStep, relayer_sends, relayer_refuses, mine, revert_or_drop, other_action
<1> QED
  BY <1>1, <1>2, <1>3 DEF advance, at

LEMMA SideChain ==
  ASSUME TypeOK, PopupSide, \/ other_action
                            \/ \E c \in Calls : ChainStep(c)
  PROVE  PopupSide'
PROOF
<1> USE AskedCall, KindAssumption DEF PopupSide
<1>1. UNCHANGED <<stage, named, outcome, receipt, req, win, popup, inbox, mail, signed>>
  BY ChainEffect DEF popupVars, callVars
<1>2. /\ \A d \in Calls : tx[d] = "none" <=> tx'[d] = "none"
      /\ \A d \in Calls : tx'[d] \in Live => tx[d] \in Live
  BY ChainEffect DEF Live
<1>3. moved \subseteq moved' /\ (nonce' = nonce \/ (popup.at = "ensuring" /\ win.open => popup.call \in moved'))
  BY ChainEffect
<1>4. \A d \in Calls : RequestInv(d)'
  BY <1>1, <1>2 DEF RequestInv, Untouched, NothingSent, Quiet
<1>5. PopupInv'
  BY <1>1, <1>2 DEF PopupInv, NothingSent, Quiet
<1>6. NonceInv'
  <2>1. popup.at = "ensuring" => win.open
    BY DEF PopupInv
  <2> QED
    BY <1>1, <1>3, <2>1 DEF NonceInv
<1>7. MessageInv'
  BY <1>1, <1>2 DEF MessageInv, MessageOf, Told, Announced
<1>8. SentInv'
  BY <1>1, <1>2 DEF SentInv, Told, Announced
<1>9. NamedInv'
  BY <1>1 DEF NamedInv
<1> QED
  BY <1>4, <1>5, <1>6, <1>7, <1>8, <1>9

-----------------------------------------------------------------------------
\* The sequence inbox has one more message, of call p.
Added(p, t, n) ==
  /\ Len(inbox) \in Nat /\ Len(inbox') = Len(inbox) + 1
  /\ DOMAIN inbox = 1 .. Len(inbox) /\ DOMAIN inbox' = 1 .. Len(inbox')
  /\ \A i \in 1 .. Len(inbox) : inbox'[i] = inbox[i]
  /\ LET m == inbox'[Len(inbox) + 1] IN m.call = p /\ m.type = t /\ m.nonce = n /\ m.from = win.id

LEMMA SayAdds ==
  ASSUME TypeOK, NEW p, NEW t, NEW n, say(p, t, n)
  PROVE  Added(p, t, n)
PROOF
<1> DEFINE m == [from |-> win.id, type |-> t, call |-> p, nonce |-> n]
<1>1. inbox' = Append(inbox, m)
  BY DEF say
<1>2. inbox \in Seq(Message \union {m}) /\ m \in Message \union {m}
  <2>1. inbox \in Seq(Message)
    BY PopupTypes
  <2> HIDE DEF m
  <2> QED
    BY <2>1
<1>3. Len(inbox) \in Nat /\ DOMAIN inbox = 1 .. Len(inbox)
  BY <1>2, LenProperties
<1> HIDE DEF m
<1>4. inbox' \in Seq(Message \union {m})
  BY <1>1, <1>2, AppendProperties
<1>5. /\ Len(inbox') = Len(inbox) + 1
      /\ \A i \in 1 .. Len(inbox) : inbox'[i] = inbox[i]
      /\ inbox'[Len(inbox) + 1] = m
  BY <1>1, <1>2, AppendProperties
<1>6. DOMAIN inbox' = 1 .. Len(inbox')
  BY <1>4, LenProperties
<1>7. m.call = p /\ m.type = t /\ m.nonce = n /\ m.from = win.id
  BY DEF m
<1> QED
  BY <1>3, <1>5, <1>6, <1>7 DEF Added

LEMMA MessagesNext ==
  ASSUME ASSUME NEW i \in DOMAIN inbox', NEW m, m = inbox'[i], m.type # "ready"
         PROVE  MessageOf(m, i - 1)'
  PROVE  MessageInv'
PROOF
<1> SUFFICES ASSUME NEW i \in DOMAIN inbox', inbox'[i].type # "ready"
             PROVE  MessageOf(inbox[i], i - 1)'
  BY DEF MessageInv
<1>1. PICK m : m = inbox'[i]
  OBVIOUS
<1>2. MessageOf(m, i - 1)'
  BY <1>1
<1> QED
  BY <1>1, <1>2 DEF MessageOf, Told, Announced

\* The popup says something of a request that was handed to it: of the one it
\* has taken, and closes or goes on, or of one that it turns away.
LEMMA SideSaid ==
  ASSUME TypeOK, PopupSide, NEW p \in Calls, NEW t, t \notin {"ready", "sending"}, Added(p, t, -1),
         UNCHANGED <<stage, named, outcome, receipt, req, chainVars, moved>>,
         p \notin mail', mail' \subseteq mail, req[p].window = win.id,
         stage[p] \notin {"never", "new"}, stage[p] = "open" => req[p].ready /\ req[p].values,
         t = "submitted" => tx[p] # "none",
         t \in {"cancelled", "policy", "busy"} => tx[p] \notin Live,
         \/ popup' = Blank /\ mail' = {}
         \/ /\ p = popup.call /\ popup'.call = p /\ win' = win
            /\ popup'.at = "finished" \/ (popup'.at = "confirming" /\ p \in Pays)
         \/ p # popup.call /\ UNCHANGED <<popup, win>>
  PROVE  PopupSide'
PROOF
<1> USE KindAssumption DEF PopupSide
<1>1. UNCHANGED <<nonce, tx, signed>>
  BY DEF chainVars
<1>2. /\ Len(inbox) \in Nat /\ DOMAIN inbox = 1 .. Len(inbox) /\ DOMAIN inbox' = 1 .. (Len(inbox) + 1)
      /\ Len(inbox') = Len(inbox) + 1 /\ \A i \in 1 .. Len(inbox) : inbox'[i] = inbox[i]
  BY DEF Added
<1>3. /\ inbox'[Len(inbox) + 1].call = p /\ inbox'[Len(inbox) + 1].type = t
      /\ inbox'[Len(inbox) + 1].from = win.id
  BY DEF Added
<1>4. \A i \in DOMAIN inbox' : i \in DOMAIN inbox \/ i = Len(inbox) + 1
  BY <1>2
<1>5. p # NoCall
  OBVIOUS
<1>6. \A d \in Calls \ {p} : NothingSent(d) => NothingSent(d)'
  BY <1>1, <1>2, <1>3, <1>4 DEF NothingSent, Quiet
<1>7. \A d \in Calls : RequestInv(d)'
  <2>1. \A d \in Calls \ {p} : Untouched(d) => Untouched(d)'
    BY <1>6 DEF Untouched, Blank
  <2>2. RequestInv(p)'
    BY DEF RequestInv
  <2>3. ASSUME NEW d \in Calls \ {p} PROVE RequestInv(d)'
    BY <1>6, <2>1 DEF RequestInv, Blank
  <2> QED
    BY <2>2, <2>3
<1>8. PopupInv'
  BY <1>5, <1>6, AskedCall DEF PopupInv, Blank
<1>9. NonceInv'
  BY <1>1, <1>2, <1>3, <1>4, AskedCall DEF NonceInv, Blank
<1>10. MessageInv'
  <2>1. ASSUME NEW i \in DOMAIN inbox, NEW c \in Calls, Told(c, i - 1) PROVE Told(c, i - 1)'
    BY <1>2, <2>1 DEF Told, Announced
  <2>2. ASSUME NEW i \in DOMAIN inbox, NEW m, m = inbox[i], m.type # "ready"
        PROVE  MessageOf(m, i - 1)'
    <3>1. MessageOf(m, i - 1)
      BY <2>2 DEF MessageInv
    <3> QED
      BY <1>1, <2>1, <3>1 DEF MessageOf
  <2> PICK k \in Nat : k = Len(inbox)
    BY <1>2
  <2>3. tx[p] # "none" /\ stage[p] = "open" => Told(p, k)'
    BY <1>1, <1>2 DEF SentInv, Told, Announced
  <2>4. ASSUME NEW m, m = inbox'[Len(inbox) + 1]
        PROVE  MessageOf(m, k)'
    BY <1>1, <1>3, <2>3, <2>4 DEF MessageOf, PopupInv, Live
  <2>5. ASSUME NEW i \in DOMAIN inbox', NEW m, m = inbox'[i], m.type # "ready"
        PROVE  MessageOf(m, i - 1)'
    <3>1. CASE i \in DOMAIN inbox
      BY <1>2, <2>2, <2>5, <3>1
    <3>2. CASE i = Len(inbox) + 1
      <4>1. i - 1 = k
        BY <1>2, <3>2
      <4> QED
        BY <2>4, <2>5, <3>2, <4>1
    <3> QED
      BY <1>4, <3>1, <3>2
  <2> QED
    BY <2>5, MessagesNext
<1>11. SentInv'
  BY <1>1, <1>2 DEF SentInv, Told, Announced
<1>12. NamedInv'
  BY DEF NamedInv
<1> QED
  BY <1>7, <1>8, <1>9, <1>10, <1>11, <1>12

\* The popup of the window is gone, or starts again.
LEMMA SideBlank ==
  ASSUME TypeOK, PopupSide, UNCHANGED <<stage, named, outcome, receipt, req, inbox, chainVars, moved>>,
         popup' = Blank, mail' = {}
  PROVE  PopupSide'
PROOF
<1> USE KindAssumption DEF PopupSide
<1>1. UNCHANGED <<nonce, tx, signed>>
  BY DEF chainVars
<1>2. \A d \in Calls : RequestInv(d)'
  BY <1>1 DEF RequestInv, Untouched, NothingSent, Quiet, Blank
<1>3. PopupInv'
  BY DEF PopupInv, Blank
<1>4. NonceInv'
  BY <1>1 DEF NonceInv, Blank
<1>5. MessageInv'
  BY <1>1 DEF MessageInv, MessageOf, Told, Announced
<1>6. SentInv' /\ NamedInv'
  BY <1>1 DEF SentInv, Told, Announced, NamedInv
<1> QED
  BY <1>2, <1>3, <1>4, <1>5, <1>6

\* The popup works for the request it has taken, without a word.
LEMMA SideWorks ==
  ASSUME TypeOK, PopupSide, UNCHANGED <<stage, named, outcome, receipt, req, inbox, win, tx, nonce, moved>>,
         \/ \E c \in mail : /\ popup.call = NoCall /\ popup'.at = "asked" /\ popup'.call = c
                            /\ mail' = mail \ {c} /\ UNCHANGED signed
         \/ read_nonce
         \/ authorize
  PROVE  PopupSide'
PROOF
<1> USE KindAssumption, PopupTypes, AskedCall DEF PopupSide
<1>1. ASSUME NEW c \in mail, popup.call = NoCall, popup'.at = "asked", popup'.call = c,
             mail' = mail \ {c}, UNCHANGED signed
      PROVE  PopupSide'
  <2>1. popup.call = NoCall /\ popup'.at = "asked" /\ popup'.call = c /\ mail' = mail \ {c} /\ UNCHANGED signed
    BY <1>1
  <2>2. c \in Calls
    OBVIOUS
  <2>3. \A d \in Calls : RequestInv(d)'
    BY <2>1, <2>2 DEF RequestInv, Untouched, NothingSent, Quiet
  <2>4. PopupInv'
    BY <2>1, <2>2 DEF PopupInv, RequestInv, NothingSent, Quiet
  <2>5. NonceInv' /\ MessageInv' /\ SentInv' /\ NamedInv'
    BY <2>1, <2>2 DEF NonceInv, MessageInv, MessageOf, SentInv, Told, Announced, NamedInv
  <2> QED
    BY <2>3, <2>4, <2>5
<1>2. CASE read_nonce
  <2>1. popup'.at = "ensuring" /\ popup'.call = popup.call /\ popup'.shown = nonce /\ UNCHANGED <<mail, signed>>
    BY <1>2 DEF read_nonce, still, chainVars, Page
  <2>2. popup.at = "asked" /\ popup.call \in Pays
    BY <1>2 DEF read_nonce, at, Pays
  <2>3. \A d \in Calls : RequestInv(d)'
    BY <2>1 DEF RequestInv, Untouched, NothingSent, Quiet
  <2>4. PopupInv'
    BY <2>1, <2>2 DEF PopupInv, NothingSent, Quiet
  <2>5. NonceInv'
    BY <2>1, OutsideTypes DEF NonceInv
  <2>6. MessageInv' /\ SentInv' /\ NamedInv'
    BY DEF MessageInv, MessageOf, SentInv, Told, Announced, NamedInv
  <2> QED
    BY <2>3, <2>4, <2>5, <2>6
<1>3. CASE authorize
  <2>1. popup'.at = "signing" /\ popup'.call = popup.call /\ popup'.shown = popup.shown /\ mail' = mail
    BY <1>3 DEF authorize, to, Page
  <2> PICK p \in Calls : p = popup.call /\ popup.at = "ensuring"
    BY <1>3 DEF authorize, at
  <2>2. signed'[p] = nonce /\ \A d \in Calls \ {p} : signed'[d] = signed[d]
    BY <1>3, OutsideTypes DEF authorize
  <2>3. \A d \in Calls : RequestInv(d)'
    BY <2>1 DEF RequestInv, Untouched, NothingSent, Quiet
  <2>4. PopupInv'
    BY <2>1 DEF PopupInv, NothingSent, Quiet
  <2>5. NothingSent(p) /\ named[p] = Unnamed
    BY DEF PopupInv, NamedInv
  <2>6. NonceInv'
    <3>1. popup'.shown >= 0 /\ (popup'.shown = signed'[p] \/ p \in moved)
      BY <2>1, <2>2 DEF NonceInv
    <3>2. \A i \in DOMAIN inbox : inbox[i].type = "sending" =>
             inbox[i].nonce >= 0 /\ (inbox[i].nonce = signed'[inbox[i].call] \/ inbox[i].call \in moved)
      BY <2>2, <2>5 DEF NonceInv, NothingSent, Quiet, MessageInv, MessageOf
    <3>3. \A d \in Calls : req[d].sending # -1 => req[d].sending >= 0 /\ (req[d].sending = signed'[d] \/ d \in moved)
      BY <2>2, <2>5 DEF NonceInv, NothingSent
    <3>4. \A d \in Calls : named[d].by = "nonce" => named[d].nonce = signed'[d] \/ d \in moved
      BY <2>2, <2>5 DEF NonceInv, Unnamed
    <3> QED
      BY <2>1, <3>1, <3>2, <3>3, <3>4 DEF NonceInv
  <2>7. MessageInv' /\ SentInv' /\ NamedInv'
    BY DEF MessageInv, MessageOf, SentInv, Told, Announced, NamedInv
  <2> QED
    BY <2>3, <2>4, <2>6, <2>7
<1> QED
  BY <1>1, <1>2, <1>3

\* The payment leaves the popup.
LEMMA SideSubmit ==
  ASSUME TypeOK, PopupSide, submit
  PROVE  PopupSide'
PROOF
<1> USE KindAssumption, AskedCall DEF PopupSide
<1> PICK p \in Calls : p = popup.call /\ popup.at = "signing" /\ win.open
  BY DEF submit, at
<1> PICK n : n = popup.shown
  OBVIOUS
<1> PICK k \in Nat : k = Len(inbox)
  BY PopupTypes, LenProperties
<1>1. UNCHANGED <<stage, named, outcome, receipt, req, win, mail, nonce, signed, moved>>
  BY DEF submit, popupFrame, callVars, to
<1>2. popup'.at = "relaying" /\ popup'.call = p
  BY PopupTypes DEF submit, to, Page
<1>3. tx'[p] = "wire" /\ \A d \in Calls \ {p} : tx'[d] = tx[d]
  BY OutsideTypes DEF submit
<1>4. Added(p, "sending", n)
  <2>1. say(p, "sending", n)
    BY DEF submit
  <2> QED
    BY <2>1, SayAdds
<1>5. /\ DOMAIN inbox = 1 .. k /\ DOMAIN inbox' = 1 .. (k + 1) /\ Len(inbox') = k + 1
      /\ \A i \in 1 .. k : inbox'[i] = inbox[i]
  BY <1>4 DEF Added
<1>6. /\ inbox'[k + 1].call = p /\ inbox'[k + 1].type = "sending" /\ inbox'[k + 1].from = win.id
      /\ inbox'[k + 1].nonce = n
  BY <1>4 DEF Added
<1>7. \A i \in DOMAIN inbox' : i \in DOMAIN inbox \/ i = k + 1
  BY <1>5
<1>8. p \in Pays /\ NothingSent(p) /\ stage[p] = "open" /\ req[p].window = win.id /\ req[p].ready /\ req[p].values
  BY DEF PopupInv
<1>9. \A d \in Calls \ {p} : NothingSent(d) => NothingSent(d)'
  BY <1>1, <1>3, <1>5, <1>6, <1>7 DEF NothingSent, Quiet
<1>10. \A d \in Calls : RequestInv(d)'
  <2>1. RequestInv(p)'
    BY <1>1, <1>8 DEF RequestInv
  <2>2. \A d \in Calls \ {p} : Untouched(d) => Untouched(d)'
    BY <1>1, <1>2, <1>9 DEF Untouched
  <2>3. ASSUME NEW d \in Calls \ {p} PROVE RequestInv(d)'
    BY <1>1, <1>2, <1>9, <2>2 DEF RequestInv
  <2> QED
    BY <2>1, <2>3
<1>11. PopupInv'
  BY <1>1, <1>2, <1>8 DEF PopupInv
<1>12. NonceInv'
  <2>1. n >= 0 /\ (n = signed[p] \/ p \in moved)
    BY DEF NonceInv
  <2> QED
    BY <1>1, <1>2, <1>5, <1>6, <1>7, <2>1 DEF NonceInv
<1>13. MessageInv'
  <2>1. ASSUME NEW i \in DOMAIN inbox, NEW m, m = inbox[i], m.type # "ready"
        PROVE  MessageOf(m, i - 1)'
    <3>1. MessageOf(m, i - 1) /\ m.call # p
      BY <1>8, <2>1 DEF MessageInv, NothingSent, Quiet
    <3>2. ASSUME NEW c \in Calls, Told(c, i - 1) PROVE Told(c, i - 1)'
      BY <1>1, <1>5, <3>2 DEF Told, Announced
    <3> QED
      BY <1>1, <1>3, <3>1, <3>2 DEF MessageOf
  <2>2. ASSUME NEW m, m = inbox'[k + 1]
        PROVE  MessageOf(m, k)'
    BY <1>1, <1>3, <1>6, <1>8, <2>2 DEF MessageOf
  <2>3. ASSUME NEW i \in DOMAIN inbox', NEW m, m = inbox'[i], m.type # "ready"
        PROVE  MessageOf(m, i - 1)'
    <3>1. CASE i \in DOMAIN inbox
      BY <1>5, <2>1, <2>3, <3>1
    <3>2. CASE i = k + 1
      <4>1. i - 1 = k
        BY <3>2
      <4> QED
        BY <2>2, <2>3, <3>2, <4>1
    <3> QED
      BY <1>7, <3>1, <3>2
  <2> QED
    BY <2>3, MessagesNext
<1>14. SentInv'
  <2>1. Told(p, k + 1)'
    BY <1>5, <1>6 DEF Told, Announced
  <2>2. ASSUME NEW d \in Calls \ {p}, Told(d, k) PROVE Told(d, k + 1)'
    BY <1>1, <1>5, <2>2 DEF Told, Announced
  <2>3. ASSUME NEW d \in Calls, tx'[d] # "none", stage'[d] = "open"
        PROVE  Told(d, k + 1)'
    BY <1>1, <1>3, <2>1, <2>2, <2>3 DEF SentInv
  <2> QED
    BY <1>5, <2>3 DEF SentInv, Told, Announced
<1>15. NamedInv'
  BY <1>1 DEF NamedInv
<1> QED
  BY <1>10, <1>11, <1>12, <1>13, <1>14, <1>15

LEMMA SideAnnounce ==
  ASSUME TypeOK, PopupSide, announce
  PROVE  PopupSide'
PROOF
<1> USE KindAssumption, AskedCall DEF PopupSide
<1> PICK k \in Nat : k = Len(inbox)
  BY PopupTypes, LenProperties
<1>1. UNCHANGED <<stage, named, outcome, receipt, req, win, mail, nonce, signed, tx, moved>>
  BY DEF announce, popupFrame, callVars, to, still, chainVars
<1>2. popup'.at = "waiting" /\ popup'.call = popup.call /\ popup.at = "loading"
  BY PopupTypes DEF announce, to, at, Page
<1>3. Added(NoCall, "ready", -1)
  BY SayAdds, Zenon DEF announce
<1>4. /\ DOMAIN inbox = 1 .. k /\ DOMAIN inbox' = 1 .. (k + 1) /\ Len(inbox') = k + 1
      /\ \A i \in 1 .. k : inbox'[i] = inbox[i]
  BY <1>3 DEF Added
<1>5. inbox'[k + 1].call = NoCall /\ inbox'[k + 1].type = "ready"
  BY <1>3 DEF Added
<1>6. \A i \in DOMAIN inbox' : i \in DOMAIN inbox \/ i = k + 1
  BY <1>4
<1>7. \A d \in Calls : NothingSent(d) => NothingSent(d)'
  BY <1>1, <1>4, <1>5, <1>6 DEF NothingSent, Quiet
<1>8. \A d \in Calls : RequestInv(d)'
  <2>1. \A d \in Calls : Untouched(d) => Untouched(d)'
    BY <1>1, <1>2, <1>7 DEF Untouched
  <2> QED
    BY <1>1, <1>2, <1>7, <2>1 DEF RequestInv
<1>9. PopupInv'
  BY <1>1, <1>2 DEF PopupInv
<1>10. NonceInv'
  BY <1>1, <1>2, <1>4, <1>5, <1>6 DEF NonceInv
<1>11. MessageInv'
  <2>1. ASSUME NEW i \in DOMAIN inbox, NEW m, m = inbox[i], m.type # "ready"
        PROVE  MessageOf(m, i - 1)'
    <3>1. MessageOf(m, i - 1)
      BY <2>1 DEF MessageInv
    <3>2. ASSUME NEW c \in Calls, Told(c, i - 1) PROVE Told(c, i - 1)'
      BY <1>1, <1>4, <3>2 DEF Told, Announced
    <3> QED
      BY <1>1, <3>1, <3>2 DEF MessageOf
  <2>2. ASSUME NEW i \in DOMAIN inbox', NEW m, m = inbox'[i], m.type # "ready"
        PROVE  MessageOf(m, i - 1)'
    BY <1>4, <1>5, <1>6, <2>1, <2>2
  <2> QED
    BY <2>2, MessagesNext
<1>12. SentInv'
  BY <1>1, <1>4 DEF SentInv, Told, Announced
<1>13. NamedInv'
  BY <1>1 DEF NamedInv
<1> QED
  BY <1>8, <1>9, <1>10, <1>11, <1>12, <1>13

LEMMA SidePopup ==
  ASSUME TypeOK, PopupSide, PopupStep
  PROVE  PopupSide'
PROOF
<1> USE AskedCall DEF PopupSide
<1>1. UNCHANGED <<stage, named, outcome, receipt, req>>
  BY PopupFrame DEF callVars
<1>2. popup.call \in Calls => /\ popup.call \notin mail /\ req[popup.call].window = win.id /\ ~Untouched(popup.call)
  BY KindAssumption DEF RequestInv, PopupInv, Untouched
<1>3. ASSUME NEW p \in Calls, p = popup.call, NEW t, t \notin {"ready", "sending"}, say(p, t, -1), still,
             t = "submitted" => tx[p] # "none",
             t \in {"cancelled", "policy", "busy"} => tx[p] \notin Live,
             \/ shut
             \/ to("finished")
             \/ to("confirming") /\ p \in Pays
      PROVE  PopupSide'
  <2>1. Added(p, t, -1)
    BY <1>3, SayAdds
  <2>2. UNCHANGED <<chainVars, moved>>
    BY <1>3 DEF still
  <2>3. stage[p] \notin {"never", "new"} /\ (stage[p] = "open" => req[p].ready /\ req[p].values)
    BY <1>2, <1>3 DEF RequestInv
  <2>4. ASSUME shut PROVE popup' = Blank /\ mail' = {}
    BY <2>4 DEF shut
  <2>5. ASSUME NEW s \in PopupStates, to(s) PROVE popup'.call = p /\ popup'.at = s /\ UNCHANGED <<win, mail>>
    BY <1>3, <2>5, PopupTypes DEF to, Page
  <2>6. /\ p \notin mail' /\ mail' \subseteq mail
        /\ \/ popup' = Blank /\ mail' = {}
           \/ /\ p = popup.call /\ popup'.call = p /\ win' = win
              /\ popup'.at = "finished" \/ (popup'.at = "confirming" /\ p \in Pays)
           \/ p # popup.call /\ UNCHANGED <<popup, win>>
    BY <1>2, <1>3, <2>4, <2>5 DEF PopupStates
  <2> QED
    BY <1>1, <1>2, <1>3, <2>1, <2>2, <2>3, <2>6, SideSaid
<1>4. CASE cancel \/ prove_sign_in
  <2> PICK p \in Calls : p = popup.call /\ popup.at = "asked"
    BY <1>4 DEF cancel, prove_sign_in, at
  <2>1. tx[p] = "none"
    BY DEF PopupInv, NothingSent
  <2>2. still /\ shut /\ (say(p, "cancelled", -1) \/ say(p, "result", -1))
    BY <1>4 DEF cancel, prove_sign_in
  <2> QED
    BY <1>3, <2>1, <2>2 DEF Live
<1>5. ASSUME NEW code \in {"cancelled", "policy", "relay"}, stop_before_sending(code)
      PROVE  PopupSide'
  <2> PICK p \in Calls : p = popup.call /\ popup.at \in {"asked", "ensuring", "signing"}
    BY <1>5 DEF stop_before_sending, at
  <2>1. tx[p] = "none"
    BY DEF PopupInv, NothingSent
  <2>2. still /\ to("finished") /\ say(p, code, -1)
    BY <1>5 DEF stop_before_sending
  <2> QED
    BY <1>3, <2>1, <2>2 DEF Live
<1>6. ASSUME NEW code \in {"cancelled", "policy", "relay"}, not_submitted(code)
      PROVE  PopupSide'
  <2> PICK p \in Calls : p = popup.call /\ popup.at = "relaying"
    BY <1>6 DEF not_submitted, at
  <2>1. still /\ to("finished") /\ say(p, code, -1) /\ (code = "relay" \/ (code = "policy" /\ tx[p] = "refused"))
    BY <1>6 DEF not_submitted
  <2> QED
    BY <1>3, <2>1 DEF Live
<1>7. CASE submitted
  <2> PICK p \in Calls : p = popup.call /\ popup.at = "relaying"
    BY <1>7 DEF submitted, at
  <2>1. still /\ to("confirming") /\ say(p, "submitted", -1) /\ tx[p] # "none" /\ p \in Pays
    BY <1>7 DEF submitted, PopupInv
  <2> QED
    BY <1>3, <2>1
<1>8. CASE confirmed \/ not_confirmed
  <2> PICK p \in Calls : p = popup.call /\ popup.at = "confirming"
    BY <1>8 DEF confirmed, not_confirmed, at
  <2>1. CASE confirmed
    <3>1. still /\ shut /\ say(p, "result", -1)
      BY <2>1 DEF confirmed
    <3> QED
      BY <1>3, <3>1
  <2>2. CASE not_confirmed
    <3>1. still /\ to("finished") /\ say(p, "relay", -1)
      BY <2>2 DEF not_confirmed
    <3> QED
      BY <1>3, <3>1
  <2> QED
    BY <1>8, <2>1, <2>2
<1>9. CASE close_window \/ reload_window
  <2>1. popup' = Blank /\ mail' = {} /\ UNCHANGED <<inbox, chainVars, moved>>
    BY <1>9 DEF close_window, reload_window, shut, still
  <2> QED
    BY <1>1, <2>1, SideBlank
<1>10. CASE read_nonce \/ authorize
  <2>1. UNCHANGED <<inbox, win, tx, nonce, moved>>
    BY <1>10 DEF read_nonce, authorize, to, still, chainVars
  <2> QED
    BY <1>1, <1>10, <2>1, SideWorks
<1>11. ASSUME NEW c \in Calls, receive_request(c)
       PROVE  PopupSide'
  <2>1. c \in mail /\ mail' = mail \ {c} /\ win' = win /\ still /\ UNCHANGED <<chainVars, moved>>
    BY <1>11 DEF receive_request, still
  <2>2. CASE popup.call = NoCall
    <3>1. popup' = [popup EXCEPT !.at = "asked", !.call = c] /\ inbox' = inbox
      BY <1>11, <2>2 DEF receive_request
    <3>2. popup'.at = "asked" /\ popup'.call = c
      BY <3>1, PopupTypes DEF Page
    <3>3. UNCHANGED <<tx, nonce, signed>>
      BY <2>1 DEF chainVars
    <3> HIDE DEF PopupSide
    <3> QED
      BY <1>1, <2>1, <2>2, <3>1, <3>2, <3>3, SideWorks, Zenon
  <2>3. CASE popup.call # NoCall
    <3>1. say(c, "busy", -1) /\ popup' = popup
      BY <1>11, <2>3 DEF receive_request
    <3>2. Added(c, "busy", -1)
      BY <3>1, SayAdds
    <3>3. /\ req[c].window = win.id /\ stage[c] = "open" /\ req[c].ready /\ req[c].values
          /\ popup.call # c /\ tx[c] \notin Live
      BY <2>1 DEF RequestInv, NothingSent, Live
    <3> QED
      BY <1>1, <2>1, <3>1, <3>2, <3>3, SideSaid
  <2> QED
    BY <2>2, <2>3
<1> QED
  BY <1>4, <1>5, <1>6, <1>7, <1>8, <1>9, <1>10, <1>11, SideSubmit, SideAnnounce DEF PopupStep

-----------------------------------------------------------------------------
\* A request begins: its window shows a new page, and nobody knows of it yet.
LEMMA SideOpen ==
  ASSUME TypeOK, PopupSide, NEW c \in Calls, signIn(c) \/ pay(c)
  PROVE  PopupSide'
PROOF
<1> USE KindAssumption DEF PopupSide
<1>1. open(c) /\ c \in Opens /\ stage[c] = "new"
  BY DEF signIn, pay, Opens
<1>2. UNCHANGED <<outcome, named, receipt, inbox, nonce, signed, tx, moved>>
  BY <1>1 DEF open, chainVars
<1>3. /\ \A d \in Calls \ {c} : stage'[d] = stage[d] /\ req'[d] = req[d]
      /\ stage'[c] = "open" /\ ~req'[c].ready /\ ~req'[c].sent /\ req'[c].sending = -1
      /\ popup' = Blank /\ mail' = {}
  BY <1>1, OpenEffect
<1>4. Untouched(c)
  BY <1>1 DEF RequestInv
<1>5. \A d \in Calls : Untouched(d) => Untouched(d)'
  BY <1>2, <1>3, <1>4 DEF Untouched, NothingSent, Quiet, Blank
<1>6. \A d \in Calls : RequestInv(d)'
  BY <1>3, <1>4, <1>5 DEF RequestInv
<1>7. PopupInv'
  BY <1>3 DEF PopupInv, Blank
<1>8. NonceInv'
  BY <1>2, <1>3 DEF NonceInv, Blank
<1>9. MessageInv'
  <2>1. ASSUME NEW i \in DOMAIN inbox', NEW m, m = inbox'[i], m.type # "ready"
        PROVE  MessageOf(m, i - 1)'
    <3>1. MessageOf(m, i - 1) /\ m.call # c
      BY <1>2, <1>4, <2>1 DEF MessageInv, Untouched, NothingSent, Quiet
    <3> QED
      BY <1>2, <1>3, <3>1 DEF MessageOf, Told, Announced
  <2> QED
    BY <2>1, MessagesNext
<1>10. SentInv'
  BY <1>2, <1>3, <1>4 DEF SentInv, Told, Announced, Untouched, NothingSent
<1>11. NamedInv'
  BY <1>1, <1>2, <1>3 DEF NamedInv
<1> QED
  BY <1>6, <1>7, <1>8, <1>9, <1>10, <1>11

\* The page has read one message, of call c.
Read(c) ==
  /\ inbox # <<>> /\ inbox' = Tail(inbox)
  /\ inbox[1].call = c \/ inbox[1].type # "sending"

\* What was announced before is announced, or was told by the message read.
LEMMA StillAnnounced ==
  ASSUME TypeOK, NEW c, Read(c), NEW d, d # c, NEW k \in Nat, k <= Len(inbox), Announced(d, k)
  PROVE  Announced(d, k - 1)'
PROOF
<1>1. PICK j \in 1 .. k : inbox[j].call = d /\ inbox[j].type = "sending"
  BY DEF Announced
<1>2. j # 1
  BY <1>1 DEF Read
<1>3. /\ Len(inbox) \in Nat /\ Len(inbox') = Len(inbox) - 1
      /\ \A i \in 1 .. Len(inbox') : inbox'[i] = inbox[i + 1]
  BY HeadTail DEF Read
<1>4. j - 1 \in 1 .. k - 1 /\ j - 1 \in 1 .. Len(inbox') /\ (j - 1) + 1 = j
  BY <1>2, <1>3
<1>5. inbox'[j - 1] = inbox[j]
  BY <1>3, <1>4
<1> QED
  BY <1>1, <1>4, <1>5 DEF Announced

LEMMA StillMessages ==
  ASSUME TypeOK, NEW c, Read(c)
  PROVE  /\ \A i \in DOMAIN inbox' : i + 1 \in DOMAIN inbox /\ inbox'[i] = inbox[i + 1]
         /\ 1 \in DOMAIN inbox /\ inbox[1] = Head(inbox) /\ DOMAIN inbox \subseteq Nat
         /\ Len(inbox) \in Nat /\ Len(inbox') = Len(inbox) - 1 /\ DOMAIN inbox = 1 .. Len(inbox)
PROOF
  BY HeadTail DEF Read

\* The request of call c is over, and what the page knows of its payment is right.
Over(c) ==
  /\ stage'[c] \in {"asking", "done"}
  /\ \A d \in Calls \ {c} :
       stage'[d] = stage[d] /\ named'[d] = named[d] /\ outcome'[d] = outcome[d] /\ req'[d] = req[d]
  /\ req'[c].window = req[c].window /\ ~req'[c].sent /\ req'[c].sending = -1
  /\ named'[c].by = "nonce" => named'[c].nonce = signed[c] \/ c \in moved
  /\ named'[c].by = "nothing" => named'[c] = Unnamed
  /\ stage'[c] = "asking" /\ c \in Pays => named'[c] # Unnamed

LEMMA FailOver ==
  ASSUME TypeOK, PopupSide, NEW c \in Calls, NEW code, fail(c, code)
  PROVE  Over(c)
PROOF
<1>1. /\ Ended(c, code).by = "nonce" => Ended(c, code).nonce = signed[c] \/ c \in moved
      /\ Ended(c, code).by = "nothing" => Ended(c, code) = Unnamed
  BY DEF Ended, Unnamed, PopupSide, NonceInv
<1>2. forget(c)
  BY DEF fail
<1>3. req'[c].window = req[c].window /\ ~req'[c].sent /\ req'[c].sending = -1
  BY <1>2, ForgetEffect
<1> QED
  BY <1>1, <1>3, FailEffect DEF Over

LEMMA SideOver ==
  ASSUME TypeOK, PopupSide, NEW c \in Calls, Over(c), stage[c] = "open",
         UNCHANGED <<receipt, chainVars, moved>>,
         c \notin mail, popup.call = c => popup.at \notin {"asked", "ensuring", "signing"} \/ popup' = Blank,
         \/ UNCHANGED <<win, popup, mail>>
         \/ popup' = Blank /\ mail' = {},
         inbox' = inbox \/ Read(c)
  PROVE  PopupSide'
PROOF
<1> USE KindAssumption, AskedCall DEF PopupSide
<1>1. UNCHANGED <<tx, nonce, signed>>
  BY DEF chainVars
<1>2. /\ stage'[c] \in {"asking", "done"}
      /\ \A d \in Calls \ {c} :
           stage'[d] = stage[d] /\ named'[d] = named[d] /\ outcome'[d] = outcome[d] /\ req'[d] = req[d]
      /\ req'[c].window = req[c].window /\ ~req'[c].sent /\ req'[c].sending = -1
  BY DEF Over
<1>3. \A i \in DOMAIN inbox' : \E j \in DOMAIN inbox : inbox'[i] = inbox[j]
  BY StillMessages
<1>4. \A d \in Calls \ {c} : NothingSent(d) => NothingSent(d)'
  BY <1>1, <1>2, <1>3 DEF NothingSent, Quiet
<1>5. \A d \in Calls : RequestInv(d)'
  <2>1. \A d \in Calls \ {c} : Untouched(d) => Untouched(d)'
    BY <1>4 DEF Untouched, Blank
  <2>2. RequestInv(c)'
    BY <1>2 DEF RequestInv
  <2>3. ASSUME NEW d \in Calls \ {c} PROVE RequestInv(d)'
    BY <1>2, <1>4, <2>1 DEF RequestInv, Blank
  <2> QED
    BY <2>2, <2>3
<1>6. PopupInv'
  BY <1>2, <1>4 DEF PopupInv, Blank
<1>7. NonceInv'
  <2>1. \A i \in DOMAIN inbox' : inbox'[i].type = "sending" =>
           inbox'[i].nonce >= 0 /\ (inbox'[i].nonce = signed[inbox'[i].call] \/ inbox'[i].call \in moved)
    BY <1>3 DEF NonceInv
  <2>2. \A d \in Calls : named'[d].by = "nonce" => named'[d].nonce = signed[d] \/ d \in moved
    BY DEF Over, NonceInv
  <2>3. \A d \in Calls : req'[d].sending # -1 => req'[d].sending >= 0 /\ (req'[d].sending = signed[d] \/ d \in moved)
    BY <1>2 DEF NonceInv
  <2>4. popup' = popup \/ popup' = Blank
    OBVIOUS
  <2> QED
    BY <1>1, <2>1, <2>2, <2>3, <2>4 DEF NonceInv, Blank
<1>8. MessageInv'
  <2>1. ASSUME NEW i \in DOMAIN inbox', NEW m, m = inbox'[i], m.type # "ready"
        PROVE  MessageOf(m, i - 1)'
    <3>1. CASE inbox' = inbox
      <4>1. MessageOf(m, i - 1)
        BY <2>1, <3>1 DEF MessageInv
      <4> QED
        BY <1>1, <1>2, <3>1, <4>1 DEF MessageOf, Told, Announced
    <3>2. CASE Read(c)
      <4>1. i + 1 \in DOMAIN inbox /\ m = inbox[i + 1] /\ i \in Nat /\ i <= Len(inbox)
        BY <2>1, <3>2, StillMessages
      <4>2. MessageOf(m, i)
        <5>1. (i + 1) - 1 = i
          BY <4>1
        <5> QED
          BY <2>1, <4>1, <5>1 DEF MessageInv
      <4>3. ASSUME m.call # c, Told(m.call, i) PROVE Told(m.call, i - 1)'
        BY <1>2, <3>2, <4>1, <4>2, <4>3, StillAnnounced DEF Told, MessageOf
      <4> QED
        BY <1>1, <1>2, <4>2, <4>3 DEF MessageOf
    <3> QED
      BY <3>1, <3>2
  <2> QED
    BY <2>1, MessagesNext
<1>9. SentInv'
  <2>1. CASE inbox' = inbox
    BY <1>1, <1>2, <2>1 DEF SentInv, Told, Announced
  <2>2. CASE Read(c)
    <3> PICK k \in Nat : k = Len(inbox) /\ Len(inbox') = k - 1
      BY <2>2, StillMessages
    <3>1. ASSUME NEW d \in Calls \ {c}, Told(d, k) PROVE Told(d, k - 1)'
      BY <1>2, <2>2, <3>1, StillAnnounced DEF Told
    <3>2. ASSUME NEW d \in Calls, tx'[d] # "none", stage'[d] = "open" PROVE Told(d, k - 1)'
      BY <1>1, <1>2, <3>1, <3>2 DEF SentInv
    <3> QED
      BY <3>2 DEF SentInv, Told, Announced
  <2> QED
    BY <2>1, <2>2
<1>10. NamedInv'
  BY <1>2 DEF NamedInv, Over
<1> QED
  BY <1>5, <1>6, <1>7, <1>8, <1>9, <1>10

\* Requests become ready, or get their values; those with both are posted.
LEMMA SideMailed ==
  ASSUME TypeOK, PopupSide, UNCHANGED <<stage, named, outcome, receipt, win, popup, chainVars, moved>>,
         \A d \in Calls :
           /\ req'[d].window = req[d].window /\ req'[d].sent = req[d].sent /\ req'[d].sending = req[d].sending
           /\ req[d].ready => req'[d].ready
           /\ req[d].values => req'[d].values,
         mail \subseteq mail',
         \A d \in mail' \ mail :
           /\ d \in Calls /\ stage[d] = "open" /\ ~(req[d].ready /\ req[d].values)
           /\ req'[d].ready /\ req'[d].values /\ win.open /\ req[d].window = win.id,
         inbox' = inbox \/ Read(NoCall)
  PROVE  PopupSide'
PROOF
<1> USE KindAssumption, AskedCall DEF PopupSide
<1>1. UNCHANGED <<tx, nonce, signed>>
  BY DEF chainVars
<1>2. \A i \in DOMAIN inbox' : \E j \in DOMAIN inbox : inbox'[i] = inbox[j]
  BY StillMessages
<1>3. \A d \in Calls : NothingSent(d) => NothingSent(d)'
  BY <1>1, <1>2 DEF NothingSent, Quiet
<1>4. \A d \in Calls : RequestInv(d)'
  <2>1. ASSUME NEW d \in Calls PROVE RequestInv(d)'
    BY <1>3 DEF RequestInv, Untouched
  <2> QED
    BY <2>1
<1>5. PopupInv'
  BY <1>3 DEF PopupInv
<1>6. NonceInv'
  BY <1>1, <1>2 DEF NonceInv
<1>7. MessageInv'
  <2>1. ASSUME NEW i \in DOMAIN inbox', NEW m, m = inbox'[i], m.type # "ready"
        PROVE  MessageOf(m, i - 1)'
    <3>1. CASE inbox' = inbox
      <4>1. MessageOf(m, i - 1)
        BY <2>1, <3>1 DEF MessageInv
      <4> QED
        BY <1>1, <3>1, <4>1 DEF MessageOf, Told, Announced
    <3>2. CASE Read(NoCall)
      <4>1. i + 1 \in DOMAIN inbox /\ m = inbox[i + 1] /\ i \in Nat /\ i <= Len(inbox)
        <5>1. i + 1 \in DOMAIN inbox /\ inbox'[i] = inbox[i + 1]
          BY <2>1, <3>2, StillMessages
        <5>2. DOMAIN inbox = 1 .. Len(inbox) /\ Len(inbox) \in Nat /\ i \in 1 .. Len(inbox')
          BY <2>1, <3>2, HeadTail DEF Read
        <5>3. i \in Nat
          BY <5>2
        <5> QED
          BY <2>1, <5>1, <5>2, <5>3
      <4>2. MessageOf(m, i)
        <5>1. (i + 1) - 1 = i
          BY <4>1
        <5> QED
          BY <2>1, <4>1, <5>1 DEF MessageInv
      <4>3. ASSUME m.call \in Calls, Told(m.call, i) PROVE Told(m.call, i - 1)'
        BY <3>2, <4>1, <4>3, StillAnnounced DEF Told
      <4> QED
        BY <1>1, <4>2, <4>3 DEF MessageOf
    <3> QED
      BY <3>1, <3>2
  <2> QED
    BY <2>1, MessagesNext
<1>8. SentInv'
  <2>1. CASE inbox' = inbox
    BY <1>1, <2>1 DEF SentInv, Told, Announced
  <2>2. CASE Read(NoCall)
    <3> PICK k \in Nat : k = Len(inbox) /\ Len(inbox') = k - 1
      BY <2>2, StillMessages
    <3>1. ASSUME NEW d \in Calls, Told(d, k) PROVE Told(d, k - 1)'
      BY <2>2, <3>1, StillAnnounced DEF Told
    <3>2. ASSUME NEW d \in Calls, tx'[d] # "none", stage'[d] = "open" PROVE Told(d, k - 1)'
      BY <1>1, <3>1, <3>2 DEF SentInv
    <3> QED
      BY <3>2 DEF SentInv, Told, Announced
  <2> QED
    BY <2>1, <2>2
<1>9. NamedInv'
  BY DEF NamedInv
<1> QED
  BY <1>4, <1>5, <1>6, <1>7, <1>8, <1>9

\* The page hears that its payment is being sent, or was.
LEMMA SideProgress ==
  ASSUME TypeOK, PopupSide, UNCHANGED <<stage, named, outcome, receipt, win, popup, mail, chainVars, moved>>,
         NEW m, inbox # <<>>, m = Head(inbox), inbox' = Tail(inbox), hear_progress(m)
  PROVE  PopupSide'
PROOF
<1> USE KindAssumption, AskedCall DEF PopupSide
<1>1. UNCHANGED <<tx, nonce, signed>>
  BY DEF chainVars
<1>2. Read(m.call) /\ m = inbox[1] /\ 1 \in DOMAIN inbox /\ m.type \in {"sending", "submitted"}
  BY HeadTail DEF Read, hear_progress
<1> PICK c \in Calls : c = m.call
  BY <1>2 DEF MessageInv, MessageOf
<1>3. \A i \in DOMAIN inbox' : \E j \in DOMAIN inbox : inbox'[i] = inbox[j]
  BY <1>2, StillMessages
<1>4. ~Quiet(c)
  BY <1>2 DEF Quiet
<1>5. /\ \A d \in Calls \ {c} : req'[d] = req[d]
      /\ req'[c].window = req[c].window /\ req'[c].ready = req[c].ready /\ req'[c].values = req[c].values
      /\ \/ req'[c].sending = req[c].sending /\ m.type = "submitted"
         \/ req'[c].sending = m.nonce /\ m.type = "sending"
         \/ req'[c].sending = req[c].sending /\ ~Hears(c, m)
  <2>1. req \in [Calls -> Request] /\ req[c] \in Request
    BY CallTypes
  <2>2. CASE ~Hears(c, m)
    BY <2>2 DEF hear_progress
  <2>3. CASE Hears(c, m) /\ m.type = "sending"
    <3>1. req' = [req EXCEPT ![c] = [req[c] EXCEPT !.sending = m.nonce]]
      BY <2>3 DEF hear_progress
    <3>2. req'[c] = [req[c] EXCEPT !.sending = m.nonce]
      BY <2>1, <3>1
    <3> QED
      BY <2>1, <2>3, <3>1, <3>2 DEF Request
  <2>4. CASE Hears(c, m) /\ m.type = "submitted"
    <3>1. req' = [req EXCEPT ![c] = [req[c] EXCEPT !.sent = TRUE]]
      BY <2>4 DEF hear_progress
    <3>2. req'[c] = [req[c] EXCEPT !.sent = TRUE]
      BY <2>1, <3>1
    <3> QED
      BY <2>1, <2>4, <3>1, <3>2 DEF Request
  <2> QED
    BY <1>2, <2>2, <2>3, <2>4
<1>6. m.type = "sending" => m.nonce >= 0 /\ (m.nonce = signed[c] \/ c \in moved)
  BY <1>2 DEF NonceInv
<1>7. m.from = req[c].window
  BY <1>2 DEF MessageInv, MessageOf
<1>8. \A d \in Calls \ {c} : NothingSent(d) => NothingSent(d)'
  BY <1>1, <1>3, <1>5 DEF NothingSent, Quiet
<1>9. \A d \in Calls : RequestInv(d)'
  <2>1. RequestInv(c)'
    BY <1>4, <1>5 DEF RequestInv, Untouched, NothingSent
  <2>2. ASSUME NEW d \in Calls \ {c} PROVE RequestInv(d)'
    BY <1>5, <1>8 DEF RequestInv, Untouched
  <2> QED
    BY <2>1, <2>2
<1>10. PopupInv'
  BY <1>4, <1>5, <1>8 DEF PopupInv, NothingSent
<1>11. NonceInv'
  <2>1. \A i \in DOMAIN inbox' : inbox'[i].type = "sending" =>
           inbox'[i].nonce >= 0 /\ (inbox'[i].nonce = signed[inbox'[i].call] \/ inbox'[i].call \in moved)
    BY <1>3 DEF NonceInv
  <2>2. \A d \in Calls : req'[d].sending # -1 => req'[d].sending >= 0 /\ (req'[d].sending = signed[d] \/ d \in moved)
    BY <1>5, <1>6 DEF NonceInv
  <2> QED
    BY <1>1, <2>1, <2>2 DEF NonceInv
<1>12. ASSUME NEW d \in Calls, stage[d] = "open", NEW k \in Nat, k <= Len(inbox), Told(d, k)
       PROVE  Told(d, k - 1)'
  <2>1. CASE d # c
    BY <1>2, <1>5, <1>12, <2>1, StillAnnounced DEF Told
  <2>2. CASE d = c /\ m.type = "sending"
    BY <1>5, <1>6, <1>7, <1>12, <2>2 DEF Hears, Told
  <2>3. CASE d = c /\ m.type = "submitted"
    <3>1. Read(NoCall)
      BY <1>2, <2>3 DEF Read
    <3>2. req'[d].sending = req[d].sending
      BY <1>5, <2>3
    <3> QED
      BY <1>12, <3>1, <3>2, StillAnnounced DEF Told
  <2> QED
    BY <1>2, <2>1, <2>2, <2>3
<1>13. MessageInv'
  <2>1. ASSUME NEW i \in DOMAIN inbox', NEW n, n = inbox'[i], n.type # "ready"
        PROVE  MessageOf(n, i - 1)'
    <3>1. i + 1 \in DOMAIN inbox /\ n = inbox[i + 1] /\ i \in Nat /\ i <= Len(inbox)
      BY <1>2, <2>1, StillMessages
    <3>2. MessageOf(n, i)
      <4>1. (i + 1) - 1 = i
        BY <3>1
      <4> QED
        BY <2>1, <3>1, <4>1 DEF MessageInv
    <3>3. stage[n.call] = "open" /\ Told(n.call, i) => Told(n.call, i - 1)'
      BY <1>12, <3>1, <3>2 DEF MessageOf
    <3>4. req'[n.call].window = req[n.call].window
      BY <1>5, <3>2 DEF MessageOf
    <3> QED
      BY <1>1, <3>2, <3>3, <3>4 DEF MessageOf
  <2> QED
    BY <2>1, MessagesNext
<1>14. SentInv'
  <2> PICK k \in Nat : k = Len(inbox) /\ Len(inbox') = k - 1
    BY <1>2, StillMessages
  <2>1. ASSUME NEW d \in Calls, tx'[d] # "none", stage'[d] = "open" PROVE Told(d, k - 1)'
    BY <1>1, <1>12, <2>1 DEF SentInv
  <2> QED
    BY <2>1 DEF SentInv, Told, Announced
<1>15. NamedInv'
  BY DEF NamedInv
<1> QED
  BY <1>9, <1>10, <1>11, <1>13, <1>14, <1>15

LEMMA SideMessage ==
  ASSUME TypeOK, PopupSide, onMessage
  PROVE  PopupSide'
PROOF
<1> USE KindAssumption, CallTypes DEF PopupSide
<1> PICK m : m = Head(inbox)
  OBVIOUS
<1>1. UNCHANGED <<receipt, win, popup, chainVars, moved>>
  BY DEF onMessage, history
<1>2. inbox # <<>> /\ inbox' = Tail(inbox) /\ (hear_ready(m) \/ hear_progress(m) \/ hear_end(m))
  BY DEF onMessage
<1>3. m = inbox[1] /\ 1 \in DOMAIN inbox
  BY <1>2, HeadTail
<1>4. CASE hear_ready(m)
  <2> DEFINE first == {c \in Calls : Hears(c, m) /\ ~req[c].ready}
  <2>1. /\ req' = [c \in Calls |-> IF c \in first THEN [req[c] EXCEPT !.ready = TRUE] ELSE req[c]]
        /\ mail' = mail \union {c \in first : req[c].values /\ win.open /\ req[c].window = win.id /\ popup.at # "loading"}
        /\ UNCHANGED <<stage, outcome, named>>
    BY <1>4 DEF hear_ready, post
  <2>2. \A c \in first : c \in Calls /\ stage[c] = "open" /\ ~req[c].ready
    BY DEF Hears
  <2> HIDE DEF first
  <2>3. ASSUME NEW d \in Calls
        PROVE  /\ req'[d].window = req[d].window /\ req'[d].sent = req[d].sent /\ req'[d].sending = req[d].sending
               /\ req'[d].values = req[d].values /\ req[d].ready => req'[d].ready
               /\ d \in first => req'[d].ready
    <3>1. req[d] \in Request
      OBVIOUS
    <3>2. CASE d \in first
      <4>1. req'[d] = [req[d] EXCEPT !.ready = TRUE]
        BY <2>1, <3>2
      <4> QED
        BY <3>1, <4>1 DEF Request
    <3>3. CASE d \notin first
      BY <2>1, <3>3
    <3> QED
      BY <3>2, <3>3
  <2>4. Read(NoCall)
    BY <1>2, <1>3, <1>4 DEF Read, hear_ready
  <2>5. \A d \in mail' \ mail :
           /\ d \in Calls /\ stage[d] = "open" /\ ~(req[d].ready /\ req[d].values)
           /\ req'[d].ready /\ req'[d].values /\ win.open /\ req[d].window = win.id
    BY <2>1, <2>2, <2>3
  <2>6. mail \subseteq mail'
    BY <2>1
  <2>7. /\ \A d \in Calls :
           /\ req'[d].window = req[d].window /\ req'[d].sent = req[d].sent /\ req'[d].sending = req[d].sending
           /\ req[d].ready => req'[d].ready
           /\ req[d].values => req'[d].values
        /\ UNCHANGED <<stage, named, outcome, receipt, win, popup, chainVars, moved>>
    BY <1>1, <2>1, <2>3
  <2> HIDE DEF PopupSide
  <2> QED
    BY <2>4, <2>5, <2>6, <2>7, SideMailed
<1>5. CASE hear_progress(m)
  BY <1>1, <1>2, <1>5, SideProgress DEF hear_progress
<1>6. CASE hear_end(m)
  <2>1. Read(m.call) /\ mail' = mail /\ m.call \in Calls /\ m.type # "ready" /\ m.type # "sending"
    BY <1>2, <1>3, <1>6 DEF Read, hear_end, MessageInv, MessageOf
  <2> PICK c \in Calls : c = m.call
    BY <2>1
  <2>2. ~Quiet(c)
    BY <1>3 DEF Quiet
  <2>3. c \notin mail /\ (popup.call = c => popup.at \notin {"asked", "ensuring", "signing"})
    BY <2>2 DEF RequestInv, PopupInv, NothingSent
  <2>4. CASE UNCHANGED <<stage, outcome, named, req>>
    <3>1. Read(NoCall)
      BY <1>3, <2>1 DEF Read
    <3> QED
      BY <1>1, <2>1, <2>4, <3>1, SideMailed
  <2>5. CASE Hears(c, m) /\ Over(c)
    BY <1>1, <2>1, <2>3, <2>5, SideOver DEF Hears
  <2>6. CASE Hears(c, m) /\ m.type = "result"
    <3>1. /\ go(c, "asking") /\ forget(c) /\ outcome' = outcome
          /\ named' = IF Kind[c] = "pay" THEN [named EXCEPT ![c] = [by |-> "hash", nonce |-> -1]] ELSE named
      BY <1>6, <2>6 DEF hear_end
    <3>2. /\ \A d \in Calls \ {c} : req'[d] = req[d]
          /\ req'[c].window = req[c].window /\ ~req'[c].sent /\ req'[c].sending = -1
      BY <3>1, ForgetEffect
    <3>3. stage'[c] = "asking" /\ \A d \in Calls \ {c} : stage'[d] = stage[d] /\ named'[d] = named[d]
      BY <3>1 DEF go
    <3>4. /\ named'[c].by = "nonce" => named'[c].nonce = signed[c] \/ c \in moved
          /\ named'[c].by = "nothing" => named'[c] = Unnamed
          /\ c \in Pays => named'[c] # Unnamed
      <4>1. CASE Kind[c] = "pay"
        <5>1. named'[c] = [by |-> "hash", nonce |-> -1]
          BY <3>1, <4>1
        <5> QED
          BY <5>1 DEF Unnamed
      <4>2. CASE Kind[c] # "pay"
        BY <3>1, <4>2 DEF NonceInv, NamedInv, Pays
      <4> QED
        BY <4>1, <4>2
    <3>5. Over(c)
      BY <3>1, <3>2, <3>3, <3>4 DEF Over
    <3> QED
      BY <2>5, <2>6, <3>5
  <2>7. CASE Hears(c, m) /\ fail(c, m.type)
    BY <2>5, <2>7, FailOver
  <2> QED
    BY <1>6, <2>4, <2>6, <2>7 DEF hear_end
<1> QED
  BY <1>2, <1>4, <1>5, <1>6

LEMMA SideEnd ==
  ASSUME TypeOK, PopupSide, NEW c \in Calls, EndStep(c)
  PROVE  PopupSide'
PROOF
<1> USE KindAssumption DEF PopupSide
<1>1. stage[c] = "open" /\ UNCHANGED <<receipt, inbox, chainVars, moved>>
  BY DEF EndStep, closedPoll, readyTimer, values_fail, popupVars, history
<1>2. Over(c)
  <2>1. PICK code : fail(c, code)
    BY DEF EndStep, closedPoll, readyTimer, values_fail
  <2> QED
    BY <2>1, FailOver
<1>3. CASE closedPoll(c)
  <2>1. c \notin mail /\ popup.call # c /\ UNCHANGED <<win, popup, mail>>
    BY <1>3 DEF closedPoll, Closed, RequestInv, PopupInv, popupVars
  <2> QED
    BY <1>1, <1>2, <2>1, SideOver
<1>4. CASE readyTimer(c) \/ values_fail(c)
  <2>1. Untouched(c)
    BY <1>4 DEF readyTimer, values_fail, RequestInv
  <2>2. \/ UNCHANGED <<win, popup, mail>>
        \/ popup' = Blank /\ mail' = {}
    BY <1>4 DEF readyTimer, values_fail, shut, popupVars
  <2> QED
    BY <1>1, <1>2, <2>1, <2>2, SideOver DEF Untouched
<1> QED
  BY <1>3, <1>4 DEF EndStep

LEMMA SideValues ==
  ASSUME TypeOK, PopupSide, NEW c \in Calls, values_arrive(c)
  PROVE  PopupSide'
PROOF
<1> USE KindAssumption, CallTypes
<1>1. UNCHANGED <<stage, named, outcome, receipt, win, popup, inbox, chainVars, moved>>
  BY DEF values_arrive, history
<1>2. /\ mail' = mail \union {d \in IF req[c].ready THEN {c} ELSE {} :
                              win.open /\ req[d].window = win.id /\ popup.at # "loading"}
      /\ stage[c] = "open" /\ ~req[c].values
  BY DEF values_arrive, post
<1>3. req[c] \in Request /\ req' = [req EXCEPT ![c] = [req[c] EXCEPT !.values = TRUE]]
  BY DEF values_arrive
<1>4. req'[c] = [req[c] EXCEPT !.values = TRUE] /\ \A d \in Calls \ {c} : req'[d] = req[d]
  BY <1>3
<1>5. /\ req'[c].window = req[c].window /\ req'[c].sent = req[c].sent /\ req'[c].sending = req[c].sending
      /\ req'[c].values /\ req'[c].ready = req[c].ready
  BY <1>3, <1>4 DEF Request
<1> QED
  BY <1>1, <1>2, <1>4, <1>5, SideMailed

LEMMA SideStep ==
  ASSUME TypeOK, PopupSide, [Next]_vars
  PROVE  PopupSide'
PROOF
<1>1. CASE UNCHANGED vars
  <2>1. UNCHANGED <<stage, named, outcome, receipt, req, win, popup, mail, inbox, chainVars, moved>>
    BY <1>1 DEF vars, callVars, popupVars, history
  <2> QED
    BY <2>1, SideMailed
<1>2. CASE onMessage
  BY <1>2, SideMessage
<1>3. CASE PopupStep
  BY <1>3, SidePopup
<1>4. CASE other_action
  BY <1>4, SideChain
<1>5. ASSUME NEW c \in Calls, PageStep(c) \/ OutsideStep(c)
      PROVE  PopupSide'
  <2>1. CASE Plain(c)
    BY <2>1, SidePlain
  <2>2. CASE ChainStep(c)
    BY <2>2, SideChain
  <2>3. CASE signIn(c) \/ pay(c)
    BY <2>3, SideOpen
  <2>4. CASE EndStep(c)
    BY <2>4, SideEnd
  <2>5. CASE values_arrive(c)
    BY <2>5, SideValues
  <2> QED
    BY <1>5, <2>1, <2>2, <2>3, <2>4, <2>5 DEF PageStep, OutsideStep, Plain, ChainStep, EndStep
<1> QED
  BY <1>1, <1>2, <1>3, <1>4, <1>5 DEF Next

-----------------------------------------------------------------------------
(***************************************************************************)
(* No payment is lost to the page                                          *)
(***************************************************************************)

\* A request that ends without a name for its payment has sent nothing, or its
\* messages were overtaken by the closing of the window.
LEMMA EndsNamed ==
  ASSUME TypeOK, PopupSide, NEW c \in Pays, stage[c] = "open", tx[c] \in Live, NEW code,
         Told(c, 0) /\ code \in {"closed", "relay"}
  PROVE  Ended(c, code) # Unnamed
PROOF
<1>1. ~Announced(c, 0)
  BY DEF Announced
<1> QED
  BY <1>1 DEF Ended, Told, Unnamed

LEMMA NamedMessage ==
  ASSUME TypeOK, PopupSide, NEW c \in Pays, tx[c] \in Live, NEW m, m = Head(inbox), inbox # <<>>, inbox' = Tail(inbox),
         Hears(c, m), m.call = c, m.type \in {"cancelled", "policy", "relay", "busy"}
  PROVE  Ended(c, m.type) # Unnamed
PROOF
<1>1. m = inbox[1] /\ 1 \in DOMAIN inbox
  BY HeadTail
<1>2. MessageOf(m, 0)
  <2>1. 1 - 1 = 0
    OBVIOUS
  <2> QED
    BY <1>1, <2>1 DEF PopupSide, MessageInv
<1>3. m.type = "relay" /\ Told(c, 0) /\ stage[c] = "open"
  BY <1>2 DEF MessageOf, Hears
<1> QED
  BY <1>3, EndsNamed

LEMMA NamedClosed ==
  ASSUME TypeOK, PopupSide, NEW c \in Pays, tx[c] \in Live, closedPoll(c)
  PROVE  named'[c] # Unnamed \/ c \in overtaken'
PROOF
<1> USE DEF PopupSide
<1> PICK k \in Nat : k = Len(inbox)
  BY PopupTypes, LenProperties
<1>1. c \in Calls /\ stage[c] = "open" /\ Told(c, k) /\ fail(c, IF req[c].ready THEN "closed" ELSE "unavailable")
  BY DEF closedPoll, SentInv, Live, Pays
<1>2. req[c].ready
  BY <1>1 DEF RequestInv, Untouched, NothingSent, Live
<1>3. fail(c, "closed")
  BY <1>1, <1>2
<1>4. CASE req[c].sending >= 0
  BY <1>1, <1>3, <1>4, EndsNamed, FailEffect DEF Told
<1>5. CASE Announced(c, k)
  <2>1. Unread(c)
    <3>1. DOMAIN inbox = 1 .. k
      BY PopupTypes, LenProperties
    <3> QED
      BY <1>5, <3>1 DEF Announced, Unread
  <2> QED
    BY <1>1, <2>1 DEF closedPoll
<1> QED
  BY <1>1, <1>4, <1>5 DEF Told

\* What the page keeps of a payment names it.
LEMMA NamesIt ==
  ASSUME TypeOK, PopupSide, NEW c \in Pays, named[c] # Unnamed
  PROVE  Names(c) \/ c \in moved
PROOF
<1>1. c \in Calls /\ named[c] \in Name
  BY CallTypes DEF Pays
<1>2. named[c].by \in {"hash", "nonce"}
  BY <1>1 DEF PopupSide, NamedInv, Name
<1> QED
  BY <1>1, <1>2 DEF Names, PopupSide, NonceInv

LEMMA SameNamed ==
  ASSUME TypeOK, PaymentNamed, NEW c \in Pays,
         stage'[c] = stage[c], outcome'[c] = outcome[c], named'[c] = named[c],
         stage[c] = "done" => signed'[c] = signed[c] /\ (tx'[c] \in Live => tx[c] \in Live),
         moved \subseteq moved', overtaken \subseteq overtaken',
         stage'[c] = "done", tx'[c] \in Live
  PROVE  outcome'[c] = "ok" \/ Names(c)' \/ c \in moved' \union overtaken'
PROOF
  BY DEF PaymentNamed, Names, Live

LEMMA NamedStep ==
  ASSUME TypeOK, PopupSide, PaymentNamed, [Next]_vars
  PROVE  PaymentNamed'
PROOF
<1> SUFFICES ASSUME NEW c \in Pays, stage'[c] = "done", tx'[c] \in Live
             PROVE  outcome'[c] = "ok" \/ Names(c)' \/ c \in moved' \union overtaken'
  BY DEF PaymentNamed, Live
<1> USE CallTypes, OutsideTypes
<1>1. c \in Calls /\ Kind[c] = "pay"
  BY DEF Pays
<1>2. CASE UNCHANGED vars
  BY <1>2, SameNamed DEF vars, callVars, chainVars, history
<1>3. CASE PopupStep
  <2>1. UNCHANGED <<stage, outcome, named, overtaken>>
    BY <1>3, PopupFrame DEF callVars
  <2>2. moved' = moved
    BY <1>3 DEF PopupStep, announce, cancel, prove_sign_in, read_nonce, authorize, submit, submitted, confirmed, not_confirmed,
                close_window, reload_window, receive_request, stop_before_sending, not_submitted, still
  <2>3. signed'[c] = signed[c] /\ tx'[c] = tx[c]
    <3>1. CASE authorize
      <4>1. popup.call # c
        BY <2>1, <3>1 DEF authorize, at, PopupSide, PopupInv
      <4> QED
        BY <1>1, <3>1, <4>1 DEF authorize
    <3>2. CASE submit
      <4>1. popup.call # c
        BY <2>1, <3>2 DEF submit, at, PopupSide, PopupInv
      <4> QED
        BY <1>1, <3>2, <4>1 DEF submit
    <3>3. CASE ~(authorize \/ submit)
      BY <1>3, <3>3 DEF PopupStep, announce, cancel, prove_sign_in, read_nonce, submitted, confirmed, not_confirmed,
                  close_window, reload_window, receive_request, stop_before_sending, not_submitted, still, chainVars
    <3> QED
      BY <3>1, <3>2, <3>3
  <2> QED
    BY <2>1, <2>2, <2>3, SameNamed
<1>4. CASE other_action \/ \E d \in Calls : ChainStep(d)
  <2>1. UNCHANGED <<stage, outcome, named, signed, overtaken>> /\ moved \subseteq moved'
    BY <1>4, ChainEffect DEF callVars
  <2>2. tx'[c] \in Live => tx[c] \in Live
    BY <1>1, <1>4, ChainEffect DEF Live
  <2> QED
    BY <2>1, <2>2, SameNamed
<1>5. ASSUME NEW d \in Calls, Plain(d)
      PROVE  outcome'[c] = "ok" \/ Names(c)' \/ c \in moved' \union overtaken'
  <2>1. UNCHANGED <<named, signed, tx, moved, overtaken>>
    BY <1>5, PlainEffect DEF PopupSide, chainVars
  <2>2. CASE d # c
    <3>1. stage'[c] = stage[c] /\ outcome'[c] = outcome[c]
      BY <1>1, <1>5, <2>2, PlainEffect DEF PopupSide
    <3> QED
      BY <2>1, <3>1, SameNamed
  <2>3. CASE d = c
    <3>1. stage[c] \in {"new", "asking", "answered"}
      BY <1>5, <2>3, PlainEffect DEF PopupSide
    <3>2. stage[c] # "new"
      BY <1>1, <2>1 DEF PopupSide, RequestInv, Untouched, NothingSent, Live
    <3>3. Names(c) \/ c \in moved
      BY <1>1, <3>1, <3>2, NamesIt DEF PopupSide, NamedInv
    <3> QED
      BY <2>1, <3>3 DEF Names
  <2> QED
    BY <2>2, <2>3
<1>6. ASSUME NEW d \in Calls, signIn(d) \/ pay(d) \/ values_arrive(d)
      PROVE  outcome'[c] = "ok" \/ Names(c)' \/ c \in moved' \union overtaken'
  <2>1. UNCHANGED <<outcome, named, signed, tx, moved, overtaken>>
    BY <1>6 DEF signIn, pay, values_arrive, open, chainVars, history
  <2>2. stage'[c] = stage[c]
    <3>1. CASE values_arrive(d)
      BY <3>1 DEF values_arrive
    <3>2. CASE open(d)
      <4>1. d # c
        BY <3>2, OpenEffect
      <4> QED
        BY <1>1, <3>2, <4>1, OpenEffect
    <3> QED
      BY <1>6, <3>1, <3>2 DEF signIn, pay
  <2> QED
    BY <2>1, <2>2, SameNamed
<1>7. ASSUME NEW d \in Calls, NEW code, fail(d, code), UNCHANGED <<signed, tx, moved>>, overtaken \subseteq overtaken',
             d = c /\ tx[c] \in Live => named'[c] # Unnamed \/ c \in overtaken'
      PROVE  outcome'[c] = "ok" \/ Names(c)' \/ c \in moved' \union overtaken'
  <2>1. CASE d # c
    <3>1. stage'[c] = stage[c] /\ outcome'[c] = outcome[c] /\ named'[c] = named[c]
      BY <1>1, <1>7, <2>1, FailEffect
    <3> QED
      BY <1>7, <3>1, SameNamed
  <2>2. CASE d = c
    BY <1>7, <2>2, FailEffect
  <2> QED
    BY <2>1, <2>2
<1>8. CASE onMessage
  <2> PICK m : m = Head(inbox)
    OBVIOUS
  <2>1. inbox # <<>> /\ inbox' = Tail(inbox) /\ (hear_ready(m) \/ hear_progress(m) \/ hear_end(m))
    BY <1>8 DEF onMessage
  <2>2. UNCHANGED <<signed, tx, moved, overtaken>>
    BY <1>8 DEF onMessage, chainVars, history
  <2>3. m = inbox[1] /\ 1 \in DOMAIN inbox
    BY <2>1, HeadTail
  <2>4. CASE UNCHANGED <<stage, outcome, named>>
    BY <2>2, <2>4, SameNamed
  <2>5. ASSUME hear_end(m), Hears(m.call, m)
        PROVE  outcome'[c] = "ok" \/ Names(c)' \/ c \in moved' \union overtaken'
    <3> PICK d \in Calls : d = m.call
      BY <2>3, <2>5 DEF hear_end, PopupSide, MessageInv, MessageOf
    <3>1. CASE fail(d, m.type) /\ m.type # "result"
      <4>1. d = c /\ tx[c] \in Live => Ended(c, m.type) # Unnamed
        BY <2>1, <2>5, <3>1, NamedMessage DEF hear_end
      <4>2. d = c /\ tx[c] \in Live => named'[c] # Unnamed
        BY <3>1, <4>1, FailEffect
      <4> QED
        BY <1>7, <2>2, <3>1, <4>2
    <3>2. CASE m.type = "result"
      <4>1. go(d, "asking") /\ outcome' = outcome
            /\ named' = IF Kind[d] = "pay" THEN [named EXCEPT ![d] = [by |-> "hash", nonce |-> -1]] ELSE named
        BY <2>5, <3>2 DEF hear_end
      <4>2. d # c /\ stage'[c] = stage[c] /\ named'[c] = named[c]
        BY <1>1, <4>1 DEF go
      <4> QED
        BY <2>2, <4>1, <4>2, SameNamed
    <3> QED
      BY <2>5, <3>1, <3>2 DEF hear_end
  <2> QED
    BY <2>1, <2>4, <2>5 DEF hear_ready, hear_progress, hear_end
<1>9. ASSUME NEW d \in Calls, EndStep(d)
      PROVE  outcome'[c] = "ok" \/ Names(c)' \/ c \in moved' \union overtaken'
  <2>1. UNCHANGED <<signed, tx, moved>> /\ overtaken \subseteq overtaken'
    BY <1>9 DEF EndStep, closedPoll, readyTimer, values_fail, chainVars, history
  <2>2. PICK code : fail(d, code)
    BY <1>9 DEF EndStep, closedPoll, readyTimer, values_fail
  <2>3. ASSUME d = c, tx[c] \in Live PROVE named'[c] # Unnamed \/ c \in overtaken'
    <3>1. CASE closedPoll(c)
      BY <2>3, <3>1, NamedClosed
    <3>2. CASE readyTimer(c) \/ values_fail(c)
      BY <1>1, <2>3, <3>2 DEF readyTimer, values_fail, PopupSide, RequestInv, Untouched, NothingSent, Live
    <3> QED
      BY <1>9, <2>3, <3>1, <3>2 DEF EndStep
  <2> QED
    BY <1>7, <2>1, <2>2, <2>3
<1> QED
  BY <1>2, <1>3, <1>4, <1>5, <1>6, <1>8, <1>9
     DEF Next, PageStep, OutsideStep, Plain, ChainStep, EndStep

-----------------------------------------------------------------------------
(***************************************************************************)
(* Requests one at a time, receipts, and what the page says of itself      *)
(***************************************************************************)
\* The page's own state is left alone.
Aside ==
  /\ UNCHANGED <<pageVars, stage, answer, outcome, named, receipt, serverVars, losses, overlapped>>
  /\ \A d \in Calls : req'[d].conn = req[d].conn

\* The request of call c ends: the site's server is asked, or the call is over.
Finish(c) ==
  /\ stage[c] = "open"
  /\ \A d \in Calls \ {c} :
       stage'[d] = stage[d] /\ named'[d] = named[d] /\ outcome'[d] = outcome[d] /\ req'[d].conn = req[d].conn
  /\ \/ stage'[c] = "asking" /\ outcome'[c] = outcome[c] /\ UNCHANGED <<status, paying>>
     \/ /\ stage'[c] = "done" /\ outcome'[c] \in {"null", "error"}
        /\ status' = IF Kind[c] = "signIn" THEN "signed-out" ELSE status
        /\ paying' = (Kind[c] # "pay" /\ paying)
  /\ UNCHANGED <<connect, answer, receipt, serverVars, chainVars, losses, overlapped>>

LEMMA FailFinish ==
  ASSUME TypeOK, NEW c \in Calls, NEW code, fail(c, code), stage[c] = "open",
         UNCHANGED <<answer, receipt, serverVars, chainVars, losses, overlapped>>
  PROVE  Finish(c)
PROOF
  BY FailEffect DEF Finish

LEMMA MessageKinds ==
  ASSUME TypeOK, PopupSide, onMessage
  PROVE  Aside \/ \E c \in Calls : Finish(c)
PROOF
<1> USE CallTypes
<1> PICK m : m = Head(inbox)
  OBVIOUS
<1>1. inbox # <<>> /\ inbox' = Tail(inbox) /\ (hear_ready(m) \/ hear_progress(m) \/ hear_end(m))
  BY DEF onMessage
<1>2. m = inbox[1] /\ 1 \in DOMAIN inbox
  BY <1>1, HeadTail
<1>3. UNCHANGED <<answer, receipt, serverVars, chainVars, losses, overlapped>>
  BY DEF onMessage, boundVars, history
<1>4. CASE hear_ready(m)
  <2> DEFINE first == {c \in Calls : Hears(c, m) /\ ~req[c].ready}
  <2>1. req' = [c \in Calls |-> IF c \in first THEN [req[c] EXCEPT !.ready = TRUE] ELSE req[c]]
    BY <1>4 DEF hear_ready
  <2> HIDE DEF first
  <2>2. ASSUME NEW d \in Calls PROVE req'[d].conn = req[d].conn
    <3>1. req'[d] = [req[d] EXCEPT !.ready = TRUE] \/ req'[d] = req[d]
      BY <2>1
    <3>2. req[d] \in Request
      OBVIOUS
    <3> QED
      BY <3>1, <3>2 DEF Request
  <2>3. UNCHANGED <<pageVars, stage, outcome, named>>
    BY <1>4 DEF hear_ready
  <2> QED
    BY <1>3, <2>2, <2>3 DEF Aside
<1>5. CASE hear_progress(m)
  <2> PICK c \in Calls : c = m.call
    BY <1>2, <1>5 DEF hear_progress, PopupSide, MessageInv, MessageOf
  <2>1. \/ req' = req
        \/ req' = [req EXCEPT ![c] = [req[c] EXCEPT !.sending = m.nonce]]
        \/ req' = [req EXCEPT ![c] = [req[c] EXCEPT !.sent = TRUE]]
    BY <1>5 DEF hear_progress
  <2>2. req[c] \in Request
    OBVIOUS
  <2>3. \A d \in Calls \ {c} : req'[d] = req[d]
    BY <2>1
  <2>4. req'[c] = req[c] \/ req'[c] = [req[c] EXCEPT !.sending = m.nonce] \/ req'[c] = [req[c] EXCEPT !.sent = TRUE]
    BY <2>1
  <2>5. req'[c].conn = req[c].conn
    BY <2>2, <2>4 DEF Request
  <2>6. UNCHANGED <<pageVars, stage, outcome, named>>
    BY <1>5 DEF hear_progress
  <2>7. \A d \in Calls : req'[d].conn = req[d].conn
    BY <2>3, <2>5, Zenon
  <2> QED
    BY <1>3, <2>6, <2>7 DEF Aside
<1>6. CASE hear_end(m)
  <2> PICK c \in Calls : c = m.call
    BY <1>2, <1>6 DEF hear_end, PopupSide, MessageInv, MessageOf
  <2>1. CASE ~Hears(c, m) /\ UNCHANGED <<pageVars, stage, outcome, named, req>>
    BY <1>3, <2>1 DEF Aside
  <2>2. CASE Hears(c, m) /\ m.type # "result" /\ fail(c, m.type)
    BY <1>3, <2>2, FailFinish DEF Hears
  <2>3. CASE Hears(c, m) /\ m.type = "result"
    <3>1. go(c, "asking") /\ forget(c) /\ UNCHANGED <<pageVars, outcome>> /\ \A d \in Calls \ {c} : named'[d] = named[d]
      BY <1>6, <2>3 DEF hear_end
    <3> QED
      BY <1>3, <2>3, <3>1, ForgetEffect DEF Finish, Hears, go, pageVars
  <2> QED
    BY <1>6, <2>1, <2>2, <2>3 DEF hear_end
<1> QED
  BY <1>1, <1>4, <1>5, <1>6

\* What a step can do to the page: nothing, end a request, open one, or move a call that has none.
LEMMA StepKinds ==
  ASSUME TypeOK, PopupSide, [Next]_vars
  PROVE  \/ Aside
         \/ \E c \in Calls : Finish(c)
         \/ \E c \in Calls : signIn(c) \/ pay(c)
         \/ \E c \in Calls : Plain(c)
PROOF
<1>1. ASSUME UNCHANGED <<pageVars, callVars, serverVars, losses, overlapped>>
      PROVE  Aside
  BY <1>1 DEF Aside, callVars
<1>2. CASE UNCHANGED vars
  BY <1>1, <1>2 DEF vars, boundVars, history
<1>3. CASE PopupStep
  <2>1. losses' = losses
    BY <1>3 DEF PopupStep, announce, cancel, prove_sign_in, read_nonce, authorize, submit, submitted, confirmed, not_confirmed,
                close_window, reload_window, receive_request, stop_before_sending, not_submitted, still, boundVars
  <2> QED
    BY <1>1, <1>3, <2>1, PopupFrame
<1>4. CASE other_action \/ \E c \in Calls : ChainStep(c)
  BY <1>1, <1>4 DEF ChainStep, relayer_sends, relayer_refuses, mine, revert_or_drop, other_action, chainFrame
<1>5. ASSUME NEW c \in Calls, EndStep(c)
      PROVE  Finish(c)
  <2>1. stage[c] = "open" /\ UNCHANGED <<answer, receipt, serverVars, chainVars, losses, overlapped>>
    BY <1>5 DEF EndStep, closedPoll, readyTimer, values_fail, boundVars, history
  <2>2. PICK code : fail(c, code)
    BY <1>5 DEF EndStep, closedPoll, readyTimer, values_fail
  <2> QED
    BY <2>1, <2>2, FailFinish
<1>6. ASSUME NEW c \in Calls, values_arrive(c)
      PROVE  Aside
  <2>1. UNCHANGED <<pageVars, stage, answer, outcome, named, receipt, serverVars, losses, overlapped>>
    BY <1>6 DEF values_arrive, boundVars, history
  <2>2. req[c] \in Request /\ req' = [req EXCEPT ![c] = [req[c] EXCEPT !.values = TRUE]]
    BY <1>6, CallTypes DEF values_arrive
  <2>3. req'[c] = [req[c] EXCEPT !.values = TRUE] /\ \A d \in Calls \ {c} : req'[d] = req[d]
    BY <2>2, CallTypes
  <2>4. req'[c].conn = req[c].conn
    BY <2>2, <2>3 DEF Request
  <2>5. \A d \in Calls : req'[d].conn = req[d].conn
    BY <2>3, <2>4, Zenon
  <2> QED
    BY <2>1, <2>5 DEF Aside
<1> QED
  BY <1>2, <1>3, <1>4, <1>5, <1>6, MessageKinds DEF Next, PageStep, OutsideStep, Plain, ChainStep, EndStep

LEMMA SingleStep ==
  ASSUME TypeOK, PopupSide, SingleRequest, [Next]_vars
  PROVE  SingleRequest'
PROOF
<1> USE CallTypes
<1>1. ASSUME NEW c \in Calls, open(c)
      PROVE  SingleRequest'
  BY <1>1, OpenEffect DEF SingleRequest
<1>2. ASSUME NEW c \in Calls, Plain(c)
      PROVE  SingleRequest'
  BY <1>2, PlainEffect DEF PopupSide, SingleRequest
<1>3. ASSUME NEW c \in Calls, Finish(c)
      PROVE  SingleRequest'
  BY <1>3 DEF Finish, SingleRequest
<1>4. CASE Aside
  BY <1>4 DEF Aside, SingleRequest
<1> QED
  BY <1>1, <1>2, <1>3, <1>4, StepKinds DEF signIn, pay

\* A step that keeps each receipt, and what names its payment.
LEMMA StillReceipts ==
  ASSUME TypeOK, ReceiptInv, receipt' = receipt, accepted \subseteq accepted',
         \A c \in Pays : answer'[c] = "yes" \/ outcome'[c] = "ok" => answer[c] = "yes" \/ outcome[c] = "ok",
         \A p \in Pays : tx[p] = "mined" => tx'[p] = "mined" /\ signed'[p] = signed[p],
         \A c \in Pays : receipt[c] # NoCall => named'[c] = named[c]
  PROVE  ReceiptInv'
PROOF
<1>1. accepted \subseteq Pays
  BY OutsideTypes
<1> SUFFICES ASSUME NEW c \in Pays
             PROVE  /\ answer'[c] = "yes" \/ outcome'[c] = "ok" => receipt'[c] # NoCall
                    /\ receipt'[c] # NoCall =>
                         /\ receipt'[c] \in accepted' /\ tx'[receipt'[c]] = "mined"
                         /\ receipt'[c] = c \/ named'[c] = [by |-> "nonce", nonce |-> signed'[receipt'[c]]]
                         /\ \A d \in Pays \ {c} : receipt'[d] # receipt'[c]
  BY DEF ReceiptInv
<1>2. answer'[c] = "yes" \/ outcome'[c] = "ok" => receipt'[c] # NoCall
  BY DEF ReceiptInv
<1>3. CASE receipt[c] # NoCall
  <2>1. /\ receipt[c] \in accepted /\ tx[receipt[c]] = "mined"
        /\ receipt[c] = c \/ named[c] = [by |-> "nonce", nonce |-> signed[receipt[c]]]
        /\ \A d \in Pays \ {c} : receipt[d] # receipt[c]
    BY <1>3 DEF ReceiptInv
  <2>2. tx'[receipt[c]] = "mined" /\ signed'[receipt[c]] = signed[receipt[c]] /\ named'[c] = named[c]
    BY <1>1, <1>3, <2>1
  <2> QED
    BY <1>2, <2>1, <2>2
<1> QED
  BY <1>2, <1>3

LEMMA ServedReceipt ==
  ASSUME TypeOK, PopupSide, ReceiptInv, NEW c \in Calls, serve_payment(c)
  PROVE  ReceiptInv'
PROOF
<1> USE OutsideTypes
<1>1. c \in Pays /\ stage[c] = "asking" /\ UNCHANGED <<outcome, named, tx, signed>>
  BY DEF serve_payment, Pays, chainVars
<1>2. CASE UNCHANGED <<accepted, receipt>> /\ answer'[c] # "yes"
  <2>1. \A d \in Pays \ {c} : answer'[d] = answer[d]
    BY DEF serve_payment, says, Pays
  <2> QED
    BY <1>1, <1>2, <2>1, StillReceipts
<1>3. CASE \E p \in Found(c) \ accepted : accepted' = accepted \union {p} /\ receipt' = [receipt EXCEPT ![c] = p]
  <2>1. PICK p \in Found(c) \ accepted : accepted' = accepted \union {p} /\ receipt' = [receipt EXCEPT ![c] = p]
    BY <1>3
  <2>2. p \in Pays /\ tx[p] = "mined" /\ p # NoCall
    BY <2>1, KindAssumption DEF Found, Pays
  <2>3. p = c \/ named[c] = [by |-> "nonce", nonce |-> signed[p]]
    <3>1. named[c] \in Name /\ named[c].by # "nothing"
      BY <1>1, CallTypes DEF PopupSide, NamedInv, Pays
    <3>2. CASE named[c].by = "hash"
      BY <2>1, <3>2 DEF Found
    <3>3. CASE named[c].by = "nonce"
      <4>1. signed[p] = named[c].nonce
        BY <2>1, <3>3 DEF Found
      <4> QED
        BY <3>1, <3>3, <4>1 DEF Name
    <3> QED
      BY <3>1, <3>2, <3>3 DEF Name
  <2>4. receipt'[c] = p /\ \A d \in Pays \ {c} : receipt'[d] = receipt[d] /\ answer'[d] = answer[d]
    BY <1>1, <2>1 DEF serve_payment, says, Pays
  <2>5. \A d \in Pays \ {c} : receipt[d] # p
    BY <2>1, <2>2 DEF ReceiptInv
  <2>6. ASSUME NEW d \in Pays
        PROVE  /\ answer'[d] = "yes" \/ outcome'[d] = "ok" => receipt'[d] # NoCall
               /\ receipt'[d] # NoCall =>
                    /\ receipt'[d] \in accepted' /\ tx'[receipt'[d]] = "mined"
                    /\ receipt'[d] = d \/ named'[d] = [by |-> "nonce", nonce |-> signed'[receipt'[d]]]
                    /\ \A e \in Pays \ {d} : receipt'[e] # receipt'[d]
    <3>1. CASE d = c
      BY <1>1, <2>1, <2>2, <2>3, <2>4, <2>5, <3>1
    <3>2. CASE d # c
      BY <1>1, <2>1, <2>4, <2>5, <3>2 DEF ReceiptInv
    <3> QED
      BY <3>1, <3>2
  <2> QED
    BY <2>6 DEF ReceiptInv
<1> QED
  BY <1>2, <1>3 DEF serve_payment, says

LEMMA ReceiptStep ==
  ASSUME TypeOK, PopupSide, ReceiptInv, [Next]_vars
  PROVE  ReceiptInv'
PROOF
<1> USE CallTypes, OutsideTypes
<1>1. \A c \in Pays : stage[c] \in {"never", "new", "open"} => receipt[c] = NoCall
  BY DEF PopupSide, NamedInv, Pays
\* A mined payment stays mined, for the nonce it was signed for.
<1>2. \A p \in Pays : tx[p] = "mined" => tx'[p] = "mined" /\ signed'[p] = signed[p]
  <2> SUFFICES ASSUME NEW p \in Pays, tx[p] = "mined"
               PROVE  tx'[p] = "mined" /\ signed'[p] = signed[p]
    OBVIOUS
  <2>1. CASE authorize
    <3>1. popup.call # p
      BY <2>1 DEF authorize, at, PopupSide, PopupInv, NothingSent
    <3> QED
      BY <2>1, <3>1 DEF authorize, Pays
  <2>2. CASE submit
    <3>1. popup.call # p
      BY <2>2 DEF submit, at, PopupSide, PopupInv, NothingSent
    <3> QED
      BY <2>2, <3>1 DEF submit, Pays
  <2>3. CASE PopupStep /\ ~(authorize \/ submit)
    BY <2>3 DEF PopupStep, announce, cancel, prove_sign_in, read_nonce, submitted, confirmed, not_confirmed,
                close_window, reload_window, receive_request, stop_before_sending, not_submitted, still, chainVars
  <2>4. CASE other_action \/ \E d \in Calls : ChainStep(d)
    BY <2>4, ChainEffect DEF Pays
  <2>5. CASE UNCHANGED chainVars
    BY <2>5 DEF chainVars
  <2>6. UNCHANGED vars => UNCHANGED chainVars
    BY DEF vars
  <2>7. ASSUME NEW d \in Calls, Plain(d) \/ signIn(d) \/ pay(d) \/ values_arrive(d) \/ EndStep(d)
        PROVE  UNCHANGED chainVars
    <3>1. CASE Plain(d)
      BY <3>1, PlainEffect DEF PopupSide
    <3> QED
      BY <2>7, <3>1 DEF signIn, pay, open, values_arrive, EndStep, closedPoll, readyTimer, values_fail
  <2>8. onMessage => UNCHANGED chainVars
    BY DEF onMessage
  <2> QED
    BY <2>1, <2>2, <2>3, <2>4, <2>5, <2>6, <2>7, <2>8 DEF Next, PageStep, OutsideStep, Plain, ChainStep, EndStep
<1>3. CASE Aside
  BY <1>2, <1>3, StillReceipts DEF Aside, serverVars
<1>4. ASSUME NEW c \in Calls, Finish(c)
      PROVE  ReceiptInv'
  <2>1. \A d \in Pays : receipt[d] # NoCall => named'[d] = named[d]
    BY <1>1, <1>4 DEF Finish, Pays
  <2>2. \A d \in Pays : outcome'[d] = "ok" => outcome[d] = "ok"
    BY <1>4 DEF Finish, Pays
  <2> QED
    BY <1>2, <1>4, <2>1, <2>2, StillReceipts DEF Finish, serverVars
<1>5. ASSUME NEW c \in Calls, signIn(c) \/ pay(c)
      PROVE  ReceiptInv'
  <2>1. UNCHANGED <<answer, outcome, named, receipt, accepted>>
    BY <1>5 DEF signIn, pay, open, serverVars
  <2> QED
    BY <1>2, <2>1, StillReceipts
<1>6. ASSUME NEW c \in Calls, Plain(c)
      PROVE  ReceiptInv'
  <2>1. named' = named
    BY <1>6, PlainEffect DEF PopupSide
  <2>2. CASE serve_payment(c)
    BY <2>2, ServedReceipt
  <2>3. CASE load(c) \/ signOut(c) \/ confirmPayment(c)
    <3>1. UNCHANGED <<answer, outcome, receipt, accepted>>
      BY <2>3 DEF load, signOut, confirmPayment, serverVars
    <3> QED
      BY <1>2, <2>1, <3>1, StillReceipts
  <2>4. CASE unopened(c) \/ \E l \in Calls : signIn_reloading(c, l)
    <3>1. UNCHANGED <<answer, receipt, accepted>> /\ outcome' = [outcome EXCEPT ![c] = "error"]
      BY <2>4 DEF unopened, signIn_reloading, serverVars
    <3>2. \A d \in Pays : outcome'[d] = "ok" => outcome[d] = "ok"
      BY <3>1 DEF Pays
    <3> QED
      BY <1>2, <2>1, <3>1, <3>2, StillReceipts
  <2>5. CASE lose(c) \/ serve_session(c)
    <3>1. UNCHANGED <<outcome, receipt, accepted>> /\ \A d \in Calls \ {c} : answer'[d] = answer[d]
      BY <2>5 DEF lose, serve_session, says, serverVars
    <3>2. c \in Pays => answer'[c] = "lost"
      BY <2>5 DEF lose, serve_session, says, Pays
    <3> QED
      BY <1>2, <2>1, <3>1, <3>2, StillReceipts DEF Pays
  <2>6. CASE receive(c)
    <3>1. UNCHANGED <<receipt, accepted>> /\ answer' = [answer EXCEPT ![c] = "none"]
      BY <2>6 DEF receive, serverVars
    <3>2. /\ \A d \in Calls \ {c} : outcome'[d] = outcome[d]
          /\ c \in Pays /\ outcome'[c] = "ok" => answer[c] = "yes"
      BY <2>6 DEF receive, loaded, signedIn, signedOut, paid, ends, Pays
    <3>3. \A d \in Pays : answer'[d] = "yes" \/ outcome'[d] = "ok" => answer[d] = "yes" \/ outcome[d] = "ok"
      BY <3>1, <3>2 DEF Pays
    <3> QED
      BY <1>2, <2>1, <3>1, <3>3, StillReceipts
  <2> QED
    BY <1>6, <2>2, <2>3, <2>4, <2>5, <2>6 DEF Plain
<1> QED
  BY <1>3, <1>4, <1>5, <1>6, StepKinds

\* Call c is the payment the page says it is making.
Paying(c) == UnderWay(c) /\ outcome[c] = "none"

\* A step in which at most one payment starts or ends being made.
LEMMA PayingOne ==
  ASSUME PayingHonest, paying' \in BOOLEAN, NEW c \in Calls, \A d \in Calls \ {c} : Paying(d)' <=> Paying(d),
         \/ paying' = paying /\ (c \in Pays => (Paying(c)' <=> Paying(c)))
         \/ c \in Pays /\ ~paying /\ paying' /\ Paying(c)'
         \/ c \in Pays /\ Paying(c) /\ ~paying' /\ ~Paying(c)'
  PROVE  PayingHonest'
PROOF
<1>1. /\ paying <=> \E d \in Pays : Paying(d)
      /\ \A d, e \in Pays : Paying(d) /\ Paying(e) => d = e
  BY DEF PayingHonest, Paying
<1>2. Pays \subseteq Calls
  BY DEF Pays
<1>3. /\ paying' <=> \E d \in Pays : Paying(d)'
      /\ \A d, e \in Pays : Paying(d)' /\ Paying(e)' => d = e
  BY <1>1, <1>2
<1> QED
  BY <1>3 DEF PayingHonest, Paying

LEMMA PayingStep ==
  ASSUME TypeOK, TypeOK', PopupSide, PayingHonest, [Next]_vars
  PROVE  PayingHonest'
PROOF
<1> USE CallTypes
<1>1. paying' \in BOOLEAN
  BY DEF TypeOK, PageType
<1>2. CASE Aside
  BY <1>2 DEF Aside, PayingHonest, UnderWay, pageVars
<1>3. ASSUME NEW c \in Calls, Finish(c)
      PROVE  PayingHonest'
  <2>1. Paying(c) /\ \A d \in Calls \ {c} : Paying(d)' <=> Paying(d)
    BY <1>3 DEF Finish, Paying, UnderWay, PopupSide, NamedInv
  <2>2. CASE stage'[c] = "asking" /\ outcome'[c] = outcome[c] /\ UNCHANGED <<status, paying>>
    <3>1. Paying(c)'
      BY <2>1, <2>2 DEF Paying, UnderWay
    <3> QED
      BY <1>1, <2>1, <2>2, <3>1, PayingOne
  <2>3. CASE stage'[c] = "done" /\ paying' = (Kind[c] # "pay" /\ paying)
    <3>1. ~Paying(c)'
      BY <2>3 DEF Paying, UnderWay
    <3>2. c \in Pays => ~paying'
      BY <2>3 DEF Pays
    <3>3. c \notin Pays => paying' = paying
      BY <2>3 DEF Pays
    <3> QED
      BY <1>1, <2>1, <3>1, <3>2, <3>3, PayingOne
  <2> QED
    BY <1>3, <2>2, <2>3 DEF Finish
<1>4. ASSUME NEW c \in Calls, signIn(c) \/ pay(c)
      PROVE  PayingHonest'
  <2>1. open(c) /\ outcome' = outcome /\ stage[c] = "new"
    BY <1>4 DEF signIn, pay, open
  <2>2. stage'[c] = "open" /\ outcome[c] = "none" /\ \A d \in Calls \ {c} : stage'[d] = stage[d]
    BY <2>1, OpenEffect DEF PopupSide, NamedInv
  <2>3. Paying(c)' /\ \A d \in Calls \ {c} : Paying(d)' <=> Paying(d)
    BY <2>1, <2>2 DEF Paying, UnderWay
  <2>4. CASE signIn(c)
    <3>1. paying' = paying /\ c \notin Pays
      BY <2>4 DEF signIn, Pays
    <3> QED
      BY <1>1, <2>3, <3>1, PayingOne
  <2>5. CASE pay(c)
    <3>1. c \in Pays /\ ~paying /\ paying'
      BY <2>5 DEF pay, Pays
    <3> QED
      BY <1>1, <2>3, <3>1, PayingOne
  <2> QED
    BY <1>4, <2>4, <2>5
<1>5. ASSUME NEW c \in Calls, Plain(c)
      PROVE  PayingHonest'
  <2>1. CASE \E l \in Calls : signIn_reloading(c, l)
    <3>1. PICK l \in Calls : signIn_reloading(c, l)
      BY <2>1
    <3>2. \A d \in Pays : stage'[d] = stage[d] /\ outcome'[d] = outcome[d]
      BY <3>1 DEF signIn_reloading, Pays
    <3>3. paying' = paying
      BY <3>1 DEF signIn_reloading, pageVars
    <3> QED
      BY <3>2, <3>3 DEF PayingHonest, UnderWay
  <2>2. CASE load(c) \/ signOut(c) \/ unopened(c) \/ confirmPayment(c)
    <3>1. paying' = paying /\ \A d \in Calls \ {c} : stage'[d] = stage[d] /\ outcome'[d] = outcome[d]
      BY <2>2 DEF load, signOut, unopened, confirmPayment, go, pageVars
    <3>2. c \in Pays => ~Paying(c) /\ ~Paying(c)'
      BY <2>2 DEF load, signOut, unopened, confirmPayment, go, Paying, UnderWay, Pays
    <3>3. \A d \in Calls \ {c} : Paying(d)' <=> Paying(d)
      BY <3>1 DEF Paying, UnderWay
    <3> QED
      BY <1>1, <3>1, <3>2, <3>3, PayingOne
  <2>3. CASE serve_session(c) \/ serve_payment(c) \/ lose(c)
    <3>1. paying' = paying /\ outcome' = outcome /\ go(c, "answered") /\ stage[c] \in {"asking", "answered"}
      BY <2>3 DEF serve_session, serve_payment, lose, says, pageVars
    <3>2. \A d \in Calls : UnderWay(d)' <=> UnderWay(d)
      BY <3>1 DEF go, UnderWay
    <3> QED
      BY <3>1, <3>2 DEF PayingHonest, Pays
  <2>4. CASE receive(c)
    <3>1. stage[c] = "answered" /\ go(c, "done") /\ \A d \in Calls \ {c} : outcome'[d] = outcome[d]
      BY <2>4 DEF receive, loaded, signedIn, signedOut, paid, ends
    <3>2. ~Paying(c)' /\ UnderWay(c) /\ \A d \in Calls \ {c} : Paying(d)' <=> Paying(d)
      BY <3>1 DEF Paying, UnderWay, go
    <3>3. CASE c \notin Pays
      <4>1. paying' = paying
        BY <2>4, <3>3 DEF receive, loaded, signedIn, signedOut, paid, Pays
      <4> QED
        BY <1>1, <3>2, <3>3, <4>1, PayingOne
    <3>4. CASE c \in Pays
      <4>1. paying' = (paying /\ outcome[c] # "none")
        BY <2>4, <3>4 DEF receive, loaded, signedIn, signedOut, paid, Pays
      <4>2. CASE outcome[c] = "none"
        BY <1>1, <3>2, <3>4, <4>1, <4>2, PayingOne DEF Paying
      <4>3. CASE outcome[c] # "none"
        BY <1>1, <3>2, <3>4, <4>1, <4>3, PayingOne DEF Paying
      <4> QED
        BY <4>2, <4>3
    <3> QED
      BY <3>3, <3>4
  <2> QED
    BY <1>5, <2>1, <2>2, <2>3, <2>4 DEF Plain
<1> QED
  BY <1>2, <1>3, <1>4, <1>5, StepKinds

\* A step of call c, while no other is under way or with calls that overlap.
LEMMA StatusOne ==
  ASSUME NEW c \in Calls, \A d \in Calls : answer'[d] = "lost" => losses' > 0,
         ~overlapped' => \A d \in Calls \ {c} : ~UnderWay(d)',
         ~overlapped' /\ losses' = 0 =>
           IF UnderWay(c)' THEN Agrees(c)' ELSE status' # "loading" => status' = Shown'
  PROVE  StatusInv'
PROOF
  BY DEF StatusInv

\* A step that leaves the calls under way as they are.
LEMMA StatusSame ==
  ASSUME StatusInv, UNCHANGED <<status, answer, cookie, losses, overlapped>>,
         \A d \in Calls : UnderWay(d) \/ UnderWay(d)' => stage'[d] = stage[d]
  PROVE  StatusInv'
PROOF
<1>1. \A d \in Calls : UnderWay(d)' <=> UnderWay(d)
  BY DEF UnderWay
<1>2. \A d \in Calls : UnderWay(d) /\ Agrees(d) => Agrees(d)'
  BY DEF Agrees, Shown
<1>3. Shown' = Shown
  BY DEF Shown
<1> QED
  BY <1>1, <1>2, <1>3 DEF StatusInv

\* What a call that begins finds.
LEMMA Begun ==
  ASSUME TypeOK, StatusInv, NEW c \in Calls, ~UnderWay(c), begin(c), losses' = losses, answer' = answer,
         \A d \in Calls \ {c} : UnderWay(d)' => UnderWay(d)
  PROVE  /\ \A d \in Calls : answer'[d] = "lost" => losses' > 0
         /\ ~overlapped' => \A d \in Calls \ {c} : ~UnderWay(d)'
         /\ ~overlapped' /\ losses' = 0 /\ status # "loading" => status = Shown
PROOF
  BY DEF StatusInv, begin

\* What the step of a call under way finds.
LEMMA Stepped ==
  ASSUME TypeOK, StatusInv, NEW c \in Calls, UnderWay(c), overlapped' = overlapped, losses' = losses,
         \A d \in Calls : answer'[d] = "lost" => answer[d] = "lost",
         \A d \in Calls \ {c} : UnderWay(d)' => UnderWay(d)
  PROVE  /\ \A d \in Calls : answer'[d] = "lost" => losses' > 0
         /\ ~overlapped' => \A d \in Calls \ {c} : ~UnderWay(d)'
         /\ ~overlapped' /\ losses' = 0 => Agrees(c) /\ answer[c] # "lost"
PROOF
<1>1. losses \in Nat
  BY OutsideTypes
<1> QED
  BY <1>1 DEF StatusInv

LEMMA StatusStep ==
  ASSUME TypeOK, PopupSide, StatusInv, [Next]_vars
  PROVE  StatusInv'
PROOF
<1> USE CallTypes, OutsideTypes
<1>1. CASE Aside
  BY <1>1, StatusSame DEF Aside, pageVars, serverVars
<1>2. ASSUME NEW c \in Calls, Finish(c)
      PROVE  StatusInv'
  <2>1. UnderWay(c) /\ stage[c] = "open" /\ Kind[c] \in {"signIn", "pay"} /\ UNCHANGED <<overlapped, losses, answer, cookie>>
    BY <1>2 DEF Finish, UnderWay, PopupSide, NamedInv, Opens, serverVars
  <2>2. \A d \in Calls \ {c} : UnderWay(d)' => UnderWay(d)
    BY <1>2 DEF Finish, UnderWay
  <2>3. ASSUME ~overlapped', losses' = 0, Agrees(c)
        PROVE  IF UnderWay(c)' THEN Agrees(c)' ELSE status' # "loading" => status' = Shown'
    BY <1>2, <2>1, <2>3 DEF Agrees, Finish, UnderWay, Shown
  <2> QED
    BY <2>1, <2>2, <2>3, Stepped, StatusOne
<1>3. ASSUME NEW c \in Calls, signIn(c) \/ pay(c)
      PROVE  StatusInv'
  <2>1. open(c) /\ stage[c] = "new"
    BY <1>3 DEF signIn, pay
  <2>2. begin(c) /\ UNCHANGED <<answer, losses, cookie>> /\ ~UnderWay(c)
    BY <2>1 DEF open, boundVars, serverVars, UnderWay
  <2>3. stage'[c] = "open" /\ \A d \in Calls \ {c} : UnderWay(d)' => UnderWay(d)
    BY <2>1, OpenEffect DEF UnderWay
  <2>4. ASSUME status # "loading" => status = Shown
        PROVE  Agrees(c)'
    BY <1>3, <2>2, <2>3, <2>4 DEF signIn, pay, Agrees, Shown
  <2> QED
    BY <2>2, <2>3, <2>4, Begun, StatusOne DEF UnderWay
<1>4. ASSUME NEW c \in Calls, Plain(c)
      PROVE  StatusInv'
  <2>1. CASE \E l \in Calls : signIn_reloading(c, l)
    <3>1. PICK l \in Calls : signIn_reloading(c, l)
      BY <2>1
    <3>2. /\ begin(l) /\ UNCHANGED <<answer, losses>> /\ stage[l] = "new" /\ Kind[l] = "load"
          /\ stage' = [stage EXCEPT ![c] = "done", ![l] = "asking"]
      BY <3>1 DEF signIn_reloading, boundVars
    <3>3. ~UnderWay(l) /\ stage'[l] = "asking" /\ \A d \in Calls \ {l} : UnderWay(d)' => UnderWay(d)
      BY <3>2 DEF UnderWay
    <3>4. Agrees(l)'
      BY <3>2, <3>3 DEF Agrees
    <3> QED
      BY <3>2, <3>3, <3>4, Begun, StatusOne DEF UnderWay
  <2>2. CASE load(c) \/ signOut(c) \/ confirmPayment(c)
    <3>1. begin(c) /\ UNCHANGED <<status, cookie, answer, losses>> /\ stage[c] \in {"new", "done"} /\ go(c, "asking")
      BY <2>2 DEF load, signOut, confirmPayment, boundVars, pageVars, serverVars
    <3>2. ~UnderWay(c) /\ stage'[c] = "asking" /\ \A d \in Calls \ {c} : UnderWay(d)' => UnderWay(d)
      BY <3>1 DEF UnderWay, go
    <3>3. ASSUME status # "loading" => status = Shown
          PROVE  Agrees(c)'
      BY <2>2, <3>1, <3>2, <3>3 DEF load, signOut, confirmPayment, Agrees, Shown
    <3> QED
      BY <3>1, <3>2, <3>3, Begun, StatusOne DEF UnderWay
  <2>3. CASE unopened(c)
    <3>1. UNCHANGED <<status, answer, cookie, losses, overlapped>> /\ stage[c] = "new" /\ go(c, "done")
      BY <2>3 DEF unopened, pageVars, serverVars, boundVars, history
    <3>2. \A d \in Calls : UnderWay(d) \/ UnderWay(d)' => stage'[d] = stage[d]
      BY <3>1 DEF UnderWay, go
    <3> QED
      BY <3>1, <3>2, StatusSame
  <2>4. CASE serve_session(c) \/ serve_payment(c)
    <3>1. UNCHANGED <<status, losses, overlapped>> /\ stage[c] = "asking" /\ go(c, "answered")
      BY <2>4 DEF serve_session, serve_payment, says, pageVars, boundVars, history
    <3>2. UnderWay(c) /\ stage'[c] = "answered" /\ \A d \in Calls \ {c} : UnderWay(d)' => UnderWay(d)
      BY <3>1 DEF UnderWay, go
    <3>3. answer'[c] # "lost" /\ \A d \in Calls \ {c} : answer'[d] = answer[d]
      BY <2>4 DEF serve_session, serve_payment, says
    <3>4. ASSUME Agrees(c)
          PROVE  Agrees(c)'
      <4>1. CASE serve_session(c)
        BY <3>1, <3>2, <3>4, <4>1 DEF serve_session, says, Agrees
      <4>2. CASE serve_payment(c)
        <5>1. Kind[c] = "pay" /\ cookie' = cookie /\ (answer'[c] = "401" <=> ~cookie)
          BY <4>2 DEF serve_payment, says
        <5> QED
          BY <3>1, <3>2, <3>4, <5>1 DEF Agrees, Shown
      <4> QED
        BY <2>4, <4>1, <4>2
    <3> QED
      BY <3>1, <3>2, <3>3, <3>4, Stepped, StatusOne DEF UnderWay
  <2>5. CASE lose(c)
    <3>1. /\ losses' = losses + 1 /\ overlapped' = overlapped
          /\ stage[c] \in {"asking", "answered"} /\ go(c, "answered")
      BY <2>5 DEF lose, says, history
    <3>2. losses' > 0
      BY <3>1
    <3>3. UnderWay(c) /\ \A d \in Calls \ {c} : UnderWay(d)' => UnderWay(d)
      BY <3>1 DEF UnderWay, go
    <3>4. ~overlapped' => \A d \in Calls \ {c} : ~UnderWay(d)'
      BY <3>1, <3>3 DEF StatusInv
    <3> QED
      BY <3>2, <3>4, StatusOne
  <2>6. CASE receive(c)
    <3>1. UNCHANGED <<cookie, losses, overlapped>> /\ stage[c] = "answered" /\ go(c, "done")
      BY <2>6 DEF receive, loaded, signedIn, signedOut, paid, ends, serverVars, boundVars, history
    <3>2. UnderWay(c) /\ ~UnderWay(c)' /\ \A d \in Calls \ {c} : UnderWay(d)' => UnderWay(d)
      BY <3>1 DEF UnderWay, go
    <3>3. \A d \in Calls : answer'[d] = "lost" => answer[d] = "lost"
      BY <2>6 DEF receive
    <3>4. ASSUME Agrees(c), answer[c] # "lost"
          PROVE  status' # "loading" => status' = Shown'
      BY <2>6, <3>1, <3>4 DEF receive, loaded, signedIn, signedOut, paid, Agrees, Shown
    <3> QED
      BY <3>1, <3>2, <3>3, <3>4, Stepped, StatusOne
  <2> QED
    BY <1>4, <2>1, <2>2, <2>3, <2>4, <2>5, <2>6 DEF Plain
<1> QED
  BY <1>1, <1>2, <1>3, <1>4, StepKinds

-----------------------------------------------------------------------------
(***************************************************************************)
(* What holds of every behaviour                                           *)
(***************************************************************************)
LEMMA InitInv == Init => IInv
PROOF
<1> SUFFICES ASSUME Init PROVE IInv
  OBVIOUS
<1> USE DEF Init
<1> USE KindAssumption, BoundsAssumption
<1>1. \A c \in Calls : stage[c] \in {"new", "never"}
  OBVIOUS
<1>2. TypeOK
  <2>1. NoRequest \in Request /\ Unnamed \in Name /\ Blank \in Page
    BY RequestFields, BlankType DEF Name, Unnamed
  <2>2. PageType
    BY <2>1 DEF PageType, Request, Name
  <2>3. PopupType
    BY <2>1, EmptySeq DEF PopupType, Page
  <2>4. OutsideType
    <3>1. others = 0 /\ losses = 0 /\ reloads = 0
      OBVIOUS
    <3>2. {others, losses, reloads} \subseteq 0 .. MaxMishaps /\ others + losses + reloads <= MaxMishaps
      <4> HIDE DEF Init
      <4> QED
        BY <3>1
    <3>3. nonce \in Nat /\ signed \in [Calls -> Int] /\ tx \in [Calls -> Progress] /\ accepted = {}
      BY DEF Progress
    <3> QED
      BY <3>2, <3>3 DEF OutsideType, Progress
  <2> QED
    BY <2>2, <2>3, <2>4 DEF TypeOK, Blank
<1>3. DOMAIN inbox = {} /\ popup.call = NoCall /\ popup.at = "loading"
  BY DEF Blank
<1>4. \A c \in Calls : req[c].sending = -1 /\ ~req[c].sent /\ named[c] = Unnamed /\ named[c].by = "nothing"
  BY DEF NoRequest, Unnamed
<1>5. \A c \in Calls : Untouched(c)
  BY <1>3, <1>4 DEF Untouched, NothingSent, Quiet
<1>6. PopupSide
  <2>1. \A c \in Calls : RequestInv(c)
    BY <1>1, <1>5 DEF RequestInv
  <2>2. PopupInv /\ NonceInv /\ MessageInv
    BY <1>3, <1>4 DEF PopupInv, NonceInv, MessageInv
  <2>3. SentInv /\ NamedInv
    BY <1>1, <1>4 DEF SentInv, NamedInv
  <2> QED
    BY <2>1, <2>2, <2>3 DEF PopupSide
<1>7. PaymentNamed
  BY <1>1 DEF PaymentNamed, Pays
<1>8. ReceiptInv
  BY DEF ReceiptInv, Pays
<1>9. SingleRequest
  BY <1>1 DEF SingleRequest
<1>10. \A c \in Calls : ~UnderWay(c)
  BY <1>1 DEF UnderWay
<1>11. PayingHonest /\ StatusInv
  BY <1>10 DEF PayingHonest, StatusInv, Pays
<1> QED
  BY <1>2, <1>6, <1>7, <1>8, <1>9, <1>11 DEF IInv

LEMMA StepInv == IInv /\ [Next]_vars => IInv'
PROOF
<1> SUFFICES ASSUME IInv, [Next]_vars PROVE IInv'
  OBVIOUS
<1> USE DEF IInv
<1>1. TypeOK'
  BY TypeStep DEF PopupSide
<1>2. PopupSide'
  BY SideStep
<1>3. PaymentNamed' /\ ReceiptInv' /\ SingleRequest'
  BY NamedStep, ReceiptStep, SingleStep
<1>4. PayingHonest' /\ StatusInv'
  BY <1>1, PayingStep, StatusStep
<1> QED
  BY <1>1, <1>2, <1>3, <1>4

\* The inductive invariant: who knows what of a request, and what the page may
\* still be told of its payment.
THEOREM AlwaysConnected == Spec => []IInv
PROOF
  BY InitInv, StepInv, PTL DEF Spec

\* A payment that left the popup is never lost to the page.
THEOREM AlwaysPaymentNamed == Spec => []PaymentNamed
PROOF
<1>1. IInv => PaymentNamed
  BY DEF IInv
<1> QED
  BY <1>1, AlwaysConnected, PTL

\* A receipt stands for one payment, mined and accepted, and no other call has it.
THEOREM AlwaysReceiptIsOwn == Spec => []ReceiptIsOwn
PROOF
<1>1. IInv => ReceiptIsOwn
  BY DEF IInv, ReceiptInv, ReceiptIsOwn
<1> QED
  BY <1>1, AlwaysConnected, PTL

\* What the page shows of itself is true: whether it pays, and who is signed in.
THEOREM AlwaysPageHonest == Spec => []PageHonest
PROOF
<1>1. IInv => PageHonest
  BY DEF IInv, PageHonest, StatusInv, StatusTrue, Shown
<1> QED
  BY <1>1, AlwaysConnected, PTL

\* A sign-in that fails closes no window that another request of its VeraKeyConnect uses.
THEOREM AlwaysFailureClosesOwn == Spec => FailureClosesOwn
PROOF
<1> DEFINE Own ==
      \A c \in Calls : req[c].window = win.id /\ values_fail(c) /\ win.open /\ ~win'.open =>
        \A d \in Calls \ {c} : stage[d] = "open" /\ req[d].window = win.id => req[d].conn # req[c].conn
<1>1. IInv /\ [Next]_vars => [Own]_vars
  BY DEF IInv, SingleRequest, values_fail
<1> QED
  BY <1>1, AlwaysConnected, PTL DEF Spec, FailureClosesOwn

\* The calls of the visit are the only ones ever made.
Visiting == \E V \in Visits : \A c \in Calls : stage[c] # "never" <=> c \in V

LEMMA VisitStep ==
  ASSUME IInv, Visiting, [Next]_vars
  PROVE  Visiting'
PROOF
<1> USE DEF IInv
<1>1. \A c \in Calls : stage'[c] = "never" <=> stage[c] = "never"
  <2>1. CASE Aside
    BY <2>1 DEF Aside
  <2>2. ASSUME NEW c \in Calls, Finish(c)
        PROVE  \A d \in Calls : stage'[d] = "never" <=> stage[d] = "never"
    BY <2>2 DEF Finish
  <2>3. ASSUME NEW c \in Calls, open(c), stage[c] = "new"
        PROVE  \A d \in Calls : stage'[d] = "never" <=> stage[d] = "never"
    BY <2>3, OpenEffect
  <2>4. ASSUME NEW c \in Calls, Plain(c)
        PROVE  \A d \in Calls : stage'[d] = "never" <=> stage[d] = "never"
    BY <2>4, PlainEffect DEF PopupSide
  <2> QED
    BY <2>1, <2>2, <2>3, <2>4, StepKinds DEF signIn, pay
<1> QED
  BY <1>1 DEF Visiting

\* Where a visit makes at most one payment, a receipt is of the payment of its own call,
\* whichever nonce the payment was named with.
THEOREM OnePaymentReceipt ==
  ASSUME \A V \in Visits : \A c, d \in V \cap Pays : c = d
  PROVE  Spec => [](\A c \in Pays : outcome[c] = "ok" => receipt[c] = c)
PROOF
<1>1. Init => Visiting
  <2> SUFFICES ASSUME Init PROVE Visiting
    OBVIOUS
  <2>1. PICK V \in Visits : stage = [c \in Calls |-> IF c \in V THEN "new" ELSE "never"]
    BY DEF Init
  <2> QED
    BY <2>1 DEF Visiting
<1>2. IInv /\ Visiting /\ [Next]_vars => Visiting'
  BY VisitStep
<1>3. IInv /\ Visiting => \A c \in Pays : outcome[c] = "ok" => receipt[c] = c
  <2> SUFFICES ASSUME IInv, Visiting, NEW c \in Pays, outcome[c] = "ok"
               PROVE  receipt[c] = c
    OBVIOUS
  <2>1. PICK V \in Visits : \A d \in Calls : stage[d] # "never" <=> d \in V
    BY DEF Visiting
  <2>2. receipt[c] \in accepted /\ tx[receipt[c]] = "mined"
    BY DEF IInv, ReceiptInv
  <2>3. receipt[c] \in Pays
    BY <2>2, OutsideTypes DEF IInv
  <2>4. stage[receipt[c]] # "never"
    BY <2>2, <2>3 DEF IInv, PopupSide, RequestInv, Untouched, NothingSent, Pays
  <2>5. stage[c] # "never"
    BY DEF IInv, PopupSide, NamedInv, Pays
  <2> QED
    BY <2>1, <2>3, <2>4, <2>5 DEF Pays
<1> QED
  BY <1>1, <1>2, <1>3, AlwaysConnected, PTL DEF Spec
=============================================================================
