------------------------------ MODULE Connect ------------------------------
(***************************************************************************)
(* "Sign in with VeraKey" from end to end: the page's VeraKeySession       *)
(* (packages/sdk/src/session.ts), its requests to VeraKey's popup          *)
(* (connect.ts), the popup itself (client/src/pages/connect) with the      *)
(* payment the SDK makes in it (client.ts), the relayer and the account    *)
(* behind it, and the site's server that accepts the payment.              *)
(*                                                                         *)
(* The page and the popup are two processes that post messages to each     *)
(* other; the player may close or reload the popup at any time.  A call is *)
(* one call of load, signIn, signOut or pay; a popup handles one call, so  *)
(* a call also names its payment.  A hash names the transaction itself.    *)
(***************************************************************************)
EXTENDS Integers, Sequences, FiniteSets

CONSTANTS
  Calls,       \* the calls the page may make on its session
  Kind,        \* Kind[c]: what call c is of
  NoCall,
  Visits,      \* the sets of calls one visit to the page may make
  MaxMishaps,  \* bound: actions of the account from elsewhere, answers of the
               \* site's server that are lost and reloads of the popup, together
  Calm         \* bound: the visits during which none of these happens

ASSUME KindAssumption ==
  /\ Kind \in [Calls -> {"load", "signIn", "signOut", "pay"}]
  /\ NoCall \notin Calls
  /\ Visits \subseteq SUBSET Calls
ASSUME BoundsAssumption == MaxMishaps \in Nat

VARIABLES
  \* the page: VeraKeySession's state, and which VeraKeyConnect it holds (0: none)
  status, paying, connect,
  stage,       \* stage[c]: how far call c is
  answer,      \* answer[c]: what the site's server answered
  outcome,     \* outcome[c]: what call c resolved to
  named,       \* named[c]: how a payment's error or confirmation names it
  receipt,     \* receipt[c]: the payment whose hash the server's answer gives
  req,         \* req[c]: VeraKeyConnect.request's variables
  \* the popup
  win,         \* the window named CONNECT_WINDOW
  popup,       \* the page in it
  inbox,       \* messages posted to the site's page
  mail,        \* requests posted to the popup
  \* the account, and the payments signed for it
  nonce, tx,
  signed,      \* signed[c]: the nonce payment c was signed for
  \* the site's server
  cookie,      \* the player is signed in
  accepted,    \* payments it accepted
  \* bounds
  others, losses, reloads,
  \* history, read by properties only
  overlapped,  \* two calls that write the status were under way at once
  moved,       \* payments during whose reads of the nonce it changed
  overtaken    \* calls that saw the popup closed before its last messages

pageVars == <<status, paying, connect>>
callVars == <<stage, answer, outcome, named, receipt, req>>
popupVars == <<win, popup, inbox, mail>>
chainVars == <<nonce, tx, signed>>
serverVars == <<cookie, accepted>>
boundVars == <<others, losses, reloads>>
history == <<overlapped, moved, overtaken>>
vars == <<pageVars, callVars, popupVars, chainVars, serverVars, boundVars, history>>

Opens == {c \in Calls : Kind[c] \in {"signIn", "pay"}}   \* those that open the popup
Pays == {c \in Calls : Kind[c] = "pay"}
UnderWay(c) == stage[c] \in {"open", "asking", "answered"}

Blank == [at |-> "loading", call |-> NoCall, shown |-> -1]
NoRequest == [conn |-> 0, window |-> 0, ready |-> FALSE, values |-> FALSE, sent |-> FALSE, sending |-> -1]
Unnamed == [by |-> "nothing", nonce |-> -1]

mishap ==
  /\ others + losses + reloads < MaxMishaps
  /\ {c \in Calls : stage[c] # "never"} \notin Calm

go(c, s) == stage' = [stage EXCEPT ![c] = s]

\* Call c begins: does it overlap another that writes the status?
begin(c) == overlapped' = (overlapped \/ \E d \in Calls \ {c} : UnderWay(d))

-----------------------------------------------------------------------------
(***************************************************************************)
(* The page                                                                *)
(***************************************************************************)

load(c) ==
  /\ Kind[c] = "load" /\ stage[c] = "new"
  /\ go(c, "asking") /\ begin(c)
  /\ UNCHANGED <<pageVars, answer, outcome, named, receipt, req, popupVars, chainVars, serverVars, boundVars, moved, overtaken>>

Busy == \E c \in Calls : stage[c] = "open" /\ req[c].conn = connect

\* request, up to its first await: one named window, opened or navigated.
open(c) ==
  /\ connect # 0 /\ ~Busy
  /\ win' = [id |-> IF win.open THEN win.id ELSE win.id + 1, open |-> TRUE]
  /\ popup' = Blank /\ mail' = {}
  /\ go(c, "open")
  /\ req' = [req EXCEPT ![c] = [NoRequest EXCEPT !.conn = connect, !.window = win'.id, !.values = (Kind[c] = "pay")]]
  /\ begin(c)
  /\ UNCHANGED <<connect, answer, outcome, named, receipt, inbox, chainVars, serverVars, boundVars, moved, overtaken>>

signIn(c) ==
  /\ Kind[c] = "signIn" /\ stage[c] = "new" /\ status = "signed-out"
  /\ open(c)
  /\ status' = "signing-in" /\ UNCHANGED paying

\* Without a VeraKeyConnect the page asks its server again.
signIn_reloading(c, l) ==
  /\ Kind[c] = "signIn" /\ stage[c] = "new" /\ status = "signed-out" /\ connect = 0
  /\ Kind[l] = "load" /\ stage[l] = "new"
  /\ stage' = [stage EXCEPT ![c] = "done", ![l] = "asking"]
  /\ outcome' = [outcome EXCEPT ![c] = "error"]
  /\ begin(l)
  /\ UNCHANGED <<pageVars, answer, named, receipt, req, popupVars, chainVars, serverVars, boundVars, moved, overtaken>>

pay(c) ==
  /\ Kind[c] = "pay" /\ stage[c] = "new" /\ status = "signed-in" /\ ~paying
  /\ open(c)
  /\ paying' = TRUE /\ UNCHANGED status

\* The browser blocks the window, or another request of this VeraKeyConnect is open.
unopened(c) ==
  /\ stage[c] = "new" /\ connect # 0
  /\ \/ Kind[c] = "signIn" /\ status = "signed-out"
     \/ Kind[c] = "pay" /\ status = "signed-in" /\ ~paying
  /\ go(c, "done") /\ outcome' = [outcome EXCEPT ![c] = "error"]
  /\ UNCHANGED <<pageVars, answer, named, receipt, req, popupVars, chainVars, serverVars, boundVars, history>>

signOut(c) ==
  /\ Kind[c] = "signOut" /\ stage[c] = "new"
  /\ go(c, "asking") /\ begin(c)
  /\ UNCHANGED <<pageVars, answer, outcome, named, receipt, req, popupVars, chainVars, serverVars, boundVars, moved, overtaken>>

\* A payment not accepted yet is presented again, without a popup.
confirmPayment(c) ==
  /\ Kind[c] = "pay" /\ stage[c] = "done" /\ outcome[c] = "error" /\ named[c] # Unnamed
  /\ go(c, "asking") /\ begin(c)
  /\ UNCHANGED <<pageVars, answer, outcome, named, receipt, req, popupVars, chainVars, serverVars, boundVars, moved, overtaken>>

\* Mutant: a request that ended while sending is told like any other.
Ended_forgetting(c, code) == IF req[c].sent THEN [by |-> "hash", nonce |-> -1] ELSE Unnamed

\* What the error of an ended request says of the payment: its hash, or the
\* nonce it was being sent with.
Ended(c, code) ==
  IF req[c].sent THEN [by |-> "hash", nonce |-> -1]
  ELSE IF req[c].sending >= 0 /\ code \in {"closed", "relay"}
       THEN [by |-> "nonce", nonce |-> req[c].sending] ELSE Unnamed

\* The listener is removed; only the promise of the request's values is left.
forget(c) == req' = [req EXCEPT ![c] = [@ EXCEPT !.ready = FALSE, !.sent = FALSE, !.sending = -1]]

\* Mutant: paying ends only when the site's server was asked.
fail_still_paying(c, code) ==
  /\ named' = [named EXCEPT ![c] = Ended(c, code)] /\ forget(c)
  /\ IF named'[c] # Unnamed
       THEN go(c, "asking") /\ UNCHANGED <<pageVars, outcome>>
       ELSE /\ go(c, "done")
            /\ outcome' = [outcome EXCEPT ![c] = IF code \in {"cancelled", "closed"} THEN "null" ELSE "error"]
            /\ status' = IF Kind[c] = "signIn" THEN "signed-out" ELSE status
            /\ UNCHANGED <<paying, connect>>

\* A request ends with an error; what was sent, or may have been, goes to the
\* server. A player who cancelled or closed the window is not told of it.
fail(c, code) ==
  /\ named' = [named EXCEPT ![c] = Ended(c, code)] /\ forget(c)
  /\ IF named'[c] # Unnamed
       THEN go(c, "asking") /\ UNCHANGED <<pageVars, outcome>>
       ELSE /\ go(c, "done")
            /\ outcome' = [outcome EXCEPT ![c] = IF code \in {"cancelled", "closed"} THEN "null" ELSE "error"]
            /\ status' = IF Kind[c] = "signIn" THEN "signed-out" ELSE status
            /\ paying' = (Kind[c] # "pay" /\ paying)
            /\ UNCHANGED connect

-----------------------------------------------------------------------------
(***************************************************************************)
(* The request's listener and timers                                       *)
(***************************************************************************)
Hears(c, m) == stage[c] = "open" /\ req[c].window = m.from

\* A message to a window that is closed or still loading reaches nobody.
post(calls) ==
  mail' = mail \union {c \in calls : win.open /\ req[c].window = win.id /\ popup.at # "loading"}

hear_ready(m) ==
  LET first == {c \in Calls : Hears(c, m) /\ ~req[c].ready}
  IN /\ m.type = "ready"
     /\ req' = [c \in Calls |-> IF c \in first THEN [req[c] EXCEPT !.ready = TRUE] ELSE req[c]]
     /\ post({c \in first : req[c].values})
     /\ UNCHANGED <<pageVars, stage, outcome, named>>

hear_progress(m) ==
  /\ m.type \in {"sending", "submitted"}
  /\ req' = IF m.call \in Calls /\ Hears(m.call, m)
              THEN [req EXCEPT ![m.call] = IF m.type = "sending" THEN [@ EXCEPT !.sending = m.nonce]
                                                                 ELSE [@ EXCEPT !.sent = TRUE]]
              ELSE req
  /\ UNCHANGED <<pageVars, stage, outcome, named, mail>>

hear_end(m) ==
  /\ m.type \in {"result", "cancelled", "policy", "relay", "busy"}
  /\ \/ /\ ~Hears(m.call, m)
        /\ UNCHANGED <<pageVars, stage, outcome, named, req>>
     \/ /\ Hears(m.call, m) /\ m.type = "result"
        /\ go(m.call, "asking") /\ forget(m.call)
        /\ named' = IF Kind[m.call] = "pay" THEN [named EXCEPT ![m.call] = [by |-> "hash", nonce |-> -1]] ELSE named
        /\ UNCHANGED <<pageVars, outcome>>
     \/ /\ Hears(m.call, m) /\ m.type # "result"
        /\ fail(m.call, m.type)
  /\ UNCHANGED mail

onMessage ==
  /\ inbox # <<>>
  /\ inbox' = Tail(inbox)
  /\ LET m == Head(inbox) IN hear_ready(m) \/ hear_progress(m) \/ hear_end(m)
  /\ UNCHANGED <<answer, receipt, win, popup, chainVars, serverVars, boundVars, history>>

Closed(c) == ~win.open \/ req[c].window # win.id

\* Messages the popup posted before it closed may still be queued.
Unread(c) == \E i \in DOMAIN inbox : inbox[i].call = c /\ inbox[i].type \in {"sending", "submitted"}

\* Mutant: a request whose payment is on its way waits for its result.
closedPoll_patient(c) ==
  /\ stage[c] = "open" /\ Closed(c) /\ req[c].sending = -1
  /\ fail(c, IF req[c].ready THEN "closed" ELSE "unavailable")
  /\ overtaken' = IF Unread(c) THEN overtaken \union {c} ELSE overtaken
  /\ UNCHANGED <<answer, receipt, popupVars, chainVars, serverVars, boundVars, overlapped, moved>>

closedPoll(c) ==
  /\ stage[c] = "open" /\ Closed(c)
  /\ fail(c, IF req[c].ready THEN "closed" ELSE "unavailable")
  /\ overtaken' = IF Unread(c) THEN overtaken \union {c} ELSE overtaken
  /\ UNCHANGED <<answer, receipt, popupVars, chainVars, serverVars, boundVars, overlapped, moved>>

readyTimer(c) ==
  /\ stage[c] = "open" /\ ~req[c].ready
  /\ fail(c, "unavailable")
  /\ UNCHANGED <<answer, receipt, popupVars, chainVars, serverVars, boundVars, history>>

\* The site's nonce for a sign-in arrives.
values_arrive(c) ==
  /\ Kind[c] = "signIn" /\ stage[c] = "open" /\ ~req[c].values
  /\ req' = [req EXCEPT ![c].values = TRUE]
  /\ post(IF req[c].ready THEN {c} ELSE {})
  /\ UNCHANGED <<pageVars, stage, answer, outcome, named, receipt, win, popup, inbox, chainVars, serverVars, boundVars, history>>

shut == win' = [win EXCEPT !.open = FALSE] /\ popup' = Blank /\ mail' = {}

\* Mutant: the window is closed although the request has ended.
values_fail_anyway(c) ==
  /\ Kind[c] = "signIn" /\ stage[c] \in {"open", "done"} /\ req[c].window > 0 /\ ~req[c].values
  /\ IF stage[c] = "open" THEN fail(c, "request") ELSE UNCHANGED <<pageVars, stage, outcome, named, req>>
  /\ IF Closed(c) THEN UNCHANGED <<win, popup, mail>> ELSE shut
  /\ UNCHANGED <<answer, receipt, inbox, chainVars, serverVars, boundVars, history>>

\* It does not: the request fails and closes its window.
values_fail(c) ==
  /\ Kind[c] = "signIn" /\ stage[c] = "open" /\ ~req[c].values
  /\ fail(c, "request")
  /\ IF Closed(c) THEN UNCHANGED <<win, popup, mail>> ELSE shut
  /\ UNCHANGED <<answer, receipt, inbox, chainVars, serverVars, boundVars, history>>

-----------------------------------------------------------------------------
(***************************************************************************)
(* The popup: useConnectRequest and ConnectPage                            *)
(***************************************************************************)
say(c, type, n) == inbox' = Append(inbox, [from |-> win.id, type |-> type, call |-> c, nonce |-> n])
at(s) == win.open /\ popup.at = s
to(s) == popup' = [popup EXCEPT !.at = s] /\ UNCHANGED <<win, mail>>

popupFrame == UNCHANGED <<pageVars, callVars, serverVars, overlapped, overtaken>>
still == UNCHANGED <<chainVars, boundVars, moved>>

announce ==
  /\ at("loading")
  /\ say(NoCall, "ready", -1) /\ to("waiting")
  /\ popupFrame /\ still

\* One request per window; acceptRequest turns a second one away.
receive_request(c) ==
  /\ c \in mail /\ mail' = mail \ {c}
  /\ IF popup.call = NoCall
       THEN popup' = [popup EXCEPT !.at = "asked", !.call = c] /\ UNCHANGED inbox
       ELSE say(c, "busy", -1) /\ UNCHANGED popup
  /\ UNCHANGED win /\ popupFrame /\ still

cancel ==
  /\ at("asked")
  /\ say(popup.call, "cancelled", -1) /\ shut
  /\ popupFrame /\ still

\* Unlocking, funds, the policy, the device or the proof fail before anything is sent.
stop_before_sending(code) ==
  /\ \E s \in {"asked", "ensuring", "signing"} : at(s)
  /\ say(popup.call, code, -1) /\ to("finished")
  /\ popupFrame /\ still

prove_sign_in ==
  /\ at("asked") /\ Kind[popup.call] = "signIn"
  /\ say(popup.call, "result", -1) /\ shut
  /\ popupFrame /\ still

\* ConnectPage reads the nonce it will report.
read_nonce ==
  /\ at("asked") /\ Kind[popup.call] = "pay"
  /\ popup' = [popup EXCEPT !.at = "ensuring", !.shown = nonce]
  /\ UNCHANGED <<win, mail, inbox>> /\ popupFrame /\ still

\* ensureAccount has ended, and authorize reads the nonce that is signed.
authorize ==
  /\ at("ensuring")
  /\ signed' = [signed EXCEPT ![popup.call] = nonce]
  /\ to("signing")
  /\ UNCHANGED <<inbox, nonce, tx, boundVars, moved>> /\ popupFrame

\* The proof is done: the page is told, and the relayer is asked.
submit ==
  /\ at("signing")
  /\ say(popup.call, "sending", popup.shown)
  /\ tx' = [tx EXCEPT ![popup.call] = "wire"]
  /\ to("relaying")
  /\ UNCHANGED <<nonce, signed, boundVars, moved>> /\ popupFrame

submitted ==
  /\ at("relaying") /\ tx[popup.call] \in {"pool", "mined", "gone"}
  /\ say(popup.call, "submitted", -1) /\ to("confirming")
  /\ popupFrame /\ still

\* The relayer refuses, or its answer is lost.
not_submitted(code) ==
  /\ at("relaying")
  /\ code = "relay" \/ (code = "policy" /\ tx[popup.call] = "refused")
  /\ say(popup.call, code, -1) /\ to("finished")
  /\ popupFrame /\ still

confirmed ==
  /\ at("confirming") /\ tx[popup.call] = "mined"
  /\ say(popup.call, "result", -1) /\ shut
  /\ popupFrame /\ still

\* It reverted, or the node does not answer for it.
not_confirmed ==
  /\ at("confirming")
  /\ say(popup.call, "relay", -1) /\ to("finished")
  /\ popupFrame /\ still

close_window ==
  /\ win.open /\ shut
  /\ UNCHANGED inbox /\ popupFrame /\ still

reload_window ==
  /\ win.open /\ popup.at # "loading"
  /\ mishap /\ reloads' = reloads + 1
  /\ popup' = Blank /\ mail' = {}
  /\ UNCHANGED <<win, inbox, chainVars, others, losses, moved>> /\ popupFrame

-----------------------------------------------------------------------------
(***************************************************************************)
(* The relayer, the chain and the site's server                            *)
(***************************************************************************)
chainFrame == UNCHANGED <<pageVars, callVars, popupVars, serverVars, signed, losses, reloads, overlapped, overtaken>>

\* The relayer sends what it could simulate.
relayer_sends(c) ==
  /\ tx[c] = "wire" /\ signed[c] = nonce
  /\ tx' = [tx EXCEPT ![c] = "pool"]
  /\ UNCHANGED <<nonce, others, moved>> /\ chainFrame

relayer_refuses(c) ==
  /\ tx[c] = "wire"
  /\ tx' = [tx EXCEPT ![c] = "refused"]
  /\ UNCHANGED <<nonce, others, moved>> /\ chainFrame

\* The account takes an action: another read of its nonce gives another value.
advance ==
  /\ nonce' = nonce + 1
  /\ moved' = IF at("ensuring") THEN moved \union {popup.call} ELSE moved

mine(c) ==
  /\ tx[c] = "pool" /\ signed[c] = nonce
  /\ tx' = [tx EXCEPT ![c] = "mined"]
  /\ advance
  /\ UNCHANGED others /\ chainFrame

revert_or_drop(c) ==
  /\ tx[c] = "pool"
  /\ tx' = [tx EXCEPT ![c] = "gone"]
  /\ UNCHANGED <<nonce, others, moved>> /\ chainFrame

other_action ==
  /\ mishap /\ others' = others + 1
  /\ advance
  /\ UNCHANGED tx /\ chainFrame

\* What verifyPayment and findPayment find for the payment named by call c.
Found(c) ==
  {p \in Pays : tx[p] = "mined" /\ IF named[c].by = "hash" THEN p = c ELSE signed[p] = named[c].nonce}

says(c, a) == answer' = [answer EXCEPT ![c] = a] /\ go(c, "answered")

serve_session(c) ==
  /\ stage[c] = "asking"
  /\ \/ Kind[c] = "load" /\ says(c, IF cookie THEN "yes" ELSE "no") /\ UNCHANGED cookie
     \/ Kind[c] = "signIn" /\ says(c, "yes") /\ cookie' = TRUE
     \/ Kind[c] = "signIn" /\ says(c, "no") /\ UNCHANGED cookie
     \/ Kind[c] = "signOut" /\ says(c, "yes") /\ cookie' = FALSE
  /\ UNCHANGED <<pageVars, outcome, named, receipt, req, popupVars, chainVars, accepted, boundVars, history>>

\* Mutant: a payment may be accepted again.
serve_payment_again(c) ==
  /\ stage[c] = "asking" /\ Kind[c] = "pay"
  /\ \/ ~cookie /\ says(c, "401") /\ UNCHANGED <<accepted, receipt>>
     \/ cookie /\ says(c, "no") /\ UNCHANGED <<accepted, receipt>>
     \/ /\ cookie /\ says(c, "yes")
        /\ \E p \in Found(c) : accepted' = accepted \union {p} /\ receipt' = [receipt EXCEPT ![c] = p]
  /\ UNCHANGED <<pageVars, outcome, named, req, popupVars, chainVars, cookie, boundVars, history>>

\* POST payment: a payment of the player's that was not accepted before, if the
\* site can fulfil it.
serve_payment(c) ==
  /\ stage[c] = "asking" /\ Kind[c] = "pay"
  /\ \/ ~cookie /\ says(c, "401") /\ UNCHANGED <<accepted, receipt>>
     \/ cookie /\ says(c, "no") /\ UNCHANGED <<accepted, receipt>>
     \/ /\ cookie /\ says(c, "yes")
        /\ \E p \in Found(c) \ accepted : accepted' = accepted \union {p} /\ receipt' = [receipt EXCEPT ![c] = p]
  /\ UNCHANGED <<pageVars, outcome, named, req, popupVars, chainVars, cookie, boundVars, history>>

lose(c) ==
  /\ stage[c] \in {"asking", "answered"} /\ answer[c] # "lost"
  /\ mishap /\ losses' = losses + 1
  /\ says(c, "lost")
  /\ UNCHANGED <<pageVars, outcome, named, receipt, req, popupVars, chainVars, serverVars, others, reloads, history>>

-----------------------------------------------------------------------------
(***************************************************************************)
(* The page gets the server's answer                                       *)
(***************************************************************************)
ends(c, o) == outcome' = [outcome EXCEPT ![c] = o] /\ go(c, "done")

loaded(c) ==
  /\ Kind[c] = "load"
  /\ IF answer[c] = "lost"
       THEN status' = "signed-out" /\ UNCHANGED connect
       ELSE status' = (IF answer[c] = "yes" THEN "signed-in" ELSE "signed-out") /\ connect' = connect + 1
  /\ ends(c, IF answer[c] = "lost" THEN "error" ELSE "ok")
  /\ UNCHANGED paying

signedIn(c) ==
  /\ Kind[c] = "signIn"
  /\ status' = IF answer[c] = "yes" THEN "signed-in" ELSE "signed-out"
  /\ ends(c, IF answer[c] = "yes" THEN "ok" ELSE "error")
  /\ UNCHANGED <<paying, connect>>

signedOut(c) ==
  /\ Kind[c] = "signOut"
  /\ status' = IF answer[c] = "yes" THEN "signed-out" ELSE status
  /\ ends(c, IF answer[c] = "yes" THEN "ok" ELSE "error")
  /\ UNCHANGED <<paying, connect>>

\* A first answer ends pay(); the error keeps what names the payment.
paid(c) ==
  /\ Kind[c] = "pay"
  /\ status' = IF answer[c] = "401" THEN "signed-out" ELSE status
  /\ paying' = (paying /\ outcome[c] # "none")
  /\ ends(c, IF answer[c] = "yes" THEN "ok" ELSE "error")
  /\ UNCHANGED connect

receive(c) ==
  /\ stage[c] = "answered"
  /\ loaded(c) \/ signedIn(c) \/ signedOut(c) \/ paid(c)
  /\ answer' = [answer EXCEPT ![c] = "none"]
  /\ UNCHANGED <<named, receipt, req, popupVars, chainVars, serverVars, boundVars, history>>

-----------------------------------------------------------------------------
Init ==
  /\ status = "loading" /\ paying = FALSE /\ connect = 0
  /\ \E V \in Visits : stage = [c \in Calls |-> IF c \in V THEN "new" ELSE "never"]
  /\ answer = [c \in Calls |-> "none"] /\ outcome = [c \in Calls |-> "none"]
  /\ named = [c \in Calls |-> Unnamed] /\ receipt = [c \in Calls |-> NoCall] /\ req = [c \in Calls |-> NoRequest]
  /\ win = [id |-> 0, open |-> FALSE] /\ popup = Blank /\ inbox = <<>> /\ mail = {}
  /\ nonce = 0 /\ tx = [c \in Calls |-> "none"] /\ signed = [c \in Calls |-> -1]
  /\ cookie \in BOOLEAN /\ accepted = {}
  /\ others = 0 /\ losses = 0 /\ reloads = 0
  /\ overlapped = FALSE /\ moved = {} /\ overtaken = {}

PageStep(c) ==
  \/ load(c) \/ signIn(c) \/ pay(c) \/ unopened(c) \/ signOut(c) \/ confirmPayment(c)
  \/ \E l \in Calls : signIn_reloading(c, l)
  \/ closedPoll(c) \/ readyTimer(c) \/ values_arrive(c) \/ values_fail(c)
  \/ receive(c)

PopupStep ==
  \/ announce \/ cancel \/ prove_sign_in \/ read_nonce \/ authorize \/ submit \/ submitted
  \/ confirmed \/ not_confirmed \/ close_window \/ reload_window
  \/ \E c \in Calls : receive_request(c)
  \/ \E code \in {"cancelled", "policy", "relay"} : stop_before_sending(code) \/ not_submitted(code)

OutsideStep(c) ==
  \/ relayer_sends(c) \/ relayer_refuses(c) \/ mine(c) \/ revert_or_drop(c)
  \/ serve_session(c) \/ serve_payment(c) \/ lose(c)

Next ==
  \/ onMessage \/ PopupStep \/ other_action
  \/ \E c \in Calls : PageStep(c) \/ OutsideStep(c)

Spec == Init /\ [][Next]_vars
=============================================================================
