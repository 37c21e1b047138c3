------------------------- MODULE ConnectProperties -------------------------
(***************************************************************************)
(* What signing in and paying with the popup promise to the page.          *)
(***************************************************************************)
EXTENDS Connect

PageType ==
  /\ status \in {"loading", "signed-out", "signing-in", "signed-in"}
  /\ paying \in BOOLEAN /\ connect \in Nat /\ cookie \in BOOLEAN
  /\ stage \in [Calls -> {"never", "new", "open", "asking", "answered", "done"}]
  /\ answer \in [Calls -> {"none", "yes", "no", "401", "lost"}]
  /\ outcome \in [Calls -> {"none", "ok", "null", "error"}]
  /\ named \in [Calls -> [by : {"nothing", "hash", "nonce"}, nonce : Int]]
  /\ receipt \in [Calls -> Calls \union {NoCall}]
  /\ req \in [Calls -> [conn : Nat, window : Nat, ready : BOOLEAN, values : BOOLEAN, sent : BOOLEAN, sending : Int]]

PopupType ==
  /\ win \in [id : Nat, open : BOOLEAN]
  /\ popup \in [at : {"loading", "waiting", "asked", "ensuring", "signing", "relaying", "confirming", "finished"},
                call : Calls \union {NoCall}, shown : Int]
  /\ inbox \in Seq([from : Nat, call : Calls \union {NoCall}, nonce : Int,
                    type : {"ready", "sending", "submitted", "result", "cancelled", "policy", "relay", "busy"}])
  /\ mail \subseteq Calls

OutsideType ==
  /\ nonce \in Nat /\ signed \in [Calls -> Int]
  /\ tx \in [Calls -> {"none", "wire", "refused", "pool", "mined", "gone"}]
  /\ accepted \subseteq Pays
  /\ {others, losses, reloads} \subseteq 0..MaxMishaps /\ others + losses + reloads <= MaxMishaps
  /\ overlapped \in BOOLEAN /\ moved \subseteq Pays /\ overtaken \subseteq Calls

\* A popup that shows a request has taken one, and no request waits for a
\* popup that still loads.
TypeOK ==
  /\ PageType /\ PopupType /\ OutsideType
  /\ popup.at \in {"asked", "ensuring", "signing", "relaying", "confirming"} => popup.call # NoCall
  /\ popup.at = "loading" => mail = {}

\* The error names the payment: the site's server can find it.
Names(c) == named[c].by = "hash" \/ (named[c].by = "nonce" /\ named[c].nonce = signed[c])

\* A payment that left the popup is never lost to the page (session.ts,
\* VeraKeySentPayment: "a payment the popup sent, or may have sent"): however
\* the popup ended, whichever answer was lost, pay() ended with its receipt or
\* with an error that names it, and with null only if nothing was sent. The two
\* exceptions: the account's nonce moved between the popup's two reads of it,
\* and a closed window was noticed before its last messages were read.
PaymentNamed ==
  \A c \in Pays : stage[c] = "done" /\ tx[c] \in {"wire", "pool", "mined"} =>
    outcome[c] = "ok" \/ Names(c) \/ c \in moved \union overtaken

\* The nonce a request that ended while sending gives the site is the one the
\* payment uses (connect.ts, PendingPayment).
PendingNamesPayment ==
  \A c \in Pays : named[c].by = "nonce" /\ tx[c] \in {"wire", "pool", "mined"} => named[c].nonce = signed[c]

\* A receipt stands for one payment, mined and accepted once, whatever was tried
\* again (server.ts, acceptPayment), and no two calls of pay() get it. It is the
\* payment of this call, unless another payment took the nonce that names it.
ReceiptIsOwn ==
  \A c \in Pays : outcome[c] = "ok" =>
    /\ receipt[c] \in accepted /\ tx[receipt[c]] = "mined"
    /\ receipt[c] = c \/ named[c] = [by |-> "nonce", nonce |-> signed[receipt[c]]]
    /\ \A d \in Pays \ {c} : outcome[d] = "ok" => receipt[d] # receipt[c]

\* The page says it is paying exactly while a call of pay() has not ended, so
\* neither a second payment starts meanwhile nor is the page stuck after it.
PayingHonest ==
  /\ paying <=> \E c \in Pays : UnderWay(c) /\ outcome[c] = "none"
  /\ \A c, d \in Pays : UnderWay(c) /\ UnderWay(d) /\ outcome[c] = "none" /\ outcome[d] = "none" => c = d

\* Once its calls have ended, the page shows what the server's cookie says,
\* unless an answer was lost or calls overlapped: load and finishSignIn
\* overwrite the status when their answer arrives, however old it is.
StatusTrue ==
  (\A c \in Calls : ~UnderWay(c)) /\ ~overlapped /\ losses = 0 /\ status # "loading" =>
    status = IF cookie THEN "signed-in" ELSE "signed-out"

\* What the page shows of itself is true: whether it pays, and who is signed in.
PageHonest == TypeOK /\ PayingHonest /\ StatusTrue

\* A sign-in whose nonce could not be fetched closes the window it opened, and
\* never under another request of the same VeraKeyConnect that uses the window
\* by now (connect.ts: "a retry may already be using the same window").
FailureClosesOwn ==
  [][\A c \in Calls : req[c].window = win.id /\ values_fail(c) /\ win.open /\ ~win'.open =>
       \A d \in Calls \ {c} : stage[d] = "open" /\ req[d].window = win.id => req[d].conn # req[c].conn]_vars

-----------------------------------------------------------------------------
\* The browser runs the page's timers, and every call to the site's server
\* ends. Nothing is assumed of the player, the relayer or the chain.
PageRuns(c) == closedPoll(c) \/ receive(c) \/ serve_session(c) \/ serve_payment(c)
FairSpec == Spec /\ \A c \in Calls : WF_vars(PageRuns(c))

\* Once its popup has closed, every request ends, whatever the popup was doing.
ClosedEnds == \A c \in Opens : stage[c] = "open" /\ Closed(c) ~> stage[c] = "done"
=============================================================================
