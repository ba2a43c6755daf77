-------------------------- MODULE ExchangeResponse --------------------------
(***************************************************************************)
(* How an HTTP answer of the exchange becomes the state of an order        *)
(* (apply_exchange_response in src/lib.rs, used by both order paths).      *)
(*                                                                         *)
(* A response keeps what the classification tells apart.  The callers      *)
(* always know the hash of the order they signed, so "ours" is an orderID  *)
(* equal to that hash and "none" one that is missing or not a string.      *)
(***************************************************************************)
EXTENDS Integers

ResponseSpace(codes) ==
  [status  : codes,                               \* HTTP status code
   success : {"true", "false", "none"},           \* body.success
   orderID : {"ours", "other", "empty", "none"},  \* body.orderID
   error   : {"none", "empty", "no_match", "other"},
                                                  \* errorMsg, else error
   exStatus : {"none", "accepting", "other"},     \* body.status; accepting:
                             \* "matched", "delayed", "live" or "unmatched"
   filled  : BOOLEAN,        \* makingAmount or takingAmount says nonzero
   trades  : BOOLEAN]        \* tradeIDs or transactionsHashes is not empty

Http2xx(r) == r.status \in 200 .. 299

\* No order identifier: `as_str().is_none_or(str::is_empty)`.
Nameless(r) == r.orderID \in {"empty", "none"}

\* A definite FAK no-fill, which names the submitted order.
NoMatch(r) ==
  /\ r.error = "no_match"
  /\ r.orderID = "ours"
  /\ r.success # "true"
  /\ r.exStatus = "none"
  /\ ~r.filled
  /\ ~r.trades

\* Mutant: any order's acceptance will do.
AcceptsAny(r) ==
  /\ Http2xx(r)
  /\ r.success = "true"
  /\ r.error \in {"none", "empty"}
  /\ r.exStatus = "accepting"

Accepts(r) ==
  /\ Http2xx(r)
  /\ r.success = "true"
  /\ r.error \in {"none", "empty"}
  /\ r.orderID = "ours"
  /\ r.exStatus = "accepting"

Rejects(r) ==
  \/ r.status \in {200, 400, 422} /\ NoMatch(r)
  \/ /\ r.status \in {400, 401, 403, 404, 422, 429}
     /\ r.success # "true"
     /\ Nameless(r)
  \/ /\ Http2xx(r)
     /\ r.success = "false"
     /\ Nameless(r)

Classify(r) ==
  IF Accepts(r) THEN "accepted" ELSE IF Rejects(r) THEN "rejected" ELSE "unknown"

-----------------------------------------------------------------------------
(* External: what an exchange may answer about the order it was sent.      *)

\* It claims success only for an order it has booked, and then always by name.
Claims(r) == r.success = "true" /\ r.orderID = "ours"

\* It refuses by a client-error status or by success = false, without naming
\* an order; or it names the order and says that nothing was matched.
Refuses(r) ==
  \/ r.success # "true" /\ Nameless(r) /\ r.status < 500
  \/ r.success # "true" /\ r.orderID = "ours" /\ r.error = "no_match"
     /\ ~r.filled /\ ~r.trades /\ r.exStatus = "none"

HonestAbout(state, r) ==
  /\ Claims(r)  => state = "placed"
  /\ Refuses(r) => state = "refused"

-----------------------------------------------------------------------------
(* Properties *)

\* A definite verdict rests on the matching evidence: acceptance on a claim
\* about our order, rejection on a refusal.  Whatever the exchange did, an
\* honest answer is never classified against it.
VerdictFollowsEvidence(r) ==
  /\ Classify(r) = "accepted" => HonestAbout("placed", r) /\ ~HonestAbout("refused", r)
  /\ Classify(r) = "rejected" => HonestAbout("refused", r) /\ ~HonestAbout("placed", r)

\* An answer about our order that reports any execution (a fill, a trade, a
\* status) or success leaves it open or accepts it, and a server error or an
\* answer about somebody else's order decides nothing.
ExecutionIsNeverRejected(r) ==
  /\ r.orderID = "ours" /\ (r.filled \/ r.trades \/ r.exStatus # "none")
       => Classify(r) # "rejected"
  /\ r.success = "true" => Classify(r) # "rejected"
  /\ r.status >= 500 \/ r.orderID = "other" => Classify(r) = "unknown"

=============================================================================
