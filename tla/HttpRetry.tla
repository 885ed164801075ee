----------------------------- MODULE HttpRetry -----------------------------
(***************************************************************************)
(* BaseClient.request_json() of clients/base.py, as far as its callers can *)
(* tell.  Upstream lets a number of attempts in a row down - timeouts,     *)
(* transport errors, the statuses 429, 500, 502, 503, 504 - and then gives *)
(* its last word: an answer, a refusal (another error status, or a         *)
(* Tautulli wrapper whose result is not "success") or a body that cannot   *)
(* be parsed.  The loop gives up after MaxRetries attempts; the waits      *)
(* between them are not modelled.                                          *)
(***************************************************************************)
EXTENDS Naturals

CONSTANT MaxRetries    \* attempts per request

ASSUME RetryAssumption == MaxRetries \in Nat \ {0}

Reply == [glitches : 0 .. MaxRetries, last : {"answer", "refusal", "garbage"}]

(* Mutant of Outcome: the loop ends one attempt early. *)
OutcomeHasty(reply) ==
  IF reply.glitches + 1 >= MaxRetries THEN "UpstreamError"
  ELSE IF reply.last = "answer" THEN "data"
  ELSE IF reply.last = "refusal" THEN "UpstreamError"
  ELSE "ValueError"

\* What the caller gets: data, an UpstreamError, or the error of the parser,
\* which is not an UpstreamError.
Outcome(reply) ==
  IF reply.glitches >= MaxRetries THEN "UpstreamError"
  ELSE IF reply.last = "answer" THEN "data"
  ELSE IF reply.last = "refusal" THEN "UpstreamError"
  ELSE "ValueError"
=============================================================================
