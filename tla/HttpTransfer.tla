---------------------------- MODULE HttpTransfer ----------------------------
(***************************************************************************)
(* CurlHttpClient::get of curl_http_client.cpp: one transfer, its three    *)
(* callbacks, which libcurl calls on the worker thread, and a stop that    *)
(* the interface thread may request at any moment.                         *)
(*                                                                         *)
(* libcurl follows redirects itself: a transfer is a sequence of           *)
(* responses, of which the last is final.  The others are redirects and    *)
(* interim answers; their bodies never reach the callbacks.                *)
(***************************************************************************)
EXTENDS Integers

CONSTANTS
  Limit,         \* maximum_body_size
  SizeMax,       \* the largest std::size_t
  Names,         \* the header fields that are of interest
  MaxResponses   \* bound: maximum_redirects and the interim answers

ASSUME SizesAssumption == SizeMax \in Nat /\ Limit \in 0 .. SizeMax
ASSUME ResponsesAssumption == MaxResponses \in Nat

VARIABLES
  pc,        \* where get is: "setup", "perform", "report" or "done"
  response,  \* how many responses have begun
  final,     \* the response under way is the final one
  sent,      \* the bytes of its body the callback was given
  headers,   \* context.headers: the response each field is from, or 0
  body,      \* context.body, its size
  tooLarge,  \* context.body_too_large
  stop,      \* the token was asked to stop
  code,      \* what curl_easy_perform returned, or "none"
  result     \* what get returned, or "none"

server == <<response, final, sent>>
context == <<headers, body, tooLarge>>
vars == <<pc, server, context, stop, code, result>>

Init ==
  /\ pc = "setup" /\ response = 0 /\ final = FALSE /\ sent = 0
  /\ headers = [n \in Names |-> 0] /\ body = 0 /\ tooLarge = FALSE
  /\ stop = FALSE /\ code = "none" /\ result = "none"

-----------------------------------------------------------------------------
(* libcurl or the handle cannot be initialized, or a header not appended: *)
(* the only errors that do not ask whether the transfer was cancelled.    *)
SetupFails ==
  /\ pc = "setup" /\ pc' = "done" /\ result' = "transport"
  /\ UNCHANGED <<server, context, stop, code>>

Perform ==
  /\ pc = "setup" /\ pc' = "perform"
  /\ UNCHANGED <<server, context, stop, code, result>>

(* curl_easy_perform returns. *)
Ends(c) == code' = c /\ pc' = "report"

(* write_header on a status line: what an earlier response said is gone.   *)
(* (HeadersKept: it is not.)                                               *)
HeadersKept == headers
NoHeaders == [n \in Names |-> 0]

StatusLine ==
  /\ pc = "perform" /\ ~final /\ response < MaxResponses
  /\ response' = response + 1 /\ final' \in BOOLEAN
  /\ headers' = NoHeaders
  /\ UNCHANGED <<pc, sent, body, tooLarge, stop, code, result>>

(* write_header on a field, also on one that follows the body. *)
Header(n) ==
  /\ pc = "perform" /\ response > 0
  /\ headers' = [headers EXCEPT ![n] = response]
  /\ UNCHANGED <<pc, server, body, tooLarge, stop, code, result>>

(* write_body refuses a chunk that does not fit.  libcurl passes elements  *)
(* of one byte, so that their size times their number does not overflow.   *)
(* (FitsBelow: off by one at the limit.  FitsWrapping: the sum of two      *)
(* sizes may overflow.)                                                    *)
Smaller(a, b) == IF a < b THEN a ELSE b
FitsBelow(bytes) == bytes < Limit - Smaller(body, Limit)
FitsWrapping(bytes) == (body + bytes) % (SizeMax + 1) <= Limit
Fits(bytes) == bytes <= Limit - Smaller(body, Limit)

Chunk(bytes) ==
  /\ pc = "perform" /\ final
  /\ sent' = sent + bytes
  /\ \/ /\ Fits(bytes)
        /\ body' = body + bytes
        /\ UNCHANGED <<pc, tooLarge, code>>
     \/ /\ ~Fits(bytes)
        /\ tooLarge' = TRUE /\ Ends("write_error")
        /\ UNCHANGED body
  /\ UNCHANGED <<response, final, headers, stop, result>>

(* The server has sent everything. *)
Complete ==
  /\ pc = "perform" /\ final /\ Ends("ok")
  /\ UNCHANGED <<server, context, stop, result>>

(* A timeout, a certificate that does not verify, a lost connection, one   *)
(* redirect too many or one that does not use HTTPS.                       *)
Breaks ==
  /\ pc = "perform" /\ \E c \in {"timeout", "tls", "other"} : Ends(c)
  /\ UNCHANGED <<server, context, stop, result>>

(* progress_callback, which libcurl calls again and again, sees the stop. *)
(* (ProgressIdle: it always lets the transfer go on.)                     *)
ProgressIdle == FALSE /\ UNCHANGED vars
Progress ==
  /\ pc = "perform" /\ stop /\ Ends("aborted")
  /\ UNCHANGED <<server, context, stop, result>>

(* curl_error.                                                             *)
(* (ErrorOfCode: a stop is only reported when the callback has seen it.)   *)
Kind(c) == IF c \in {"timeout", "tls"} THEN c ELSE "transport"
ErrorOfCode ==
  IF tooLarge THEN "too_large" ELSE IF code = "aborted" THEN "cancelled" ELSE Kind(code)
CurlError ==
  IF tooLarge THEN "too_large"
  ELSE IF stop \/ code = "aborted" THEN "cancelled" ELSE Kind(code)

Return ==
  /\ pc = "report" /\ pc' = "done"
  /\ result' = IF code = "ok" THEN "response" ELSE CurlError
  /\ UNCHANGED <<server, context, stop, code>>

(* request_stop, on the interface thread. *)
RequestStop ==
  /\ ~stop /\ pc # "done" /\ stop' = TRUE
  /\ UNCHANGED <<pc, server, context, code, result>>

Callback ==
  \/ StatusLine \/ Progress
  \/ \E n \in Names : Header(n)
  \/ \E bytes \in 0 .. SizeMax : Chunk(bytes)

Next == SetupFails \/ Perform \/ Callback \/ Complete \/ Breaks \/ Return \/ RequestStop

(* The worker goes on by itself, and libcurl calls progress_callback again *)
(* and again while a transfer lasts; a server may never send anything.     *)
Fairness == WF_vars(Perform) /\ WF_vars(Progress) /\ WF_vars(Return)
FairSpec == Init /\ [][Next]_vars /\ Fairness

-----------------------------------------------------------------------------
TypeOK ==
  /\ pc \in {"setup", "perform", "report", "done"}
  /\ response \in 0 .. MaxResponses /\ final \in BOOLEAN /\ sent \in Nat
  /\ headers \in [Names -> 0 .. MaxResponses]
  /\ body \in 0 .. Limit /\ tooLarge \in BOOLEAN /\ stop \in BOOLEAN
  /\ code \in {"ok", "write_error", "timeout", "tls", "other", "aborted", "none"}
  /\ result \in {"response", "too_large", "cancelled", "timeout", "tls", "transport", "none"}

(* What get returns as a response is the final one and all of it: no chunk *)
(* is missing from the body, and no field is from a redirect, whose        *)
(* Cache-Control or ETag would be taken for those of the document.         *)
ResponseIsWhole ==
  result = "response" =>
    /\ final /\ body = sent
    /\ \A n \in Names : headers[n] \in {response, 0}

(* A body is refused when it is beyond the limit and only then, one of     *)
(* exactly the limit included, however it is cut into chunks.              *)
RefusedBeyondLimit == pc \in {"report", "done"} => (tooLarge <=> sent > Limit)

(* A transfer the user has stopped is never reported as an outage, which   *)
(* would make the lookup try another service and the bootstrap fall back   *)
(* to the cache; and none is reported as cancelled without the user.       *)
StopIsNoOutage ==
  /\ result \in {"timeout", "tls", "transport"} /\ code # "none" => ~stop
  /\ result = "cancelled" => stop

(* A stop ends the transfer although the server may send nothing at all.   *)
StopEnds == stop ~> pc = "done"

=============================================================================
