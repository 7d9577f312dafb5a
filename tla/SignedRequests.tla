--------------------------- MODULE SignedRequests ---------------------------
(***************************************************************************)
(* The signature that the daemon and the merchant's shop put on their      *)
(* requests to each other: an HMAC over the method, the path, the query of *)
(* a GET or the body of a POST, and the time of signing.  The daemon signs *)
(* webhooks and checks the calls of the private API; the client library    *)
(* signs those calls and checks webhooks.                                  *)
(***************************************************************************)
EXTENDS Integers, Sequences

CONSTANTS
  Keys,          \* shared secrets
  MaxAge         \* max_age_seconds of an HmacConfig

ASSUME MaxAgeAssumption == MaxAge \in Nat

(* A header that is not there, and one that cannot be decoded.             *)
NoTimestamp == -1
BadTimestamp == -2
NoSignature == <<>>
BadSignature == <<"garbled">>

(* A request before it is signed.                                          *)
Unsigned(method, path, query, body) ==
  [method |-> method, path |-> path, query |-> query, body |-> body,
   timestamp |-> NoTimestamp, signature |-> NoSignature]

(* sorted_query_string: the pairs are sorted by key, and pairs of the same *)
(* key keep their order.  So two queries sort alike when they agree on the *)
(* pairs of each key.                                                      *)
sorted_query_string(query) ==
  [k \in {query[n][1] : n \in DOMAIN query} |->
     SelectSeq(query, LAMBDA pair : pair[1] = k)]

(* hmac_from_request_parts; an HMAC is as good as what it was made from.   *)
hmac_from_request_parts(key, r) ==
  <<key, r.method, r.path,
    IF r.method = "GET" THEN sorted_query_string(r.query) ELSE r.body,
    r.timestamp>>

SupportedMethods == {"GET", "POST"}

(* add_headers_to_reqwest                                                  *)
add_headers_to_reqwest(key, r, now) ==
  LET stamped == [r EXCEPT !.timestamp = now]
  IN  [stamped EXCEPT !.signature = hmac_from_request_parts(key, stamped)]

(* validate_timestamp: saturating_sub, so a stamp of the future has age 0. *)
Age(timestamp, now) == IF timestamp > now THEN 0 ELSE now - timestamp

(* validate_request: the first thing that is wrong, or "Ok".               *)
validate_request(key, r, now) ==
  CASE r.signature = NoSignature -> "MissingSignature"
    [] r.signature = BadSignature -> "InvalidSignatureFormat"
    [] r.timestamp = NoTimestamp -> "MissingTimestamp"
    [] r.method \notin SupportedMethods -> "MethodNotAllowed"
    [] r.timestamp = BadTimestamp -> "InvalidTimestampFormat"
    [] Age(r.timestamp, now) > MaxAge -> "RequestExpired"
    [] r.signature # hmac_from_request_parts(key, r) -> "SignatureMismatch"
    [] OTHER -> "Ok"
=============================================================================
