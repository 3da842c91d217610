--------------------------- MODULE ServiceErrors ---------------------------
(***************************************************************************)
(* The errors of a call to another service: how an HTTP status or a        *)
(* transport failure becomes a ServiceCallError (packages/core, errors.py  *)
(* and base_client.py), which of them are retried, and the response that   *)
(* the error handler makes of one (service_error_handlers.py).  Messages,  *)
(* service names and bodies are left out.                                  *)
(***************************************************************************)
EXTENDS Naturals

(* An error is its class and its status_code attribute.                    *)
Error(type, code) == [type |-> type, code |-> code]

Timeout     == Error("timeout", 504)
Unavailable == Error("unavailable", 502)
Unreadable  == Error("response", 502)
NotFound    == Error("not_found", 404)

(* The errors a caller can meet: a status_code of its own has only an      *)
(* error made of a 4xx or of a redirect.                                   *)
Errors == {Timeout, Unavailable, Unreadable, NotFound}
            \cup {Error("bad_request", s) : s \in 400..499 \ {404}}
            \cup {Error("call_error", s) : s \in 100..399 \ 200..299}

(* An exception of the HTTP library that is no TransportError, like its     *)
(* DecodingError: it is not mapped, and ends as a plain 500.               *)
Undecodable == Error("unmapped", 500)

(* A call that returns a value.                                            *)
Success(status) == Error("ok", status)

Results == {Success(s) : s \in 200..299}

(* Mutant: an off-by-one at the boundary between the classes.              *)
MapHttpErrorAbove500(status) ==
  CASE status = 404                    -> NotFound
    [] status \in 400..499 \ {404}     -> Error("bad_request", status)
    [] status > 500                    -> Unavailable
    [] OTHER                           -> Error("call_error", status)

(* _map_http_error, for the statuses raise_for_status refuses.             *)
MapHttpError(status) ==
  CASE status = 404                    -> NotFound
    [] status \in 400..499 \ {404}     -> Error("bad_request", status)
    [] status >= 500                   -> Unavailable
    [] OTHER                           -> Error("call_error", status)

(* _map_transport_error, for "timeout" and every other transport failure.  *)
MapTransportError(exc) == IF exc = "timeout" THEN Timeout ELSE Unavailable

(* The retry predicate.                                                    *)
Transient(e) == e.type \in {"unavailable", "timeout"}

MapServiceErrorToStatus(e) ==
  CASE e.type = "timeout"     -> 504
    [] e.type = "not_found"   -> 404
    [] e.type = "bad_request" -> e.code
    [] OTHER                  -> 502

(* The response: its HTTP status and the status_code in its JSON body.     *)
ErrorResponse(e) == [http |-> MapServiceErrorToStatus(e), body |-> e.code]

=============================================================================
