--------------------------- MODULE InboundAdmission ---------------------------
(***************************************************************************)
(* The checks of a request's head before anything is done for it           *)
(* (inbound.rs), in their order, and the status each refusal is given      *)
(* (errors.rs map_inbound).  A head is what hyper has parsed; sizes are in *)
(* abstract units.                                                         *)
(***************************************************************************)
EXTENDS Integers, Sequences

CONSTANTS MaxTarget,     \* MAX_TARGET_BYTES
          MaxHeaders,    \* MAX_HEADER_COUNT
          MaxHeaderBytes, \* MAX_HEADER_BYTES
          MaxBody,       \* MAX_BODY_BYTES
          MaxU64         \* the largest u64

ASSUME LimitsAssumption ==
    /\ MaxTarget \in Nat /\ MaxHeaders \in Nat /\ MaxHeaderBytes \in Nat
    /\ MaxBody \in Nat /\ MaxU64 \in Nat

Bodied  == {"POST", "PATCH", "PUT"}
Methods == Bodied \cup {"GET", "HEAD", "DELETE"}

\* A Content-Length field: whether it is all digits, and the number they write.
Lengths == [digits : BOOLEAN, value : Nat]

Heads == [origin  : BOOLEAN,         \* origin-form: neither scheme nor authority
          target  : Nat,             \* bytes of path and query
          headers : Nat,             \* fields
          bytes   : Nat,             \* their serialized size
          control : BOOLEAN,         \* a value holds a forbidden control byte
          lengths : Seq(Lengths),    \* the Content-Length fields
          chunked : BOOLEAN,         \* Transfer-Encoding is present
          expects : BOOLEAN,         \* Expect is present
          upgrade : BOOLEAN]         \* Upgrade, or "upgrade" in Connection

\* parse_content_length accumulates with checked arithmetic.
Parses(l) == l.digits /\ l.value <= MaxU64

\* Seeded fault: fields that disagree are not compared.
LengthRefusalFirst(method, lengths) ==
    IF lengths # <<>> /\ ~Parses(lengths[1]) THEN "invalid_length"
    ELSE IF method \notin Bodied /\ lengths # <<>> /\ lengths[1].value # 0
         THEN "body_not_allowed" ELSE "none"

\* validate_content_length looks at every field, in order: the first that does
\* not parse or disagrees with the first decides.
LengthRefusal(method, lengths) ==
    LET bad == {i \in DOMAIN lengths :
                   ~Parses(lengths[i]) \/ lengths[i].value # lengths[1].value}
    IN  IF bad # {}
        THEN LET i == CHOOSE j \in bad : \A k \in bad : j <= k
             IN  IF Parses(lengths[i]) THEN "conflicting_length" ELSE "invalid_length"
        ELSE IF method \notin Bodied /\ lengths # <<>> /\ lengths[1].value # 0
             THEN "body_not_allowed" ELSE "none"

\* validate_headers_with_body; a body is allowed for the methods that have one.
HeaderRefusal(method, h) ==
    IF h.headers > MaxHeaders         THEN "header_count"
    ELSE IF h.control                 THEN "invalid_header"
    ELSE IF h.bytes > MaxHeaderBytes  THEN "header_bytes"
    ELSE IF LengthRefusal(method, h.lengths) # "none" THEN LengthRefusal(method, h.lengths)
    ELSE IF h.chunked                 THEN "transfer_encoding"
    ELSE IF h.expects                 THEN "expectation"
    ELSE IF h.upgrade                 THEN "upgrade"
    ELSE "none"

\* What the two validators begin with.
TargetRefusal(method, h, methods) ==
    IF ~h.origin                  THEN "route"
    ELSE IF method \notin methods THEN "method"
    ELSE IF h.target > MaxTarget  THEN "target"
    ELSE "none"

\* The body hyper will read: none without a length, which a chunked one lacks.
Body(h) == IF h.lengths = <<>> THEN 0 ELSE h.lengths[1].value

\* validate_distribution_request.  A body without a length would be chunked and
\* has been refused.
DistributionRefusal(method, h) ==
    LET target  == TargetRefusal(method, h, Methods)
        headers == HeaderRefusal(method, h)
    IN  IF target # "none"       THEN target
        ELSE IF headers # "none" THEN headers
        ELSE IF method \in Bodied /\ Body(h) > MaxBody THEN "body_too_large"
        ELSE "none"

\* validate_autoindex_request.
AutoindexRefusal(method, h) ==
    LET target == TargetRefusal(method, h, {"GET", "HEAD"})
    IN  IF target # "none" THEN target ELSE HeaderRefusal(method, h)

\* map_inbound.
InboundStatus(refusal) ==
    CASE refusal = "route"                              -> "not_found"
      [] refusal = "method"                             -> "method"
      [] refusal = "target"                             -> "target_too_long"
      [] refusal \in {"header_count", "header_bytes"}   -> "headers_too_large"
      [] refusal = "body_too_large"                     -> "too_large"
      [] refusal = "expectation"                        -> "expectation"
      [] OTHER                                          -> "bad_request"
=============================================================================
