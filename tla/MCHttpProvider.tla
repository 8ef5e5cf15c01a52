--------------------------- MODULE MCHttpProvider ---------------------------
(* HttpProvider on a small instance: two calls of up to two attempts, a    *)
(* provider closed and opened again.                                       *)
EXTENDS HttpProvider

RetryableDef ==
  [o \in Ops |-> IF o \in Ingests THEN {"RateLimitError"} ELSE {"RateLimitError", "ProviderError"}]
=============================================================================
