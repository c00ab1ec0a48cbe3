------------------------- MODULE MCRequestHandling -------------------------
(*****************************************************************************)
(* An instance of RequestHandling for TLC: two suitable addresses, and an    *)
(* interface that is down, has one of them, has both, or has none; runs that *)
(* succeed and runs that fail; one request, with which all the rest is       *)
(* interleaved.                                                              *)
(*****************************************************************************)
EXTENDS RequestHandling

CONSTANTS tail, other, public, r1

AllAddresses == {tail, other, public}
TailscaleAddresses == {tail, other}

Found ==
  {[up |-> FALSE, addresses |-> {tail}], [up |-> TRUE, addresses |-> {tail, public}],
   [up |-> TRUE, addresses |-> {tail, other}], [up |-> TRUE, addresses |-> {public}]}

SomeOutcomes ==
  {[status |-> "succeeded", docker |-> "succeeded"],
   [status |-> "failed", docker |-> "not_attempted"]}

OneRequest == {r1}
============================================================================
