---------------------------- MODULE MCHostCollection ----------------------------
(******************************************************************************)
(* Two cores and two contents of /proc/meminfo: a host with swap, and one     *)
(* without, whose MemAvailable exceeds its total and whose SwapFree could not *)
(* be parsed.                                                                 *)
(******************************************************************************)
EXTENDS HostCollection, TLC

CONSTANTS c0, c1

MCCores == {c0, c1}
MCMemInfos ==
  {("MemTotal" :> 4 @@ "MemAvailable" :> 1 @@ "SwapTotal" :> 2 @@ "SwapFree" :> 1),
   ("MemTotal" :> 4 @@ "MemAvailable" :> 5 @@ "SwapTotal" :> 0)}
Symmetry == Permutations(MCCores)
=============================================================================
