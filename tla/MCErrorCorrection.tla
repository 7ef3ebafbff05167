-------------------------- MODULE MCErrorCorrection --------------------------
(* Instances of ErrorCorrection for TLC: MSUs of three octets, the fifth of 13.
   Against PCR's thresholds (2 MSUs, 13 octets) two short ones reach N1 only, and
   the long one by itself N2 only. *)
EXTENDS ErrorCorrection

CONSTANTS N1, N2    \* PCR's thresholds

MCMsu == 1 .. MaxMsu
MCOctets == [m \in MCMsu |-> IF m = 5 THEN 13 ELSE 3]
MCBasic == Basic
MCPcr == Pcr(N1, N2)
=============================================================================
