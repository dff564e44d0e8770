----------------------------- MODULE MCPrefillJobs ---------------------------
(* PrefillJobs for TLC.                                                       *)
EXTENDS PrefillJobs

\* Two keys, for a prompt of two blocks and for its first block alone: the
\* jobs and the lookups share a boundary, and both snapshots just fit.
MCHash == {1, 2}
MCSize == <<1, 2>>
MCChains == {<<1>>, <<1, 2>>}
MCRequest == {1, 2}
MCChainOf == <<<<1, 2>>, <<1>>>>
MCEstimate == <<2, 1>>
==============================================================================
