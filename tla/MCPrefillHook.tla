---------------------------- MODULE MCPrefillHook ----------------------------
(* PrefillHook for TLC: two first appends, one a prefix of the other.         *)
EXTENDS PrefillHook

MCHash == {1, 2}
MCSize == <<1, 2>>
MCChains == {<<1>>, <<1, 2>>}
MCCall == {1, 2}
MCPrompt == <<<<1, 2>>, <<1>>>>
==============================================================================
