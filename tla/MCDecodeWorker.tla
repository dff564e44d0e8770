---------------------------- MODULE MCDecodeWorker ----------------------------
(* DecodeWorker for TLC: two sessions, one prompt block, one importable and   *)
(* one rejected snapshot.                                                     *)
EXTENDS DecodeWorker

MCPrompts == {<<1>>}
MCSnapshots == {<<2>>, <<4>>}
MCBadSnapshots == {<<4>>}

\* Depends on the whole history, so a lost or repeated token changes it.
MCArgmax(h) == 5 + Len(h)
=============================================================================
