---------------------------- MODULE MCAutoUpdate ----------------------------
(* Two containers, one card, two crossing runs of the updater.             *)
EXTENDS AutoUpdate, TLC

CONSTANTS ingester, board, m, u1, u2

MCProcesses == {ingester, board}
MCUpdaters == {u1, u2}
=============================================================================
