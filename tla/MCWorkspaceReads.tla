------------------------- MODULE MCWorkspaceReads --------------------------
(* WorkspaceReads for TLC: every list, three rows, pages of one and of two *)
(* and as many writes as rows, and one more.                               *)
EXTENDS WorkspaceReads

WestOfUTC == -1
=============================================================================
