--------------------------- MODULE MCDesktopShell ---------------------------
(* Instance of DesktopShell for TLC.                                         *)
EXTENDS DesktopShell
=============================================================================
