----------------------------- MODULE MCSwissRun -----------------------------
(* An instance of SwissRun: three versions and a builtin among them.         *)
EXTENDS SwissRun

CONSTANTS a, b, c, bot

FourEntries == <<a, b, bot, c>>

=============================================================================
