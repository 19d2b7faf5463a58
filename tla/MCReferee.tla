----------------------------- MODULE MCReferee ------------------------------
(***************************************************************************)
(* A match of two bots for two games, and a stray second connection of one *)
(* of them; or of two builtins, which there are or are not.                 *)
(***************************************************************************)
EXTENDS Referee

MCBuiltins == <<>>
MCBotlessSeats == <<1, 1>>
MCStrays ==
  {[name |-> 1, game |-> TRUE, opponents |-> <<<<"player", 2>>>>],      \* again
   [name |-> 3, game |-> TRUE, opponents |-> <<<<"builtin", 8>>>>],     \* a game of its own
   [name |-> 2, game |-> TRUE, opponents |-> <<<<"player", 2>>>>]}      \* two seats

(* What the theorem on the seats asks of the Hellos is so of these.           *)
ASSUME MCNamesApart == NamesApart

=============================================================================
