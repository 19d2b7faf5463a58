--------------------------- MODULE MCMatchmaking ---------------------------
(* An instance of Matchmaking: four versions of three authors.  The ratings  *)
(* it leaves open are compared in RatingExamples, evaluated with this module. *)
EXTENDS Matchmaking, RatingExamples

CONSTANTS v1, v2, v3, v4, bot, ann, bob, cyd

AuthorOf == [x \in {v1, v2, v3, v4, bot} |->
               CASE x = v1 -> ann [] x = v4 -> cyd [] x = bot -> bot [] OTHER -> bob]

=============================================================================
