---------------------------- MODULE SeatRotation ----------------------------
(***************************************************************************)
(* Who sits where in a group's games (matchmaker.cc, StartGroupGame).      *)
(* Members are numbers, in the order of their names; a builtin may be in   *)
(* the group twice.                                                        *)
(***************************************************************************)
EXTENDS Naturals, Sequences, FiniteSets, SequencesExt, Combinatorics

Orders(q) ==
  {[i \in DOMAIN q |-> q[p[i]]] : p \in Injection(DOMAIN q, DOMAIN q)}
ByName(members) ==
  CHOOSE q \in Orders(members) : \A i, j \in DOMAIN q : i < j => q[i] <= q[j]

(* Lexicographic order, which std::next_permutation walks from the sorted    *)
(* sequence on, back to it after the last.                                   *)
Below(q, r) ==
  \E i \in DOMAIN q : q[i] < r[i] /\ \A j \in 1 .. i - 1 : q[j] = r[j]
Permuted(sorted, times) ==
  LET all == Orders(sorted)
  IN  CHOOSE q \in all :
        Cardinality({r \in all : Below(r, q)}) = times % Cardinality(all)

Rotated(q, k) == SubSeq(q, k + 1, Len(q)) \o SubSeq(q, 1, k)

(* Every n games are the n rotations of one order of the rest behind the     *)
(* first; the next n take the next order.                                    *)
Seating(members, played) ==
  LET seats == ByName(members)
      n == Len(members)
      p == played % factorial[n]
  IN  Rotated(<<Head(seats)>> \o Permuted(Tail(seats), p \div n), p % n)

-----------------------------------------------------------------------------
(* matchmaker.h, StartGroupGame: "across the games a group plays, each       *)
(* member has each seat once in every |seats| games, and every order of the  *)
(* others comes round".  A name that is twice in the group has each seat     *)
(* twice.                                                                    *)
Times(x, q) == Cardinality({i \in DOMAIN q : q[i] = x})
EachSeatOnce(series, members) ==
  LET n == Len(members)
  IN  \A block \in 0 .. (Len(series) \div n) - 1 : \A seat, m \in 1 .. n :
        Times(members[m], [g \in 1 .. n |-> series[block * n + g][seat]]) = Times(members[m], members)
EveryOrderComes(series, members) == Range(series) = Orders(members)

ASSUME SeatsGoRound ==
  \A members \in {<<2, 1>>, <<1, 1>>, <<3, 1, 2>>, <<2, 1, 2>>, <<4, 2, 3, 1>>} :
    LET series == [g \in 1 .. factorial[Len(members)] |-> Seating(members, g - 1)]
    IN  EachSeatOnce(series, members) /\ EveryOrderComes(series, members)

=============================================================================
