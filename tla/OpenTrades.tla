----------------------------- MODULE OpenTrades -----------------------------
(***************************************************************************)
(* get_open_trades: what a tracker that starts reads back of the open rows. *)
(* It asks for the newest rows of all symbols, and for a limited number.    *)
(* The models follow one symbol: the rows of the others that are newer      *)
(* leave it some room within the limit.  Which rows are the newest is open. *)
(***************************************************************************)
EXTENDS Naturals, FiniteSets

CONSTANT RowLimit   \* LIMIT of the query, 50 in the code

ASSUME RowLimitAssumption == RowLimit \in Nat

Rooms == 0 .. RowLimit

\* What the query may return of the open rows of this symbol.
Fetched(open, room) ==
  {S \in SUBSET open : IF Cardinality(open) <= room
                       THEN S = open ELSE Cardinality(S) = room}

\* The rows the limit left out; none, as long as there is room for all.
LeftOutOf(open, fetched, room) ==
  IF Cardinality(open) <= room THEN {} ELSE open \ fetched

=============================================================================
