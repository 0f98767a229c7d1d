--------------------------------- MODULE Board ---------------------------------
(***************************************************************************)
(* A board of monitor_connection.py: how often an endpoint, an SNI or a    *)
(* method worked.  The three boards are alike and record_result() adds to  *)
(* each under one lock, so this is one of them.  A board is a sequence of  *)
(* cells [key, ok, fail] in the order of the dictionary, by insertion.     *)
(***************************************************************************)
EXTENDS Integers, Sequences, FiniteSets

CONSTANTS
  KEYS,        \* endpoints, SNIs or methods; the order of texts is that of numbers
  BOARD_CAP,   \* _BOARD_CAP
  MAX_RESULTS  \* bound on the number of results

ASSUME BoardAssumption ==
  KEYS \subseteq Int /\ BOARD_CAP \in Nat \ {0} /\ MAX_RESULTS \in Nat

VARIABLES
  board,
  results,  \* history: every result so far, [key, ok]
  came      \* history: whenever a key came onto the board, [key, at], at the how many-th result

bvars == <<board, results, came>>

Outcomes == [key : KEYS, ok : BOOLEAN]
Cells == [key : KEYS, ok : Nat, fail : Nat]
Arrivals == [key : KEYS, at : Nat \ {0}]
CellsOf(b) == {b[i] : i \in DOMAIN b}
Knows(b, key) == \E c \in CellsOf(b) : c.key = key

Count(cell, ok) == IF ok THEN [cell EXCEPT !.ok = @ + 1] ELSE [cell EXCEPT !.fail = @ + 1]
NewCell(key) == [key |-> key, ok |-> 0, fail |-> 0]

Added(b, r) ==
  IF Knows(b, r.key) THEN [i \in DOMAIN b |-> IF b[i].key = r.key THEN Count(b[i], r.ok) ELSE b[i]]
  ELSE Append(b, Count(NewCell(r.key), r.ok))

\* Mutant: the newest key has to go.
PruneNewest(b) == SubSeq(b, 1, IF Len(b) > BOARD_CAP THEN BOARD_CAP ELSE Len(b))

\* The oldest keys go until the cap is kept.
Prune(b) == IF Len(b) > BOARD_CAP THEN SubSeq(b, Len(b) - BOARD_CAP + 1, Len(b)) ELSE b

BInit == board = <<>> /\ results = <<>> /\ came = <<>>

RecordResult(r) ==
  /\ Len(results) < MAX_RESULTS
  /\ board' = Prune(Added(board, r))
  /\ results' = Append(results, r)
  /\ came' = IF Knows(board, r.key) THEN came
             ELSE Append(came, [key |-> r.key, at |-> Len(results) + 1])

BNext == \E r \in Outcomes : RecordResult(r)
BSpec == BInit /\ [][BNext]_bvars

-----------------------------------------------------------------------------
(* The ranking. *)

\* The rate in thousandths, rounded; of two that are equally near the larger.
Total(cell) == cell.ok + cell.fail
Rate(cell) == IF Total(cell) = 0 THEN 0 ELSE (2000 * cell.ok + Total(cell)) \div (2 * Total(cell))

\* Mutant: the more results come first, whatever the rate.
BeforeByTotal(a, b) == Total(a) > Total(b) \/ (Total(a) = Total(b) /\ a.key < b.key)

\* The better rate, then the more results, then the key.
Before(a, b) ==
  \/ Rate(a) > Rate(b)
  \/ Rate(a) = Rate(b) /\ Total(a) > Total(b)
  \/ Rate(a) = Rate(b) /\ Total(a) = Total(b) /\ a.key < b.key

\* sorted(), cut at limit.
Ranked(b, limit) ==
  LET sorted == CHOOSE s \in [DOMAIN b -> CellsOf(b)] :
                  \A i, j \in DOMAIN b : i < j => Before(s[i], s[j])
  IN  SubSeq(sorted, 1, IF limit < Len(b) THEN limit ELSE Len(b))

-----------------------------------------------------------------------------
(* Correctness. *)

\* Type invariant.
BTypeOK ==
  /\ board \in Seq(Cells) /\ results \in Seq(Outcomes)
  /\ came \in Seq(Arrivals)

\* How many of the results rs, from a certain one on, are this one.
Hits(rs, key, ok, from) == Cardinality({k \in from .. Len(rs) : rs[k] = [key |-> key, ok |-> ok]})

\* The cells are those of the keys that came last, as many as the cap lets, in
\* the order they came: what goes came first, however well it does.
LatestComers ==
  /\ Len(board) = IF Len(came) < BOARD_CAP THEN Len(came) ELSE BOARD_CAP
  /\ \A i \in DOMAIN board : board[i].key = came[Len(came) - Len(board) + i].key

\* A cell counts the results of its key since the key last came in, so one that
\* was evicted starts over.
CountsExact ==
  \A i \in DOMAIN board :
    LET from == came[Len(came) - Len(board) + i].at
    IN  /\ board[i].ok = Hits(results, board[i].key, TRUE, from)
        /\ board[i].fail = Hits(results, board[i].key, FALSE, from)

\* No key stands on the board twice, and that of the latest result stands there.
KeysOnce ==
  /\ \A i, j \in DOMAIN board : board[i].key = board[j].key => i = j
  /\ results # <<>> => Knows(board, results[Len(results)].key)

\* The ranking, however long, shows cells of the board, each once, none above one
\* with a better rate, or with the same rate and more results; and what it leaves
\* out does no better than what it shows.
RankedRight ==
  \A limit \in 0 .. Len(board) :
    LET shown == Ranked(board, limit)
    IN  /\ Len(shown) = limit
        /\ \A i \in 1 .. limit :
             /\ shown[i] \in CellsOf(board)
             /\ \A c \in CellsOf(board) \ {shown[j] : j \in 1 .. i} :
                  \/ Rate(shown[i]) > Rate(c)
                  \/ Rate(shown[i]) = Rate(c) /\ Total(shown[i]) >= Total(c)

\* What the boards tell is exact as far as they go (record_result(), _prune_board()
\* and _ranked(), monitor_connection.py:134-139, 227-275).
BoardExact == LatestComers /\ CountsExact /\ KeysOnce /\ RankedRight
=============================================================================
