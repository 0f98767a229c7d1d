----------------------------- MODULE PartsProofs -----------------------------
(***************************************************************************)
(* Proofs about the boards (Board), the configuration (Config), the        *)
(* candidate lists (Lists), the QUIC stub (Quic) and the hello records     *)
(* (Hello), for any keys, texts, files, calls, bytes and profiles.  The    *)
(* modules share no variable.  Their recursions are functions on an        *)
(* interval of numbers; the first section has what is needed about those.  *)
(***************************************************************************)
EXTENDS Board, Config, Lists, Quic, Hello, FiniteSetTheorems, WellFoundedInduction, TLAPS

-----------------------------------------------------------------------------
(* Induction, recursion and sequences. *)

\* Induction over the natural numbers, for the set P of those a statement holds of.
LEMMA NatSetInduction ==
  ASSUME NEW P \in SUBSET Nat, 0 \in P, \A n \in P : n + 1 \in P
  PROVE  P = Nat
<1> DEFINE T == Nat \ P
<1>1. SUFFICES ASSUME T # {} PROVE FALSE
  OBVIOUS
<1>2. PICK m \in T : \A y \in T : ~ (<<y, m>> \in OpToRel(<, Nat))
  <2>. HIDE DEF T
  <2>1. T \subseteq Nat
    BY DEF T
  <2>. QED BY <1>1, <2>1, WFMin, NatLessThanWellFounded
<1>3. \A y \in T : ~ (y < m)
  BY <1>2 DEF OpToRel
<1>4. m \in Nat /\ m # 0 /\ m - 1 \in Nat /\ m - 1 < m
  OBVIOUS
<1>5. m - 1 \in P
  BY <1>3, <1>4
<1>6. (m - 1) + 1 \in P
  BY <1>5
<1>7. m \in P
  BY <1>6, <1>4
<1> QED BY <1>7

\* f starts with base and follows step up to N.
FollowsTo(f, S, base, N, step) ==
  /\ f \in [0 .. N -> S]
  /\ f[0] = base
  /\ \A n \in 1 .. N : f[n] = step[<<n, f[n - 1]>>]

\* Recursion up to N.
LEMMA RecUpTo ==
  ASSUME NEW S, NEW base \in S, NEW N \in Nat, NEW step \in [(1 .. N) \X S -> S]
  PROVE  \E f : FollowsTo(f, S, base, N, step)
<1> DEFINE Good(k, f) == /\ f \in [0 .. k -> S]
                         /\ f[0] = base
                         /\ \A n \in 1 .. k : f[n] = step[<<n, f[n - 1]>>]
           P == {k \in Nat : k <= N => \E f : Good(k, f)}
<1>1. 0 \in P
  <2>1. Good(0, [n \in 0 .. 0 |-> base])
    OBVIOUS
  <2> QED BY <2>1
<1>2. ASSUME NEW k \in P PROVE k + 1 \in P
  <2>1. SUFFICES ASSUME k + 1 <= N PROVE \E f : Good(k + 1, f)
    OBVIOUS
  <2>2. k \in Nat /\ k + 1 \in 1 .. N
    BY <2>1
  <2>3. PICK f : Good(k, f)
    BY <2>1
  <2> HIDE DEF P
  <2> DEFINE g == [n \in 0 .. k + 1 |-> IF n = k + 1 THEN step[<<k + 1, f[k]>>] ELSE f[n]]
  <2>4. step[<<k + 1, f[k]>>] \in S
    BY <2>2, <2>3
  <2>5. g \in [0 .. k + 1 -> S]
    BY <2>4, <2>2, <2>3
  <2>6. g[0] = base
    BY <2>2, <2>3
  <2>7. ASSUME NEW n \in 1 .. k + 1
        PROVE  g[n] = step[<<n, g[n - 1]>>]
    <3>1. n - 1 \in 0 .. k /\ n - 1 # k + 1 /\ n \in 0 .. k + 1 /\ n - 1 \in 0 .. k + 1
      BY <2>2
    <3>2. g[n - 1] = f[n - 1]
      BY <3>1
    <3>3. g[n] = IF n = k + 1 THEN step[<<k + 1, f[k]>>] ELSE f[n]
      BY <3>1
    <3> HIDE DEF g
    <3>4. CASE n = k + 1
      <4>1. n - 1 = k
        BY <3>4, <2>2
      <4> QED BY <3>2, <3>3, <3>4, <4>1
    <3>5. CASE n # k + 1
      <4>1. n \in 1 .. k
        BY <3>5, <2>2
      <4> QED BY <2>3, <3>2, <3>3, <3>5, <4>1
    <3> QED BY <3>4, <3>5
  <2> HIDE DEF g
  <2>8. Good(k + 1, g)
    BY <2>5, <2>6, <2>7
  <2> QED BY <2>8
<1>3. P = Nat
  <2> HIDE DEF P
  <2>1. P \in SUBSET Nat
    BY DEF P
  <2> QED BY <1>1, <1>2, <2>1, NatSetInduction
<1>4. N \in P /\ N <= N
  BY <1>3
<1> QED BY <1>4 DEF FollowsTo

\* A function with these values follows the step, when the step stays within S.
LEMMA RecTyped ==
  ASSUME NEW S, NEW base \in S, NEW N \in Nat, NEW step \in [(1 .. N) \X S -> S], NEW k,
         k = [n \in 0 .. N |-> k[n]], k[0] = base,
         \A n \in 1 .. N : k[n - 1] \in S => k[n] = step[<<n, k[n - 1]>>]
  PROVE  FollowsTo(k, S, base, N, step)
<1> DEFINE P == {n \in Nat : n <= N => k[n] \in S}
<1>1. 0 \in P
  OBVIOUS
<1>2. ASSUME NEW n \in P PROVE n + 1 \in P
  <2>1. SUFFICES ASSUME n + 1 <= N PROVE k[n + 1] \in S
    OBVIOUS
  <2>2. n \in Nat /\ n + 1 \in 1 .. N /\ (n + 1) - 1 = n /\ k[n] \in S
    BY <2>1
  <2> HIDE DEF P
  <2>3. k[n + 1] = step[<<n + 1, k[n]>>]
    BY <2>2
  <2>4. <<n + 1, k[n]>> \in (1 .. N) \X S
    BY <2>2
  <2> QED BY <2>3, <2>4
<1>3. P = Nat
  <2> HIDE DEF P
  <2>1. P \in SUBSET Nat
    BY DEF P
  <2> QED BY <1>1, <1>2, <2>1, NatSetInduction
<1>4. \A n \in 0 .. N : k[n] \in S
  BY <1>3
<1>5. \A n \in 1 .. N : n - 1 \in 0 .. N
  OBVIOUS
<1> HIDE DEF P
<1> QED BY <1>4, <1>5 DEF FollowsTo

\* Functions with the same values are the same.
LEMMA ExtFun ==
  ASSUME NEW D, NEW f, NEW g, f = [x \in D |-> f[x]], g = [x \in D |-> g[x]], \A x \in D : f[x] = g[x]
  PROVE  f = g
OBVIOUS

\* A sequence by its elements.
LEMMA SeqParts ==
  ASSUME NEW T, NEW s \in Seq(T)
  PROVE  /\ DOMAIN s = 1 .. Len(s) /\ Len(s) \in Nat
         /\ \A i \in DOMAIN s : s[i] \in T
         /\ s = [i \in DOMAIN s |-> s[i]]
<1>1. DOMAIN s = 1 .. Len(s) /\ Len(s) \in Nat
  OBVIOUS
<1>2. \A i \in 1 .. Len(s) : s[i] \in T
  OBVIOUS
<1>3. s \in [1 .. Len(s) -> T]
  OBVIOUS
<1> QED BY <1>1, <1>2, <1>3

\* Sequences with the same elements are the same.
LEMMA SameSeq ==
  ASSUME NEW T, NEW s \in Seq(T), NEW t, t = [i \in DOMAIN s |-> t[i]], \A i \in DOMAIN s : t[i] = s[i]
  PROVE  t = s
<1>1. s = [i \in DOMAIN s |-> s[i]]
  BY SeqParts
<1> QED BY <1>1

\* A function on 1 .. n is a sequence.
LEMMA SeqMade ==
  ASSUME NEW T, NEW n \in Nat, NEW s \in [1 .. n -> T]
  PROVE  s \in Seq(T) /\ DOMAIN s = 1 .. n /\ Len(s) = n
OBVIOUS

\* The empty sequence.
LEMMA SeqEmpty ==
  ASSUME NEW T
  PROVE  <<>> \in Seq(T) /\ DOMAIN <<>> = {} /\ Len(<<>>) = 0
OBVIOUS

-----------------------------------------------------------------------------
(* The boards. *)

\* The parts of BoardExact about the counting, with types and the times of the
\* arrivals: without those a result could be one of before the key came.
BIndInv ==
  /\ BTypeOK /\ LatestComers /\ CountsExact /\ KeysOnce
  /\ \A i \in DOMAIN came : came[i].at <= Len(results)

-----------------------------------------------------------------------------
(* One result more. *)

\* The results of a key from a time on, after one result more.
LEMMA HitsMore ==
  ASSUME BTypeOK, NEW r \in Outcomes, results' = Append(results, r),
         NEW key \in KEYS, NEW ok \in BOOLEAN, NEW from \in 1 .. Len(results) + 1
  PROVE  /\ Hits(results', key, ok, from) =
              IF r = [key |-> key, ok |-> ok] THEN Hits(results, key, ok, from) + 1 ELSE Hits(results, key, ok, from)
         /\ Hits(results, key, ok, from) \in Nat
         /\ from = Len(results) + 1 => Hits(results, key, ok, from) = 0
<1> DEFINE n == Len(results)
           x == [key |-> key, ok |-> ok]
           H == {k \in from .. n : results[k] = x}
           HH == {k \in from .. n + 1 : results'[k] = x}
<1>1. n \in Nat /\ Len(results') = n + 1 /\ results'[n + 1] = r
      /\ \A k \in from .. n : results'[k] = results[k]
  BY DEF BTypeOK
<1>2. IsFiniteSet(H) /\ Cardinality(H) \in Nat
  <2>1. IsFiniteSet(from .. n)
    BY <1>1, FS_Interval
  <2>2. H \in SUBSET (from .. n)
    OBVIOUS
  <2>. HIDE DEF H
  <2>3. IsFiniteSet(H)
    BY <2>1, <2>2, FS_Subset
  <2>. QED BY <2>3, FS_CardinalityType
<1>3. HH = IF r = x THEN H \cup {n + 1} ELSE H
  <2>1. \A k : k \in from .. n + 1 <=> k \in from .. n \/ k = n + 1
    BY <1>1
  <2>. HIDE DEF x, n
  <2>. QED BY <1>1, <2>1
<1>4. n + 1 \notin H
  BY <1>1
<1>5. from = n + 1 => H = {}
  BY <1>1
<1>6. Hits(results, key, ok, from) = Cardinality(H) /\ Hits(results', key, ok, from) = Cardinality(HH)
  BY <1>1 DEF Hits
<1>. HIDE DEF H, HH, n, x
<1>7. Cardinality(HH) = IF r = x THEN Cardinality(H) + 1 ELSE Cardinality(H)
  BY <1>2, <1>3, <1>4, FS_AddElement
<1>. QED BY <1>2, <1>5, <1>6, <1>7, FS_EmptySet DEF n, x

\* The board before it is pruned: the same keys in the same order, and maybe a new
\* one behind them.
LEMMA AddedCells ==
  ASSUME NEW b \in Seq(Cells), NEW r \in Outcomes
  PROVE  LET a == Added(b, r)
         IN  /\ a \in Seq(Cells)
             /\ Knows(b, r.key) =>
                  /\ Len(a) = Len(b)
                  /\ \A i \in 1 .. Len(b) :
                       a[i] = IF b[i].key = r.key THEN Count(b[i], r.ok) ELSE b[i]
             /\ ~Knows(b, r.key) =>
                  /\ Len(a) = Len(b) + 1
                  /\ \A i \in 1 .. Len(b) : a[i] = b[i] /\ b[i].key # r.key
                  /\ a[Len(b) + 1] = Count(NewCell(r.key), r.ok)
<1>1. \A c \in Cells, ok \in BOOLEAN : Count(c, ok) \in Cells
  <2>1. ASSUME NEW c \in Cells PROVE Count(c, TRUE) \in Cells
    BY DEF Cells, Count
  <2>2. ASSUME NEW c \in Cells PROVE Count(c, FALSE) \in Cells
    BY DEF Cells, Count
  <2>. QED BY <2>1, <2>2
<1>2. NewCell(r.key) \in Cells
  BY DEF Cells, NewCell, Outcomes
<1>3. r.ok \in BOOLEAN
  BY DEF Outcomes
<1>4. DOMAIN b = 1 .. Len(b) /\ Len(b) \in Nat
  OBVIOUS
<1>5. CASE Knows(b, r.key)
  <2> DEFINE a == [i \in DOMAIN b |-> IF b[i].key = r.key THEN Count(b[i], r.ok) ELSE b[i]]
  <2>1. a \in [1 .. Len(b) -> Cells]
    BY <1>1, <1>3, <1>4
  <2>2. Added(b, r) = a
    BY <1>5 DEF Added
  <2>3. a \in Seq(Cells) /\ Len(a) = Len(b)
    <3>. HIDE DEF a
    <3>. QED BY <2>1, <1>4
  <2>. QED BY <1>4, <1>5, <2>2, <2>3
<1>6. CASE ~Knows(b, r.key)
  <2>1. Added(b, r) = Append(b, Count(NewCell(r.key), r.ok))
    BY <1>6 DEF Added
  <2>2. Count(NewCell(r.key), r.ok) \in Cells
    BY <1>1, <1>2, <1>3
  <2>3. \A i \in 1 .. Len(b) : b[i].key # r.key
    BY <1>4, <1>6 DEF Knows, CellsOf
  <2> DEFINE e == Count(NewCell(r.key), r.ok)
  <2>4. Append(b, e) \in Seq(Cells) /\ Len(Append(b, e)) = Len(b) + 1
        /\ (\A i \in 1 .. Len(b) : Append(b, e)[i] = b[i]) /\ Append(b, e)[Len(b) + 1] = e
    <3>. HIDE DEF e
    <3>. QED BY <2>2 DEF e
  <2>. QED BY <1>6, <2>1, <2>3, <2>4
<1>. QED BY <1>5, <1>6

\* _prune_board() leaves the last cells.
LEMMA PruneKeeps ==
  ASSUME NEW b \in Seq(Cells)
  PROVE  /\ Prune(b) \in Seq(Cells)
         /\ Len(Prune(b)) = IF Len(b) < BOARD_CAP THEN Len(b) ELSE BOARD_CAP
         /\ Len(Prune(b)) \in 0 .. Len(b)
         /\ \A i \in 1 .. Len(Prune(b)) : Prune(b)[i] = b[Len(b) - Len(Prune(b)) + i]
<1>1. CASE Len(b) > BOARD_CAP
  <2>1. Prune(b) = SubSeq(b, Len(b) - BOARD_CAP + 1, Len(b))
    BY <1>1 DEF Prune
  <2>2. Len(b) \in Nat /\ BOARD_CAP \in Nat
    BY BoardAssumption DEF BoardAssumption
  <2>3. \A i \in Len(b) - BOARD_CAP + 1 .. Len(b) : b[i] \in Cells
    BY <1>1, <2>2
  <2>4. /\ Prune(b) \in Seq(Cells)
        /\ Len(Prune(b)) = BOARD_CAP
        /\ \A i \in 1 .. BOARD_CAP : Prune(b)[i] = b[Len(b) - BOARD_CAP + i]
    BY <1>1, <2>1, <2>2, <2>3
  <2>. QED BY <1>1, <2>2, <2>4
<1>2. CASE ~(Len(b) > BOARD_CAP)
  BY <1>2, BoardAssumption DEF Prune, BoardAssumption
<1>. QED BY <1>1, <1>2

\* A result changes one count of a cell, and nothing else of it.
LEMMA CountKey ==
  ASSUME NEW c \in Cells, NEW ok \in BOOLEAN
  PROVE  /\ Count(c, ok) \in Cells /\ Count(c, ok).key = c.key
         /\ Count(c, ok).ok = IF ok THEN c.ok + 1 ELSE c.ok
         /\ Count(c, ok).fail = IF ok THEN c.fail ELSE c.fail + 1
BY DEF Cells, Count

\* Where a cell of the board comes from: behind the cells that were pruned, one
\* that was there before, or the new one.  Its arrival stands at the same distance
\* from the end of the history as before.
LEMMA CellOrigin ==
  ASSUME BIndInv, NEW r \in Outcomes, RecordResult(r)
  PROVE  LET n == Len(board)
             a == Added(board, r)
             pruned == Len(a) - Len(board')
         IN  /\ Len(board') = IF Len(came') < BOARD_CAP THEN Len(came') ELSE BOARD_CAP
             /\ pruned \in Nat
             /\ ~Knows(board, r.key) => Len(board') + pruned = n + 1
             /\ Knows(board, r.key) => Len(board') = n /\ pruned = 0
             /\ board' \in Seq(Cells) /\ came' \in Seq(Arrivals)
             /\ Len(board') > 0
             /\ \A i \in 1 .. Len(board') :
                  LET j == pruned + i
                      k == Len(came') - Len(board') + i
                  IN  /\ j \in 1 .. n + 1 /\ k \in 1 .. Len(came') /\ k = Len(came) - n + j
                      /\ j <= n =>
                           /\ board'[i] = IF board[j].key = r.key THEN Count(board[j], r.ok) ELSE board[j]
                           /\ k \in 1 .. Len(came) /\ came'[k] = came[k]
                      /\ j = n + 1 =>
                           /\ ~Knows(board, r.key)
                           /\ board'[i] = Count(NewCell(r.key), r.ok)
                           /\ came'[k] = [key |-> r.key, at |-> Len(results) + 1]
<1> DEFINE n == Len(board)
           a == Added(board, r)
           m == Len(a)
           p == Len(board')
           c == Len(came)
           arrival == [key |-> r.key, at |-> Len(results) + 1]
<1>1. board \in Seq(Cells) /\ came \in Seq(Arrivals) /\ results \in Seq(Outcomes)
  BY DEF BIndInv, BTypeOK
<1>2. board' = Prune(a) /\ came' = IF Knows(board, r.key) THEN came ELSE Append(came, arrival)
  BY DEF RecordResult
<1>3. arrival \in Arrivals
  BY <1>1 DEF Outcomes, Arrivals
<1>4. n \in Nat /\ c \in Nat /\ BOARD_CAP \in Nat /\ BOARD_CAP > 0
  BY <1>1, BoardAssumption DEF BoardAssumption
<1>5. n = IF c < BOARD_CAP THEN c ELSE BOARD_CAP
  BY DEF BIndInv, LatestComers
<1>6. /\ a \in Seq(Cells)
      /\ Knows(board, r.key) =>
           /\ m = n
           /\ \A i \in 1 .. n :
                a[i] = IF board[i].key = r.key THEN Count(board[i], r.ok) ELSE board[i]
      /\ ~Knows(board, r.key) =>
           /\ m = n + 1
           /\ \A i \in 1 .. n : a[i] = board[i] /\ board[i].key # r.key
           /\ a[n + 1] = Count(NewCell(r.key), r.ok)
  BY <1>1, AddedCells
<1>7. /\ board' \in Seq(Cells)
      /\ p = IF m < BOARD_CAP THEN m ELSE BOARD_CAP
      /\ p \in 0 .. m
      /\ \A i \in 1 .. p : board'[i] = a[m - p + i]
  BY <1>2, <1>6, PruneKeeps
<1>8. Knows(board, r.key) => n > 0
  BY <1>1 DEF Knows, CellsOf
<1>9. CASE Knows(board, r.key)
  <2>1. m = n /\ came' = came
    BY <1>2, <1>6, <1>9
  <2>2. p = n
    BY <1>4, <1>5, <1>7, <2>1
  <2>. HIDE DEF n, a, m, p, c, arrival
  <2>3. ASSUME NEW i \in 1 .. p
        PROVE  LET j == m - p + i
                   k == Len(came') - p + i
               IN  /\ j \in 1 .. n + 1 /\ k \in 1 .. Len(came') /\ k = c - n + j /\ j <= n
                   /\ board'[i] = IF board[j].key = r.key THEN Count(board[j], r.ok) ELSE board[j]
                   /\ k \in 1 .. c /\ came'[k] = came[k]
    <3>1. m - p + i = i /\ i \in 1 .. n /\ c - p + i \in 1 .. c /\ c - p + i = c - n + i
      BY <1>4, <1>5, <2>1, <2>2
    <3>2. board'[i] = a[i]
      <4>1. board'[i] = a[m - p + i]
        BY <1>7
      <4>. QED BY <3>1, <4>1
    <3>6. i \in 1 .. n + 1
      BY <1>4, <3>1
    <3>3. a[i] = IF board[i].key = r.key THEN Count(board[i], r.ok) ELSE board[i]
      BY <1>6, <1>9, <3>1
    <3>4. Len(came') = c /\ came'[c - p + i] = came[c - p + i]
      BY <2>1 DEF c
    <3>5. i <= n
      BY <1>4, <3>1
    <3>. QED BY <3>1, <3>2, <3>3, <3>4, <3>5, <3>6
  <2>4. p = (IF Len(came') < BOARD_CAP THEN Len(came') ELSE BOARD_CAP) /\ p > 0 /\ m - p \in Nat
    BY <1>4, <1>5, <1>8, <1>9, <2>1, <2>2 DEF c, n
  <2>5. came' \in Seq(Arrivals)
    BY <1>1, <2>1
  <2>6. \A i \in 1 .. p : m - p + i # n + 1
    BY <1>4, <2>1, <2>2
  <2>7. m - p = 0
    BY <1>4, <2>1, <2>2
  <2>. QED BY <1>7, <1>9, <2>2, <2>3, <2>4, <2>7, <2>5, <2>6 DEF n, a, m, p, c, arrival
<1>10. CASE ~Knows(board, r.key)
  <2>1. m = n + 1 /\ came' = Append(came, arrival)
    BY <1>2, <1>6, <1>10
  <2>2. /\ came' \in Seq(Arrivals) /\ Len(came') = c + 1
        /\ \A k \in 1 .. c : came'[k] = came[k]
        /\ came'[c + 1] = arrival
    <3>. HIDE DEF arrival
    <3>. QED BY <1>1, <1>3, <2>1
  <2>3. p = (IF c + 1 < BOARD_CAP THEN c + 1 ELSE BOARD_CAP) /\ p > 0 /\ m - p \in Nat
        /\ p + (m - p) = n + 1
    BY <1>4, <1>5, <1>7, <2>1
  <2>. HIDE DEF n, a, m, p, c, arrival
  <2>4. ASSUME NEW i \in 1 .. p
        PROVE  LET j == m - p + i
                   k == Len(came') - p + i
               IN  /\ j \in 1 .. n + 1 /\ k \in 1 .. Len(came') /\ k = c - n + j
                   /\ j <= n =>
                        /\ board'[i] = IF board[j].key = r.key THEN Count(board[j], r.ok) ELSE board[j]
                        /\ k \in 1 .. c /\ came'[k] = came[k]
                   /\ j = n + 1 => board'[i] = Count(NewCell(r.key), r.ok) /\ came'[k] = arrival
    <3> DEFINE j == m - p + i
               k == c + 1 - p + i
    <3>1. j \in 1 .. n + 1 /\ k \in 1 .. c + 1 /\ k = c - n + j
      BY <1>4, <1>5, <2>1, <2>3
    <3>2. j <= n => j \in 1 .. n /\ k \in 1 .. c
      BY <1>4, <1>5, <2>1, <2>3
    <3>3. j = n + 1 => k = c + 1
      BY <1>4, <3>1
    <3>4. board'[i] = a[j]
      BY <1>7
    <3>5. Len(came') - p + i = k
      <4>1. Len(came') = c + 1
        BY <2>2
      <4>. QED BY <1>4, <2>3, <4>1
    <3>. HIDE DEF j, k
    <3>6. j <= n => board'[i] = board[j] /\ board[j].key # r.key /\ came'[k] = came[k]
      BY <1>6, <1>10, <2>2, <3>2, <3>4
    <3>7. j = n + 1 => board'[i] = Count(NewCell(r.key), r.ok) /\ came'[k] = arrival
      BY <1>6, <1>10, <2>2, <3>3, <3>4
    <3>. QED BY <2>2, <3>1, <3>2, <3>5, <3>6, <3>7 DEF j
  <2>. QED BY <1>7, <1>10, <2>2, <2>3, <2>4 DEF n, a, m, p, c, arrival
<1>. QED BY <1>9, <1>10

\* A result leaves on the board the keys that came last.
LEMMA LatestComersKept ==
  ASSUME BIndInv, NEW r \in Outcomes, RecordResult(r)
  PROVE  LatestComers'
<1>1. ASSUME NEW i \in 1 .. Len(board')
      PROVE  board'[i].key = came'[Len(came') - Len(board') + i].key
  <2> DEFINE j == Len(Added(board, r)) - Len(board') + i
             k == Len(came') - Len(board') + i
  <2>1. /\ j \in 1 .. Len(board) + 1 /\ k = Len(came) - Len(board) + j
        /\ j <= Len(board) =>
             /\ board'[i] = IF board[j].key = r.key THEN Count(board[j], r.ok) ELSE board[j]
             /\ came'[k] = came[k]
        /\ j = Len(board) + 1 =>
             /\ board'[i] = Count(NewCell(r.key), r.ok)
             /\ came'[k] = [key |-> r.key, at |-> Len(results) + 1]
    BY CellOrigin
  <2>2. board \in Seq(Cells) /\ r.ok \in BOOLEAN /\ NewCell(r.key) \in Cells
    BY DEF BIndInv, BTypeOK, Outcomes, Cells, NewCell
  <2>. HIDE DEF j, k
  <2>3. CASE j <= Len(board)
    <3>1. j \in 1 .. Len(board) /\ DOMAIN board = 1 .. Len(board) /\ board[j] \in Cells
      BY <2>1, <2>2, <2>3
    <3>2. board[j].key = came[k].key
      BY <2>1, <3>1 DEF BIndInv, LatestComers
    <3>3. board'[i].key = board[j].key
      BY <2>1, <2>2, <2>3, <3>1, CountKey
    <3>. QED BY <2>1, <2>3, <3>2, <3>3 DEF k
  <2>4. CASE j = Len(board) + 1
    <3>1. board'[i].key = NewCell(r.key).key
      BY <2>1, <2>2, <2>4, CountKey
    <3>. QED BY <2>1, <2>4, <3>1 DEF k, NewCell
  <2>5. Len(board) \in Nat
    BY <2>2
  <2>. QED BY <2>1, <2>3, <2>4, <2>5
<1>2. /\ Len(board') = IF Len(came') < BOARD_CAP THEN Len(came') ELSE BOARD_CAP
      /\ board' \in Seq(Cells)
  BY CellOrigin
<1>3. DOMAIN board' = 1 .. Len(board')
  BY <1>2
<1>. QED BY <1>1, <1>2, <1>3 DEF LatestComers

\* A result puts no key on the board twice, and its own key is there.
LEMMA KeysOnceKept ==
  ASSUME BIndInv, NEW r \in Outcomes, RecordResult(r)
  PROVE  KeysOnce'
<1> DEFINE n == Len(board)
           p == Len(board')
           pruned == Len(Added(board, r)) - p
<1>1. board \in Seq(Cells) /\ r.ok \in BOOLEAN /\ r.key \in KEYS /\ NewCell(r.key) \in Cells
      /\ NewCell(r.key).key = r.key
  BY DEF BIndInv, BTypeOK, Outcomes, Cells, NewCell
<1>2. /\ pruned \in Nat /\ board' \in Seq(Cells) /\ p > 0
      /\ Knows(board, r.key) => p = n /\ pruned = 0
      /\ ~Knows(board, r.key) => p + pruned = n + 1
  BY CellOrigin
<1>3. n \in Nat /\ p \in Nat /\ DOMAIN board = 1 .. n /\ DOMAIN board' = 1 .. p
  BY <1>1, <1>2
<1>4. ASSUME NEW i \in 1 .. p
      PROVE  LET j == pruned + i
             IN  /\ j \in 1 .. n + 1
                 /\ j <= n => board'[i].key = board[j].key
                 /\ j = n + 1 => board'[i].key = r.key /\ ~Knows(board, r.key)
  <2> DEFINE j == pruned + i
  <2>1. /\ j \in 1 .. n + 1
        /\ j <= n => board'[i] = IF board[j].key = r.key THEN Count(board[j], r.ok) ELSE board[j]
        /\ j = n + 1 => board'[i] = Count(NewCell(r.key), r.ok) /\ ~Knows(board, r.key)
    BY CellOrigin
  <2>. HIDE DEF j, n, pruned
  <2>2. j <= n => j \in 1 .. n /\ board[j] \in Cells
    BY <1>1, <1>3, <2>1 DEF n
  <2>. QED BY <1>1, <2>1, <2>2, CountKey DEF j
<1>5. \A j \in 1 .. n : board[j].key = r.key => Knows(board, r.key)
  BY <1>3 DEF Knows, CellsOf
<1>6. \A i, j \in 1 .. n : board[i].key = board[j].key => i = j
  BY <1>3 DEF BIndInv, KeysOnce
<1>. HIDE DEF n, p, pruned
<1>7. ASSUME NEW i \in 1 .. p, NEW ii \in 1 .. p, board'[i].key = board'[ii].key
      PROVE  i = ii
  <2> DEFINE j == pruned + i
             jj == pruned + ii
  <2>1. /\ j \in 1 .. n + 1 /\ jj \in 1 .. n + 1
        /\ j <= n => board'[i].key = board[j].key
        /\ j = n + 1 => board'[i].key = r.key /\ ~Knows(board, r.key)
        /\ jj <= n => board'[ii].key = board[jj].key
        /\ jj = n + 1 => board'[ii].key = r.key /\ ~Knows(board, r.key)
    BY <1>4
  <2>2. j <= n \/ j = n + 1
    BY <1>3, <2>1
  <2>3. jj <= n \/ jj = n + 1
    BY <1>3, <2>1
  <2>4. (j <= n => j \in 1 .. n) /\ (jj <= n => jj \in 1 .. n)
    BY <1>3, <2>1
  <2>5. j = jj => i = ii
    BY <1>2, <1>3
  <2>. HIDE DEF j, jj
  <2>. QED BY <1>5, <1>6, <1>7, <2>1, <2>2, <2>3, <2>4, <2>5
<1>8. Knows(board', r.key)
  <2>1. PICK i \in 1 .. p : board'[i].key = r.key
    <3>1. CASE Knows(board, r.key)
      <4>1. PICK i \in 1 .. n : board[i].key = r.key
        BY <1>3, <3>1 DEF Knows, CellsOf
      <4>2. i \in 1 .. p /\ pruned + i = i /\ i <= n
        BY <1>2, <1>3, <3>1
      <4>. QED BY <1>4, <4>1, <4>2
    <3>2. CASE ~Knows(board, r.key)
      <4>1. p \in 1 .. p /\ pruned + p = n + 1
        BY <1>2, <1>3, <3>2
      <4>. QED BY <1>4, <4>1
    <3>. QED BY <3>1, <3>2
  <2>. QED BY <1>3, <2>1 DEF Knows, CellsOf
<1>9. results'[Len(results')] = r
  BY DEF RecordResult, BIndInv, BTypeOK
<1>. QED BY <1>3, <1>7, <1>8, <1>9 DEF KeysOnce

\* A result keeps all the counts right, with the cells that move down after a pruning.
LEMMA CountsKept ==
  ASSUME BIndInv, NEW r \in Outcomes, RecordResult(r)
  PROVE  CountsExact'
<1> DEFINE n == Len(board)
           p == Len(board')
           pruned == Len(Added(board, r)) - p
<1>1. /\ board \in Seq(Cells) /\ results \in Seq(Outcomes) /\ came \in Seq(Arrivals)
      /\ r.ok \in BOOLEAN /\ r.key \in KEYS
      /\ BTypeOK /\ results' = Append(results, r)
  BY DEF BIndInv, BTypeOK, Outcomes, RecordResult
<1>2. board' \in Seq(Cells) /\ DOMAIN board' = 1 .. p
  <2>1. board' \in Seq(Cells)
    BY CellOrigin
  <2>. QED BY <2>1
<1>3. SUFFICES ASSUME NEW i \in 1 .. p
               PROVE  LET from == came'[Len(came') - p + i].at
                      IN  /\ board'[i].ok = Hits(results', board'[i].key, TRUE, from)
                          /\ board'[i].fail = Hits(results', board'[i].key, FALSE, from)
  BY <1>2 DEF CountsExact
<1> DEFINE j == pruned + i
           k == Len(came') - p + i
<1>4. /\ j \in 1 .. n + 1 /\ k = Len(came) - n + j
      /\ j <= n =>
           /\ board'[i] = IF board[j].key = r.key THEN Count(board[j], r.ok) ELSE board[j]
           /\ k \in 1 .. Len(came) /\ came'[k] = came[k]
      /\ j = n + 1 =>
           /\ board'[i] = Count(NewCell(r.key), r.ok)
           /\ came'[k] = [key |-> r.key, at |-> Len(results) + 1]
  BY CellOrigin
<1>5. n \in Nat /\ DOMAIN board = 1 .. n /\ DOMAIN came = 1 .. Len(came) /\ Len(results) \in Nat
  BY <1>1
<1>. HIDE DEF n, p, pruned, j
<1>6. SUFFICES /\ board'[i].ok = Hits(results', board'[i].key, TRUE, came'[k].at)
               /\ board'[i].fail = Hits(results', board'[i].key, FALSE, came'[k].at)
  OBVIOUS
<1>. HIDE DEF k
<1>7. CASE j <= n
  <2>1. j \in 1 .. n /\ board[j] \in Cells /\ k \in DOMAIN came /\ came'[k] = came[k]
    BY <1>1, <1>4, <1>5, <1>7 DEF n
  <2> DEFINE from == came[k].at
             key == board[j].key
  <2>2. from \in 1 .. Len(results) + 1
    <3>0. came[k] \in Arrivals
      BY <1>1, <1>5, <2>1
    <3>1. came[k].at \in Nat \ {0}
      BY <3>0 DEF Arrivals
    <3>2. came[k].at <= Len(results)
      BY <2>1 DEF BIndInv
    <3>. QED BY <1>5, <3>1, <3>2
  <2>3. board[j].ok = Hits(results, key, TRUE, from) /\ board[j].fail = Hits(results, key, FALSE, from)
    BY <1>4, <1>5, <2>1 DEF BIndInv, CountsExact, n
  <2>4. key \in KEYS /\ board'[i].key = key
    <3>1. Count(board[j], r.ok).key = board[j].key
      BY <1>1, <2>1, CountKey
    <3>2. key \in KEYS
      BY <2>1 DEF Cells
    <3>. QED BY <1>4, <1>7, <3>1, <3>2
  <2>. HIDE DEF from, key
  <2>5. \A ok \in BOOLEAN :
          Hits(results', key, ok, from) = IF r = [key |-> key, ok |-> ok] THEN Hits(results, key, ok, from) + 1
                                 ELSE Hits(results, key, ok, from)
    BY <1>1, <2>2, <2>4, HitsMore
  <2>6. \A ok \in BOOLEAN : r = [key |-> key, ok |-> ok] <=> r.key = key /\ r.ok = ok
    BY DEF Outcomes
  <2>7. board'[i].ok = (IF r.key = key /\ r.ok = TRUE THEN board[j].ok + 1 ELSE board[j].ok)
        /\ board'[i].fail = (IF r.key = key /\ r.ok = FALSE THEN board[j].fail + 1 ELSE board[j].fail)
    <3>0. /\ Count(board[j], TRUE).ok = board[j].ok + 1 /\ Count(board[j], TRUE).fail = board[j].fail
          /\ Count(board[j], FALSE).ok = board[j].ok /\ Count(board[j], FALSE).fail = board[j].fail + 1
      BY <2>1, CountKey
    <3>1. CASE r.ok = TRUE
      BY <1>4, <1>7, <3>0, <3>1 DEF key
    <3>2. CASE r.ok = FALSE
      BY <1>4, <1>7, <3>0, <3>2 DEF key
    <3>. QED BY <1>1, <3>1, <3>2
  <2>8. /\ board'[i].ok = Hits(results', key, TRUE, from) /\ board'[i].fail = Hits(results', key, FALSE, from)
    BY <2>3, <2>5, <2>6, <2>7
  <2>. QED BY <2>1, <2>4, <2>8 DEF from
<1>8. CASE j = n + 1
  <2> DEFINE from == Len(results) + 1
             key == r.key
  <2>1. came'[k].at = from /\ board'[i] = Count(NewCell(key), r.ok)
    BY <1>4, <1>8
  <2>2. NewCell(key) \in Cells /\ NewCell(key).key = key /\ NewCell(key).ok = 0 /\ NewCell(key).fail = 0
    BY <1>1 DEF Cells, NewCell
  <2>3. /\ board'[i].key = key
        /\ board'[i].ok = IF r.ok THEN 1 ELSE 0
        /\ board'[i].fail = IF r.ok THEN 0 ELSE 1
    BY <1>1, <2>1, <2>2, CountKey
  <2>4. \A ok \in BOOLEAN :
          Hits(results', key, ok, from) = IF r = [key |-> key, ok |-> ok] THEN 1 ELSE 0
    <3>1. from \in 1 .. Len(results) + 1 /\ from = Len(results) + 1 /\ key \in KEYS
      BY <1>1, <1>5
    <3>. HIDE DEF from, key
    <3>2. ASSUME NEW ok \in BOOLEAN
          PROVE  /\ Hits(results', key, ok, from) =
                      IF r = [key |-> key, ok |-> ok] THEN Hits(results, key, ok, from) + 1
                      ELSE Hits(results, key, ok, from)
                 /\ Hits(results, key, ok, from) = 0
      BY <1>1, <3>1, HitsMore
    <3>3. 0 + 1 = 1
      OBVIOUS
    <3>. QED BY <3>2, <3>3
  <2>5. \A ok \in BOOLEAN : r = [key |-> key, ok |-> ok] <=> r.ok = ok
    BY DEF Outcomes
  <2>. HIDE DEF from, key
  <2>6. /\ board'[i].ok = Hits(results', key, TRUE, from) /\ board'[i].fail = Hits(results', key, FALSE, from)
    <3>1. CASE r.ok = TRUE
      BY <2>3, <2>4, <2>5, <3>1
    <3>2. CASE r.ok = FALSE
      BY <2>3, <2>4, <2>5, <3>2
    <3>. QED BY <1>1, <3>1, <3>2
  <2>. QED BY <2>1, <2>3, <2>6 DEF from
<1>9. j <= n \/ j = n + 1
  BY <1>4, <1>5
<1>. QED BY <1>7, <1>8, <1>9

-----------------------------------------------------------------------------
(* The ranking of a board. *)

\* Rates and totals are numbers.
LEMMA RateInt ==
  ASSUME NEW c \in Cells
  PROVE  Rate(c) \in Int /\ Total(c) \in Nat
<1>1. c.ok \in Nat /\ c.fail \in Nat
  BY DEF Cells
<1>2. Total(c) \in Nat
  BY <1>1 DEF Total
<1> DEFINE num == 2000 * c.ok + Total(c)
           den == 2 * Total(c)
<1>3. num \in Int
  BY <1>1, <1>2
<1>4. Total(c) # 0 => den \in Int /\ den > 0
  BY <1>2
<1>5. Total(c) # 0 => num \div den \in Int
  <2>. HIDE DEF num, den
  <2>. QED BY <1>3, <1>4
<1>. QED BY <1>2, <1>5 DEF Rate

\* The order of the ranking is a strict total order on cells of different keys.
LEMMA BeforeOrders ==
  ASSUME NEW a \in Cells, NEW b \in Cells, NEW c \in Cells
  PROVE  /\ ~Before(a, a)
         /\ a.key # b.key => Before(a, b) \/ Before(b, a)
         /\ Before(a, b) /\ Before(b, c) => Before(a, c)
<1>1. /\ Rate(a) \in Int /\ Rate(b) \in Int /\ Rate(c) \in Int
      /\ Total(a) \in Int /\ Total(b) \in Int /\ Total(c) \in Int
  BY RateInt
<1>2. a.key \in Int /\ b.key \in Int /\ c.key \in Int
  BY BoardAssumption DEF Cells, BoardAssumption
<1>. QED BY <1>1, <1>2 DEF Before

\* No two cells of C have the same key.
KeysApart(C) == \A c, d \in C : c.key = d.key => c = d

\* Of finitely many cells one comes last.
LEMMA LastCell ==
  ASSUME NEW C \in SUBSET Cells, IsFiniteSet(C), C # {}, KeysApart(C)
  PROVE  \E c \in C : \A d \in C \ {c} : Before(d, c)
<1> DEFINE Last(D) == \E c \in D : \A d \in D \ {c} : Before(d, c)
           P == {n \in Nat : \A D \in SUBSET Cells :
                   IsFiniteSet(D) /\ KeysApart(D) /\ Cardinality(D) = n + 1 => Last(D)}
<1>1. 0 \in P
  <2>1. ASSUME NEW D \in SUBSET Cells, IsFiniteSet(D), Cardinality(D) = 0 + 1
        PROVE  Last(D)
    BY <2>1, FS_Singleton
  <2>. QED BY <2>1
<1>2. ASSUME NEW n \in P PROVE n + 1 \in P
  <2>1. SUFFICES ASSUME NEW D \in SUBSET Cells, IsFiniteSet(D), KeysApart(D),
                        Cardinality(D) = (n + 1) + 1
                 PROVE  Last(D)
    OBVIOUS
  <2>2. n \in Nat
    OBVIOUS
  <2>3. PICK x \in D : TRUE
    BY <2>1, <2>2, FS_EmptySet
  <2> DEFINE E == D \ {x}
  <2>4. IsFiniteSet(E) /\ Cardinality(E) = n + 1
    BY <2>1, <2>2, FS_RemoveElement
  <2>5. E \in SUBSET Cells /\ KeysApart(E)
    BY <2>1 DEF KeysApart
  <2>6. Last(E)
    <3>. HIDE DEF E, Last
    <3>. QED BY <2>4, <2>5
  <2>7. PICK c \in E : \A d \in E \ {c} : Before(d, c)
    BY <2>6
  <2>8. c.key # x.key
    BY <2>1 DEF KeysApart
  <2>9. CASE Before(x, c)
    <3>1. \A d \in D \ {c} : Before(d, c)
      BY <2>7, <2>9
    <3>. QED BY <3>1
  <2>10. CASE Before(c, x)
    <3>1. ASSUME NEW d \in D \ {x} PROVE Before(d, x)
      <4>1. CASE d = c
        BY <4>1, <2>10
      <4>2. CASE d # c
        <5>1. Before(d, c)
          BY <2>7, <4>2
        <5>. QED BY <5>1, <2>10, BeforeOrders
      <4>. QED BY <4>1, <4>2
    <3>. QED BY <3>1
  <2>. QED BY <2>8, <2>9, <2>10, BeforeOrders
<1>3. P = Nat
  <2>1. P \in SUBSET Nat
    OBVIOUS
  <2>. HIDE DEF P
  <2>. QED BY <1>1, <1>2, <2>1, NatSetInduction
<1>4. Cardinality(C) - 1 \in Nat /\ Cardinality(C) = (Cardinality(C) - 1) + 1
  <2>1. Cardinality(C) \in Nat /\ Cardinality(C) # 0
    BY FS_EmptySet, FS_CardinalityType
  <2>. QED BY <2>1
<1>5. Cardinality(C) - 1 \in P
  BY <1>3, <1>4
<1>. QED BY <1>4, <1>5

\* Finitely many cells can be sorted.
LEMMA CellsSort ==
  ASSUME NEW C \in SUBSET Cells, IsFiniteSet(C), KeysApart(C)
  PROVE  \E s \in [1 .. Cardinality(C) -> C] :
           \A i, j \in 1 .. Cardinality(C) : i < j => Before(s[i], s[j])
<1> DEFINE Sorts(D, n) == \E s \in [1 .. n -> D] : \A i, j \in 1 .. n : i < j => Before(s[i], s[j])
           P == {n \in Nat : \A D \in SUBSET Cells :
                   IsFiniteSet(D) /\ KeysApart(D) /\ Cardinality(D) = n => Sorts(D, n)}
<1>1. 0 \in P
  <2>1. ASSUME NEW D \in SUBSET Cells PROVE Sorts(D, 0)
    <3>1. 1 .. 0 = {}
      OBVIOUS
    <3>2. [i \in 1 .. 0 |-> i] \in [1 .. 0 -> D]
      BY <3>1
    <3>. QED BY <3>1, <3>2
  <2>. QED BY <2>1
<1>2. ASSUME NEW n \in P PROVE n + 1 \in P
  <2>1. SUFFICES ASSUME NEW D \in SUBSET Cells, IsFiniteSet(D), KeysApart(D), Cardinality(D) = n + 1
                 PROVE  Sorts(D, n + 1)
    OBVIOUS
  <2>2. n \in Nat
    OBVIOUS
  <2>3. PICK c \in D : \A d \in D \ {c} : Before(d, c)
    <3>1. D # {}
      BY <2>1, <2>2, FS_EmptySet
    <3>. QED BY <2>1, <3>1, LastCell
  <2> DEFINE E == D \ {c}
  <2>4. IsFiniteSet(E) /\ Cardinality(E) = n
    BY <2>1, <2>2, FS_RemoveElement
  <2>5. E \in SUBSET Cells /\ KeysApart(E)
    BY <2>1 DEF KeysApart
  <2>6. Sorts(E, n)
    <3>. HIDE DEF E, Sorts
    <3>. QED BY <2>4, <2>5
  <2>7. PICK s \in [1 .. n -> E] : \A i, j \in 1 .. n : i < j => Before(s[i], s[j])
    BY <2>6
  <2> DEFINE t == [i \in 1 .. n + 1 |-> IF i = n + 1 THEN c ELSE s[i]]
  <2>8. \A i \in 1 .. n + 1 : i # n + 1 => i \in 1 .. n
    BY <2>2
  <2>9. t \in [1 .. n + 1 -> D]
    BY <2>8
  <2>10. ASSUME NEW i \in 1 .. n + 1, NEW j \in 1 .. n + 1, i < j
         PROVE  Before(t[i], t[j])
    <3>1. i \in 1 .. n /\ t[i] = s[i]
      BY <2>2, <2>8, <2>10
    <3>2. CASE j = n + 1
      BY <2>3, <3>1, <3>2
    <3>3. CASE j # n + 1
      BY <2>7, <2>8, <2>10, <3>1, <3>3
    <3>. QED BY <3>2, <3>3
  <2>. HIDE DEF t
  <2>. QED BY <2>9, <2>10
<1>3. P = Nat
  <2>1. P \in SUBSET Nat
    OBVIOUS
  <2>. HIDE DEF P
  <2>. QED BY <1>1, <1>2, <2>1, NatSetInduction
<1>4. Cardinality(C) \in P
  BY <1>3, FS_CardinalityType
<1>. QED BY <1>4

\* A board with each key once is ranked as RankedRight says.
LEMMA RankingHolds ==
  ASSUME board \in Seq(Cells),
         \A i, j \in DOMAIN board : board[i].key = board[j].key => i = j
  PROVE  RankedRight
<1> DEFINE n == Len(board)
           C == CellsOf(board)
           IsSorted(s) == \A i, j \in DOMAIN board : i < j => Before(s[i], s[j])
           sorted == CHOOSE s \in [DOMAIN board -> C] : IsSorted(s)
<1>1. n \in Nat /\ DOMAIN board = 1 .. n /\ board \in [1 .. n -> Cells]
  OBVIOUS
<1>2. C \in SUBSET Cells /\ KeysApart(C)
  BY <1>1 DEF CellsOf, KeysApart
<1>3. IsFiniteSet(C) /\ Cardinality(C) = n
  <2>1. board \in Bijection(1 .. n, C)
    <3>1. board \in Injection(1 .. n, C)
      BY <1>1 DEF Injection, IsInjective, CellsOf
    <3>2. board \in Surjection(1 .. n, C)
      BY <1>1 DEF Surjection, CellsOf
    <3>. QED BY <3>1, <3>2 DEF Bijection
  <2>2. ExistsBijection(1 .. n, C)
    BY <2>1 DEF ExistsBijection
  <2>. QED BY <1>1, <2>2, FS_NatBijection, FS_CountingElements
<1>4. \E s \in [DOMAIN board -> C] : IsSorted(s)
  <2>. HIDE DEF C
  <2>. QED BY <1>1, <1>2, <1>3, CellsSort
<1>5. sorted \in [DOMAIN board -> C] /\ IsSorted(sorted)
  <2>. HIDE DEF IsSorted, C
  <2>. QED BY <1>4
<1>6. \A limit \in 0 .. n : Ranked(board, limit) = SubSeq(sorted, 1, limit)
  <2>1. \A limit \in 0 .. n : Ranked(board, limit) = SubSeq(sorted, 1, IF limit < n THEN limit ELSE n)
    BY DEF Ranked
  <2>2. \A limit \in 0 .. n : (IF limit < n THEN limit ELSE n) = limit
    <3>1. n \in Nat
      BY <1>1
    <3>. HIDE DEF n
    <3>. QED BY <3>1
  <2>. HIDE DEF sorted, n
  <2>. QED BY <2>1, <2>2
<1>. HIDE DEF sorted, C, n
<1>7. sorted \in [1 .. n -> C] /\ \A i, j \in 1 .. n : i < j => Before(sorted[i], sorted[j])
  BY <1>1, <1>5
<1>8. \A c \in C : \E j \in 1 .. n : sorted[j] = c
  <2>1. ASSUME NEW i \in 1 .. n, NEW j \in 1 .. n, sorted[i] = sorted[j]
        PROVE  i = j
    <3>1. ~(i < j) /\ ~(j < i)
      BY <1>2, <1>7, <2>1, BeforeOrders
    <3>. QED BY <1>1, <3>1
  <2>2. sorted \in Injection(1 .. n, C)
    BY <1>7, <2>1 DEF Injection, IsInjective
  <2>3. IsFiniteSet(1 .. n) /\ Cardinality(1 .. n) = n
    BY <1>1, FS_Interval
  <2>4. sorted \in Surjection(1 .. n, C)
    BY <1>3, <2>2, <2>3, FS_Injection
  <2>. QED BY <2>4 DEF Surjection
<1>9. ASSUME NEW limit \in 0 .. n
      PROVE  LET shown == Ranked(board, limit)
             IN  /\ Len(shown) = limit
                 /\ \A i \in 1 .. limit :
                      /\ shown[i] \in C
                      /\ \A c \in C \ {shown[j] : j \in 1 .. i} :
                           \/ Rate(shown[i]) > Rate(c)
                           \/ Rate(shown[i]) = Rate(c) /\ Total(shown[i]) >= Total(c)
  <2> DEFINE shown == Ranked(board, limit)
  <2>1. shown = SubSeq(sorted, 1, limit)
    BY <1>6
  <2>2. Len(shown) = limit /\ \A i \in 1 .. limit : shown[i] = sorted[i]
    <3>1. sorted \in Seq(C) /\ Len(sorted) = n
      BY <1>1, <1>7
    <3>. QED BY <1>1, <2>1, <3>1
  <2>. HIDE DEF shown
  <2>3. ASSUME NEW i \in 1 .. limit, NEW c \in C \ {shown[j] : j \in 1 .. i}
        PROVE  \/ Rate(shown[i]) > Rate(c)
               \/ Rate(shown[i]) = Rate(c) /\ Total(shown[i]) >= Total(c)
    <3>1. PICK j \in 1 .. n : sorted[j] = c
      BY <1>8
    <3>2. ~(j <= i)
      BY <1>1, <2>2, <2>3, <3>1
    <3>3. i \in 1 .. n /\ i < j
      BY <1>1, <3>2
    <3>4. Before(sorted[i], c)
      BY <1>7, <3>1, <3>3
    <3>5. shown[i] = sorted[i] /\ sorted[i] \in Cells /\ c \in Cells
      BY <1>2, <1>7, <2>2, <3>3
    <3>6. Total(sorted[i]) \in Int /\ Total(c) \in Int
      BY <3>5, RateInt
    <3>. QED BY <3>4, <3>5, <3>6 DEF Before
  <2>4. \A i \in 1 .. limit : shown[i] \in C
    BY <1>1, <1>7, <2>2
  <2>. QED BY <2>2, <2>3, <2>4 DEF shown
<1>. QED BY <1>9 DEF RankedRight, n, C

-----------------------------------------------------------------------------
(* The theorems about the boards. *)

\* The parts of BoardExact that are about the counting are inductive, with types
\* and the times of the arrivals.
LEMMA BoardStep ==
  ASSUME BIndInv, NEW r \in Outcomes, RecordResult(r)
  PROVE  BIndInv'
<1>1. board' \in Seq(Cells) /\ came' \in Seq(Arrivals)
  BY CellOrigin
<1>2. results \in Seq(Outcomes) /\ came \in Seq(Arrivals) /\ results' = Append(results, r)
      /\ came' = IF Knows(board, r.key) THEN came
                 ELSE Append(came, [key |-> r.key, at |-> Len(results) + 1])
  BY DEF RecordResult, BIndInv, BTypeOK
<1>3. results' \in Seq(Outcomes) /\ Len(results') = Len(results) + 1 /\ Len(results) \in Nat
  BY <1>2
<1>4. ASSUME NEW i \in DOMAIN came' PROVE came'[i].at <= Len(results')
  <2>1. \A k \in DOMAIN came : came[k].at \in Nat /\ came[k].at <= Len(results)
    <3>1. \A k \in DOMAIN came : came[k] \in Arrivals
      BY <1>2
    <3>. QED BY <3>1 DEF BIndInv, Arrivals
  <2>2. CASE Knows(board, r.key)
    BY <1>2, <1>3, <2>1, <2>2
  <2>3. CASE ~Knows(board, r.key)
    <3> DEFINE e == [key |-> r.key, at |-> Len(results) + 1]
    <3>1. e \in Arrivals
      BY <1>3 DEF Arrivals, Outcomes
    <3>2. came' = Append(came, e) /\ e.at = Len(results) + 1
      BY <1>2, <2>3
    <3>. HIDE DEF e
    <3>3. (i \in DOMAIN came /\ came'[i] = came[i]) \/ came'[i] = e
      BY <1>2, <3>1, <3>2
    <3>. QED BY <1>3, <2>1, <3>2, <3>3
  <2>. QED BY <2>2, <2>3
<1>. QED BY <1>1, <1>3, <1>4, LatestComersKept, KeysOnceKept, CountsKept DEF BIndInv, BTypeOK

\* The inductive invariant holds throughout.
LEMMA BoardInvariance ==
  BSpec => []BIndInv
<1>1. BInit => BIndInv
  <2>1. SUFFICES ASSUME BInit PROVE BIndInv
    OBVIOUS
  <2>2. board = <<>> /\ results = <<>> /\ came = <<>>
    BY <2>1 DEF BInit
  <2>3. DOMAIN board = {} /\ DOMAIN came = {} /\ Len(board) = 0 /\ Len(came) = 0
    BY <2>2
  <2>. QED BY <2>2, <2>3, BoardAssumption DEF BIndInv, BTypeOK, LatestComers, CountsExact, KeysOnce, BoardAssumption
<1>2. BIndInv /\ [BNext]_bvars => BIndInv'
  <2>1. ASSUME BIndInv, BNext PROVE BIndInv'
    BY <2>1, BoardStep DEF BNext
  <2>2. ASSUME BIndInv, UNCHANGED bvars PROVE BIndInv'
    <3>1. board' = board /\ results' = results /\ came' = came
      BY <2>2 DEF bvars
    <3>2. BTypeOK' /\ LatestComers' /\ KeysOnce'
      BY <2>2, <3>1 DEF BIndInv, BTypeOK, LatestComers, KeysOnce, Knows, CellsOf
    <3>3. CountsExact'
      BY <2>2, <3>1 DEF BIndInv, CountsExact
    <3>. QED BY <2>2, <3>1, <3>2, <3>3 DEF BIndInv
  <2>. QED BY <2>1, <2>2
<1>. QED BY <1>1, <1>2, PTL DEF BSpec

\* What the boards tell is exact, for any keys, any cap and any number of results.
THEOREM BoardIsExact ==
  BSpec => []BoardExact
<1>1. BIndInv => BoardExact
  <2>1. BIndInv => board \in Seq(Cells) /\ \A i, j \in DOMAIN board : board[i].key = board[j].key => i = j
    BY DEF BIndInv, BTypeOK, KeysOnce
  <2>. QED BY <2>1, RankingHolds DEF BIndInv, BoardExact
<1>. QED BY <1>1, BoardInvariance, PTL

-----------------------------------------------------------------------------
(* Reading config.json. *)

\* Kept() on the prefixes of s.
Prefixes(s, good) ==
  LET kept[n \in 0 .. Len(s)] ==
        IF n = 0 THEN <<>>
        ELSE IF s[n] \in good THEN Append(kept[n - 1], s[n]) ELSE kept[n - 1]
  IN  kept

\* Kept() goes through the sequence one element at a time.
LEMMA PrefixesKept ==
  ASSUME NEW T, NEW s \in Seq(T), NEW g
  PROVE  /\ Prefixes(s, g) \in [0 .. Len(s) -> Seq(T \cap g)]
         /\ Prefixes(s, g)[0] = <<>>
         /\ \A n \in 1 .. Len(s) :
              Prefixes(s, g)[n] = IF s[n] \in g THEN Append(Prefixes(s, g)[n - 1], s[n]) ELSE Prefixes(s, g)[n - 1]
<1> DEFINE N == Len(s)
           S == Seq(T \cap g)
           step == [p \in (1 .. N) \X S |-> IF s[p[1]] \in g THEN Append(p[2], s[p[1]]) ELSE p[2]]
           body(f) == [n \in 0 .. N |-> IF n = 0 THEN <<>>
                            ELSE IF s[n] \in g THEN Append(f[n - 1], s[n]) ELSE f[n - 1]]
<1>1. step \in [(1 .. N) \X S -> S]
  <2>1. \A p \in (1 .. N) \X S : (IF s[p[1]] \in g THEN Append(p[2], s[p[1]]) ELSE p[2]) \in S
    <3>1. SUFFICES ASSUME NEW i \in 1 .. N, NEW q \in S, s[i] \in g PROVE Append(q, s[i]) \in S
      OBVIOUS
    <3>2. s[i] \in T \cap g
      BY <3>1
    <3> QED BY <3>2
  <2> QED BY <2>1
<1>2. N \in Nat /\ <<>> \in S
  OBVIOUS
<1>3. PICK f : FollowsTo(f, S, <<>>, N, step)
  <2> HIDE DEF step, S, N
  <2>1. step \in [(1 .. N) \X S -> S]
    BY <1>1
  <2>2. N \in Nat
    BY <1>2
  <2>3. <<>> \in S
    BY <1>2
  <2> QED BY <2>1, <2>2, <2>3, RecUpTo
<1>4. \A n \in 1 .. N : f[n] = IF s[n] \in g THEN Append(f[n - 1], s[n]) ELSE f[n - 1]
  <2>1. SUFFICES ASSUME NEW n \in 1 .. N
                 PROVE f[n] = IF s[n] \in g THEN Append(f[n - 1], s[n]) ELSE f[n - 1]
    OBVIOUS
  <2> HIDE DEF S
  <2>2. f[n - 1] \in S
    BY <1>3, <1>2 DEF FollowsTo
  <2>3. <<n, f[n - 1]>> \in (1 .. N) \X S
    BY <2>2
  <2>4. step[<<n, f[n - 1]>>] = IF s[n] \in g THEN Append(f[n - 1], s[n]) ELSE f[n - 1]
    BY <2>3
  <2> QED BY <1>3, <2>4 DEF FollowsTo
<1>5. f = body(f)
  <2> HIDE DEF S, step
  <2>1. f = [n \in 0 .. N |-> f[n]]
    BY <1>3 DEF FollowsTo
  <2>2. \A n \in 0 .. N : f[n] = body(f)[n]
    BY <1>3, <1>4, <1>2 DEF FollowsTo
  <2>3. body(f) = [n \in 0 .. N |-> body(f)[n]]
    OBVIOUS
  <2> HIDE DEF body
  <2> QED BY <2>1, <2>2, <2>3, ExtFun
<1> DEFINE k == CHOOSE h : h = body(h)
<1>6. k = body(k)
  <2> HIDE DEF body
  <2> QED BY <1>5
<1>7. Prefixes(s, g) = k
  BY DEF Prefixes
<1> HIDE DEF k
<1>8. k[0] = <<>> /\ \A n \in 1 .. N : k[n] = IF s[n] \in g THEN Append(k[n - 1], s[n]) ELSE k[n - 1]
  <2> HIDE DEF S, step
  <2>1. \A n \in 0 .. N : k[n] = body(k)[n]
    BY <1>6
  <2>2. 0 \in 0 .. N /\ \A n \in 1 .. N : n \in 0 .. N /\ n # 0
    BY <1>2
  <2> QED BY <2>1, <2>2
<1>9. k \in [0 .. N -> S]
  <2> DEFINE P == {n \in Nat : n <= N => k[n] \in S}
  <2>1. 0 \in P
    BY <1>8, <1>2
  <2>2. ASSUME NEW n \in P PROVE n + 1 \in P
    <3>1. SUFFICES ASSUME n + 1 <= N PROVE k[n + 1] \in S
      OBVIOUS
    <3>2. n + 1 \in 1 .. N /\ (n + 1) - 1 = n /\ k[n] \in S
      BY <3>1, <1>2
    <3>3. k[n + 1] = IF s[n + 1] \in g THEN Append(k[n], s[n + 1]) ELSE k[n]
      <4> HIDE DEF S, P, N
      <4> QED BY <3>2, <1>8
    <3>4. s[n + 1] \in g => s[n + 1] \in T \cap g
      BY <3>2
    <3> QED BY <3>2, <3>3, <3>4 DEF S
  <2>3. P = Nat
    <3> HIDE DEF P
    <3>1. P \in SUBSET Nat
      BY DEF P
    <3> QED BY <2>1, <2>2, <3>1, NatSetInduction
  <2>4. \A n \in 0 .. N : k[n] \in S
    BY <2>3
  <2>5. k = [n \in 0 .. N |-> k[n]]
    <3>1. body(k) = [n \in 0 .. N |-> body(k)[n]]
      OBVIOUS
    <3> HIDE DEF body
    <3> QED BY <1>6, <3>1
  <2> HIDE DEF S
  <2> QED BY <2>4, <2>5
<1> QED BY <1>7, <1>8, <1>9 DEF S

\* What is kept of the whole sequence.
LEMMA KeptLast ==
  ASSUME NEW s, NEW g
  PROVE  Kept(s, g) = Prefixes(s, g)[Len(s)]
BY DEF Kept, Prefixes

\* What is kept is good.
LEMMA KeptTyped ==
  ASSUME NEW T, NEW s \in Seq(T), NEW g
  PROVE  Kept(s, g) \in Seq(T \cap g)
<1>1. Len(s) \in 0 .. Len(s)
  OBVIOUS
<1> QED BY <1>1, PrefixesKept, KeptLast

\* When all is good, all is kept.
LEMMA KeptAll ==
  ASSUME NEW T, NEW s \in Seq(T), NEW g, \A i \in DOMAIN s : s[i] \in g
  PROVE  Kept(s, g) = s
<1> DEFINE f == Prefixes(s, g)
<1>1. /\ Kept(s, g) = f[Len(s)]
      /\ f[0] = <<>>
      /\ \A n \in 1 .. Len(s) :
           f[n] = IF s[n] \in g THEN Append(f[n - 1], s[n]) ELSE f[n - 1]
  BY PrefixesKept, KeptLast
<1> HIDE DEF f
<1> DEFINE P == {n \in Nat : n <= Len(s) => f[n] = SubSeq(s, 1, n)}
<1>2. 0 \in P
  <2>1. SubSeq(s, 1, 0) = <<>>
    OBVIOUS
  <2> QED BY <1>1, <2>1
<1>3. ASSUME NEW n \in P PROVE n + 1 \in P
  <2>1. SUFFICES ASSUME n + 1 <= Len(s) PROVE f[n + 1] = SubSeq(s, 1, n + 1)
    OBVIOUS
  <2>2. n + 1 \in 1 .. Len(s) /\ (n + 1) - 1 = n /\ f[n] = SubSeq(s, 1, n) /\ n + 1 \in DOMAIN s
    BY <2>1
  <2>3. f[n + 1] = Append(SubSeq(s, 1, n), s[n + 1])
    BY <2>2, <1>1
  <2>4. Append(SubSeq(s, 1, n), s[n + 1]) = SubSeq(s, 1, n + 1)
    BY <2>2
  <2> QED BY <2>3, <2>4
<1>4. P = Nat
  <2> HIDE DEF P
  <2>1. P \in SUBSET Nat
    BY DEF P
  <2> QED BY <1>2, <1>3, <2>1, NatSetInduction
<1>5. f[Len(s)] = SubSeq(s, 1, Len(s))
  BY <1>4
<1> QED BY <1>1, <1>5

\* What is kept depends on which elements are good only.
LEMMA KeptAgree ==
  ASSUME NEW T, NEW s \in Seq(T), NEW g, NEW h, \A i \in DOMAIN s : s[i] \in g <=> s[i] \in h
  PROVE  Kept(s, g) = Kept(s, h)
<1> DEFINE f == Prefixes(s, g)
<1>1. /\ Kept(s, g) = f[Len(s)]
      /\ f[0] = <<>>
      /\ \A n \in 1 .. Len(s) :
           f[n] = IF s[n] \in g THEN Append(f[n - 1], s[n]) ELSE f[n - 1]
  BY PrefixesKept, KeptLast
<1> HIDE DEF f
<1> DEFINE e == Prefixes(s, h)
<1>2. /\ Kept(s, h) = e[Len(s)]
      /\ e[0] = <<>>
      /\ \A n \in 1 .. Len(s) :
           e[n] = IF s[n] \in h THEN Append(e[n - 1], s[n]) ELSE e[n - 1]
  BY PrefixesKept, KeptLast
<1> HIDE DEF e
<1> DEFINE P == {n \in Nat : n <= Len(s) => f[n] = e[n]}
<1>3. 0 \in P
  BY <1>1, <1>2
<1>4. ASSUME NEW n \in P PROVE n + 1 \in P
  <2>1. SUFFICES ASSUME n + 1 <= Len(s) PROVE f[n + 1] = e[n + 1]
    OBVIOUS
  <2>2. n + 1 \in 1 .. Len(s) /\ (n + 1) - 1 = n /\ f[n] = e[n] /\ n + 1 \in DOMAIN s
    BY <2>1
  <2> HIDE DEF P
  <2>3. f[n + 1] = IF s[n + 1] \in g THEN Append(f[n], s[n + 1]) ELSE f[n]
    BY <2>2, <1>1
  <2>4. e[n + 1] = IF s[n + 1] \in h THEN Append(e[n], s[n + 1]) ELSE e[n]
    BY <2>2, <1>2
  <2>5. s[n + 1] \in g <=> s[n + 1] \in h
    BY <2>2
  <2> QED BY <2>2, <2>3, <2>4, <2>5
<1>5. P = Nat
  <2> HIDE DEF P
  <2>1. P \in SUBSET Nat
    BY DEF P
  <2> QED BY <1>3, <1>4, <2>1, NatSetInduction
<1>6. f[Len(s)] = e[Len(s)]
  BY <1>5
<1> QED BY <1>1, <1>2, <1>6

-----------------------------------------------------------------------------
\* Of valid shape: what Migrate() makes of a file validate() has nothing against.
\* The GUI's own keys do not matter, which config.json has not.
Settled(c) ==
  /\ c \in RawFiles
  /\ c.listen = "ok" /\ c.number = "ok" /\ c.CONNECT_PORT \in Ports
  /\ c.BYPASS_METHOD \in SUPPORTED_METHODS
  /\ c.ENDPOINTS # <<>>
  /\ \A i \in DOMAIN c.ENDPOINTS :
       /\ c.ENDPOINTS[i].form = "dict"
       /\ c.ENDPOINTS[i].ip \in IPs /\ c.ENDPOINTS[i].port \in Ports
  /\ c.FAKE_SNIS # <<>> /\ \A i \in DOMAIN c.FAKE_SNIS : c.FAKE_SNIS[i] \in Hosts

\* An address, a host name and a method are texts that are not blank.
LEMMA TextFacts ==
  /\ "" \in Texts /\ "blank" \in Texts /\ Absent \in Texts
  /\ DefaultIP \in Texts /\ DefaultSNI \in Texts /\ "auto" \in Texts
  /\ IPs \subseteq Texts /\ Hosts \subseteq Texts /\ SUPPORTED_METHODS \subseteq Texts
  /\ \A t \in IPs \cup Hosts \cup SUPPORTED_METHODS : t # "" /\ t # "blank" /\ t # Absent
BY ConfigAssumption DEF ConfigAssumption, Texts

\* Of the ports a file can hold.
LEMMA PortFacts == Ports \subseteq Int /\ NoNumber \notin Ports /\ AbsentPort \notin Ports
BY DEF Ports, NoNumber, AbsentPort

\* Stripping, and the default of a missing text.
LEMMA TextOps ==
  ASSUME NEW t \in Texts
  PROVE  /\ Stripped(t) \in Texts
         /\ t \notin {"", "blank"} => Stripped(t) = t /\ Stripped(t) # ""
         /\ \A d \in Texts : Default(t, d) \in Texts
BY TextFacts DEF Stripped, Default

\* The dictionary without a key and that of the defaults can stand in a file.
LEMMA FixedTyped == NoKeys \in RawFiles /\ DEFAULTS \in RawFiles
<1> DEFINE e == [form |-> Absent, ip |-> "", port |-> AbsentPort]
<1>0. Absent \in Texts /\ "" \in Texts /\ AbsentPort \in Int
  <2>1. AbsentPort \in Int
    BY DEF AbsentPort
  <2> QED BY <2>1, TextFacts
<1>1. e \in Entries
  BY <1>0 DEF Entries
<1> HIDE DEF e
<1>2. <<e>> \in Seq(Entries) /\ <<Absent>> \in Seq(Texts) /\ <<>> \in Seq(Entries) /\ <<>> \in Seq(Texts)
  <2>1. <<>> \in Seq(Entries) /\ <<>> \in Seq(Texts)
    BY SeqEmpty
  <2>2. <<e>> \in Seq(Entries)
    BY <1>1
  <2>3. <<Absent>> \in Seq(Texts)
    <3>1. \A x \in Texts : <<x>> \in Seq(Texts)
      OBVIOUS
    <3> QED BY <1>0, <3>1
  <2> QED BY <2>1, <2>2, <2>3
<1>3. NoKeys \in RawFiles
  <2>1. Absent \in Numbers
    BY DEF Numbers
  <2> DEFINE es == <<e>>
             ss == <<Absent>>
  <2>2. NoKeys = [ENDPOINTS |-> es, CONNECT_IP |-> Absent, CONNECT_PORT |-> AbsentPort,
                  FAKE_SNIS |-> ss, FAKE_SNI |-> Absent, BYPASS_METHOD |-> Absent,
                  number |-> Absent, listen |-> Absent, local |-> Absent]
    BY DEF NoKeys, e
  <2>3. es \in Seq(Entries) /\ ss \in Seq(Texts)
    BY <1>2
  <2> HIDE DEF es, ss
  <2> QED BY <1>0, <2>1, <2>2, <2>3 DEF RawFiles
<1>4. DEFAULTS \in RawFiles
  <2> DEFINE none == <<>>
  <2>1. "ok" \in Numbers /\ 443 \in Int
    BY DEF Numbers
  <2>2. DefaultIP \in Texts /\ DefaultSNI \in Texts /\ "auto" \in Texts
    BY TextFacts
  <2>3. DEFAULTS = [ENDPOINTS |-> none, CONNECT_IP |-> DefaultIP, CONNECT_PORT |-> 443,
                    FAKE_SNIS |-> none, FAKE_SNI |-> DefaultSNI, BYPASS_METHOD |-> "auto",
                    number |-> "ok", listen |-> "ok", local |-> "ok"]
    BY DEF DEFAULTS
  <2>4. none \in Seq(Entries) /\ none \in Seq(Texts)
    BY <1>2
  <2> HIDE DEF none
  <2> QED BY <2>1, <2>2, <2>3, <2>4 DEF RawFiles
<1> QED BY <1>3, <1>4

\* What two dictionaries make together, key by key.
LEMMA MergedFields ==
  ASSUME NEW raw \in RawFiles, NEW other \in RawFiles
  PROVE  Merged(raw, other) =
           [ENDPOINTS |-> IF raw.ENDPOINTS = NoKeys.ENDPOINTS THEN other.ENDPOINTS ELSE raw.ENDPOINTS,
            CONNECT_IP |-> IF raw.CONNECT_IP = Absent THEN other.CONNECT_IP ELSE raw.CONNECT_IP,
            CONNECT_PORT |-> IF raw.CONNECT_PORT = AbsentPort THEN other.CONNECT_PORT ELSE raw.CONNECT_PORT,
            FAKE_SNIS |-> IF raw.FAKE_SNIS = NoKeys.FAKE_SNIS THEN other.FAKE_SNIS ELSE raw.FAKE_SNIS,
            FAKE_SNI |-> IF raw.FAKE_SNI = Absent THEN other.FAKE_SNI ELSE raw.FAKE_SNI,
            BYPASS_METHOD |-> IF raw.BYPASS_METHOD = Absent THEN other.BYPASS_METHOD ELSE raw.BYPASS_METHOD,
            number |-> IF raw.number = Absent THEN other.number ELSE raw.number,
            listen |-> IF raw.listen = Absent THEN other.listen ELSE raw.listen,
            local |-> IF raw.local = Absent THEN other.local ELSE raw.local]
<1>1. /\ NoKeys.CONNECT_IP = Absent /\ NoKeys.CONNECT_PORT = AbsentPort /\ NoKeys.FAKE_SNI = Absent
      /\ NoKeys.BYPASS_METHOD = Absent /\ NoKeys.number = Absent /\ NoKeys.listen = Absent
      /\ NoKeys.local = Absent
  BY DEF NoKeys
<1>2. DOMAIN raw = {"ENDPOINTS", "CONNECT_IP", "CONNECT_PORT", "FAKE_SNIS", "FAKE_SNI", "BYPASS_METHOD",
                    "number", "listen", "local"}
  BY DEF RawFiles
<1> QED BY <1>1, <1>2 DEF Merged

\* Two dictionaries make one.
LEMMA MergedTyped ==
  ASSUME NEW raw \in RawFiles, NEW other \in RawFiles
  PROVE  Merged(raw, other) \in RawFiles
BY MergedFields DEF RawFiles

\* The SNIs that remain are texts.
LEMMA NamedTyped ==
  ASSUME NEW s \in Seq(Texts)
  PROVE  Named(s) \in Seq(Texts)
<1> DEFINE t == [i \in DOMAIN s |-> Stripped(s[i])]
           g == Texts \ {""}
<1>1. \A i \in DOMAIN s : Stripped(s[i]) \in Texts
  BY TextOps, SeqParts
<1>2. t \in Seq(Texts)
  <2>1. t \in [1 .. Len(s) -> Texts] /\ Len(s) \in Nat
    BY <1>1, SeqParts
  <2> HIDE DEF t
  <2> QED BY <2>1, SeqMade
<1>3. Named(s) = Kept(t, g)
  BY DEF Named
<1> HIDE DEF t, g
<1>4. Kept(t, g) \in Seq(Texts \cap g)
  BY <1>2, KeptTyped
<1>5. Kept(t, g) \in Seq(Texts)
  BY <1>4
<1> QED BY <1>3, <1>5

\* Without a blank name they are the same.
LEMMA NamedAll ==
  ASSUME NEW s \in Seq(Texts), \A i \in DOMAIN s : s[i] \notin {"", "blank"}
  PROVE  Named(s) = s
<1> DEFINE t == [i \in DOMAIN s |-> Stripped(s[i])]
<1>1. t = s
  <2>1. \A i \in DOMAIN s : Stripped(s[i]) = s[i]
    BY DEF Stripped
  <2>2. t = [i \in DOMAIN s |-> t[i]] /\ \A i \in DOMAIN s : t[i] = s[i]
    BY <2>1
  <2> HIDE DEF t
  <2> QED BY <2>2, SameSeq
<1> DEFINE g == Texts \ {""}
<1>2. \A i \in DOMAIN s : s[i] \in g
  BY SeqParts
<1>3. Kept(s, g) = s
  <2> HIDE DEF g
  <2> QED BY <1>2, KeptAll
<1>4. Named(s) = Kept(t, g)
  BY DEF Named
<1> HIDE DEF t, g
<1> QED BY <1>1, <1>3, <1>4

\* Of each entry migrate() makes an endpoint.
LEMMA NormedTyped ==
  ASSUME NEW s \in Seq(Entries), NEW p \in Int
  PROVE  /\ Normed(s, p) \in Seq(Entries) /\ DOMAIN Normed(s, p) = DOMAIN s
         /\ \A i \in DOMAIN s : Normed(s, p)[i] = Entry(s[i], p) /\ Entry(s[i], p).form = "dict"
<1>1. ASSUME NEW e \in Entries PROVE Entry(e, p) \in Entries /\ Entry(e, p).form = "dict"
  <2>1. e.ip \in Texts /\ e.port \in Int
    BY DEF Entries
  <2>2. Stripped(e.ip) \in Texts
    BY <2>1, TextOps
  <2>3. AsInt(PortOr(IF e.form = "dict" THEN e.port ELSE AbsentPort, p), 443) \in Int
    BY <2>1 DEF AsInt, PortOr, AbsentPort
  <2> QED BY <2>2, <2>3 DEF Entry, Entries, Endpoint
<1>2. \A i \in DOMAIN s : Normed(s, p)[i] = Entry(s[i], p)
  BY DEF Normed
<1> QED BY <1>1, <1>2 DEF Normed

\* The endpoints migrate() finds are a list of endpoints.
LEMMA EndpointsTyped ==
  ASSUME NEW raw \in RawFiles
  PROVE  /\ EndpointsOf(raw) \in Seq(Entries)
         /\ \A i \in DOMAIN EndpointsOf(raw) : EndpointsOf(raw)[i].form = "dict"
<1> DEFINE ip == Stripped(raw.CONNECT_IP)
           port == PortOf(raw)
           kept == Kept(raw.ENDPOINTS, Taken)
           e == Endpoint(ip, AsInt(port, 443))
           eps == EndpointsOf(raw)
<1>1. raw.ENDPOINTS \in Seq(Entries) /\ raw.CONNECT_IP \in Texts /\ raw.CONNECT_PORT \in Int
  BY DEF RawFiles
<1>2. ip \in Texts
  BY <1>1, TextOps
<1>3. port \in Int /\ AsInt(port, 443) \in Int
  BY <1>1 DEF PortOf, PortOr, AsInt, AbsentPort, NoNumber
<1>4. kept \in Seq(Entries)
  <2>1. kept \in Seq(Entries \cap Taken)
    BY <1>1, KeptTyped
  <2> QED BY <2>1
<1>5. e \in Entries /\ e.form = "dict"
  BY <1>2, <1>3 DEF Endpoint, Entries
<1> HIDE DEF e
<1>6. eps = IF raw.ENDPOINTS # <<>> THEN Normed(kept, port) ELSE IF ip = "" THEN <<>> ELSE <<e>>
  BY DEF EndpointsOf, e
<1> HIDE DEF eps, port, kept, ip
<1>7. CASE raw.ENDPOINTS # <<>>
  <2>1. port \in Int
    BY <1>3
  <2>2. DOMAIN Normed(kept, port) = DOMAIN kept
    BY <2>1, <1>4, NormedTyped
  <2>3. \A i \in DOMAIN kept : Normed(kept, port)[i].form = "dict"
    BY <2>1, <1>4, NormedTyped
  <2>4. Normed(kept, port) \in Seq(Entries)
    BY <2>1, <1>4, NormedTyped
  <2> QED BY <1>6, <1>7, <2>2, <2>3, <2>4 DEF eps
<1>8. CASE raw.ENDPOINTS = <<>> /\ ip = ""
  <2>1. eps = <<>>
    BY <1>6, <1>8
  <2>2. eps \in Seq(Entries) /\ DOMAIN eps = {}
    BY <2>1, SeqEmpty
  <2> QED BY <2>2 DEF eps
<1>9. CASE raw.ENDPOINTS = <<>> /\ ip # ""
  <2>1. eps = <<e>>
    BY <1>6, <1>9
  <2>2. eps \in Seq(Entries) /\ \A i \in DOMAIN eps : eps[i].form = "dict"
    BY <2>1, <1>5
  <2> QED BY <2>2 DEF eps
<1> QED BY <1>7, <1>8, <1>9

\* The SNIs migrate() finds are texts.
LEMMA SnisTyped ==
  ASSUME NEW raw \in RawFiles
  PROVE  SnisOf(raw) \in Seq(Texts)
<1> DEFINE host == Stripped(raw.FAKE_SNI)
           one == <<host>>
<1>1. raw.FAKE_SNIS \in Seq(Texts) /\ raw.FAKE_SNI \in Texts
  BY DEF RawFiles
<1>2. host \in Texts
  BY <1>1, TextOps
<1>3. one \in Seq(Texts)
  <2> HIDE DEF host
  <2> QED BY <1>2
<1>4. SnisOf(raw) = Named(IF raw.FAKE_SNIS # <<>> THEN raw.FAKE_SNIS ELSE one)
  BY DEF SnisOf
<1> HIDE DEF one
<1>5. (IF raw.FAKE_SNIS # <<>> THEN raw.FAKE_SNIS ELSE one) \in Seq(Texts)
  BY <1>1, <1>3
<1> QED BY <1>4, <1>5, NamedTyped

\* What migrate() makes of a file can stand in a file.
LEMMA MigrateTyped ==
  ASSUME NEW raw \in RawFiles
  PROVE  /\ Migrate(raw) \in RawFiles
         /\ \A i \in DOMAIN Migrate(raw).ENDPOINTS : Migrate(raw).ENDPOINTS[i].form = "dict"
<1> DEFINE out == Merged(raw, DEFAULTS)
<1>1. out \in RawFiles
  BY FixedTyped, MergedTyped
<1>2. Migrate(raw) = [out EXCEPT !.ENDPOINTS = EndpointsOf(out), !.FAKE_SNIS = SnisOf(out),
                                 !.BYPASS_METHOD = MethodOf(out), !.number = NumberOf(out)]
  BY DEF Migrate
<1> HIDE DEF out
<1>3. out.BYPASS_METHOD \in Texts /\ out.number \in Numbers
  BY <1>1 DEF RawFiles
<1>4. NumberOf(out) \in Numbers
  BY <1>3 DEF Numbers, NumberOf
<1>5. MethodOf(out) \in Texts
  BY <1>3, TextOps, TextFacts DEF MethodOf
<1> DEFINE eps == EndpointsOf(out)
           snis == SnisOf(out)
<1>6. eps \in Seq(Entries) /\ snis \in Seq(Texts)
  BY <1>1, SnisTyped, EndpointsTyped
<1>7. Migrate(raw) = [out EXCEPT !.ENDPOINTS = eps, !.FAKE_SNIS = snis,
                                 !.BYPASS_METHOD = MethodOf(out), !.number = NumberOf(out)]
  BY <1>2
<1> HIDE DEF eps, snis
<1>8. Migrate(raw) \in RawFiles /\ Migrate(raw).ENDPOINTS = eps
  BY <1>1, <1>4, <1>5, <1>6, <1>7 DEF RawFiles
<1> QED BY <1>1, <1>8, EndpointsTyped DEF eps

\* What validate() has nothing against is settled.
LEMMA MigrateSettles ==
  ASSUME NEW raw \in RawFiles, Valid(Migrate(raw))
  PROVE  Settled(Migrate(raw))
BY MigrateTyped DEF Settled, Valid

\* The entries of a settled configuration are endpoints already.
LEMMA SettledEntries ==
  ASSUME NEW c, Settled(c), NEW i \in DOMAIN c.ENDPOINTS, NEW p \in Int
  PROVE  /\ c.ENDPOINTS[i] \in Taken /\ c.ENDPOINTS[i] \in EngineTaken
         /\ Entry(c.ENDPOINTS[i], p) = c.ENDPOINTS[i]
         /\ EngineEntry(c.ENDPOINTS[i], p) = c.ENDPOINTS[i]
<1> DEFINE e == c.ENDPOINTS[i]
<1>1. c.ENDPOINTS \in Seq(Entries)
  BY DEF Settled, RawFiles
<1>2. e \in Entries
  BY <1>1, SeqParts
<1>3. e.form = "dict" /\ e.ip \in IPs /\ e.port \in Ports
  BY DEF Settled
<1> HIDE DEF e
<1>4. e.ip # "" /\ e.ip # Absent /\ Stripped(e.ip) = e.ip
  BY <1>3, TextFacts DEF Stripped
<1>5. e.port # AbsentPort /\ e.port # NoNumber
  BY <1>3, PortFacts
<1>6. PortOr(e.port, p) = e.port /\ AsInt(e.port, 443) = e.port
  BY <1>5 DEF PortOr, AsInt
<1>7. Endpoint(e.ip, e.port) = e
  BY <1>2, <1>3 DEF Endpoint, Entries
<1>8. Entry(e, p) = e /\ EngineEntry(e, p) = e
  BY <1>3, <1>4, <1>6, <1>7 DEF Entry, EngineEntry
<1>9. e \in Taken /\ e \in EngineTaken
  BY <1>2, <1>3, <1>4 DEF Taken, EngineTaken
<1> QED BY <1>8, <1>9 DEF e

\* The lists of a settled configuration are read as they stand, by both programs.
LEMMA SettledLists ==
  ASSUME NEW c, Settled(c), NEW p \in Int
  PROVE  /\ Normed(Kept(c.ENDPOINTS, Taken), p) = c.ENDPOINTS
         /\ EngineNormed(Kept(c.ENDPOINTS, EngineTaken), p) = c.ENDPOINTS
         /\ Named(c.FAKE_SNIS) = c.FAKE_SNIS
<1>1. c.ENDPOINTS \in Seq(Entries) /\ c.FAKE_SNIS \in Seq(Texts)
  BY DEF Settled, RawFiles
<1>2. Kept(c.ENDPOINTS, Taken) = c.ENDPOINTS
  <2>1. \A i \in DOMAIN c.ENDPOINTS : c.ENDPOINTS[i] \in Taken
    BY SettledEntries
  <2> QED BY <1>1, <2>1, KeptAll
<1>3. Kept(c.ENDPOINTS, EngineTaken) = c.ENDPOINTS
  <2>1. \A i \in DOMAIN c.ENDPOINTS : c.ENDPOINTS[i] \in EngineTaken
    BY SettledEntries
  <2> QED BY <1>1, <2>1, KeptAll
<1>4. Normed(c.ENDPOINTS, p) = c.ENDPOINTS
  <2> DEFINE t == Normed(c.ENDPOINTS, p)
  <2>1. t = [i \in DOMAIN c.ENDPOINTS |-> t[i]] /\ \A i \in DOMAIN c.ENDPOINTS : t[i] = c.ENDPOINTS[i]
    BY SettledEntries DEF Normed
  <2> HIDE DEF t
  <2>2. t = c.ENDPOINTS
    BY <1>1, <2>1, SameSeq
  <2> QED BY <2>2 DEF t
<1>5. EngineNormed(c.ENDPOINTS, p) = c.ENDPOINTS
  <2> DEFINE t == EngineNormed(c.ENDPOINTS, p)
  <2>1. t = [i \in DOMAIN c.ENDPOINTS |-> t[i]] /\ \A i \in DOMAIN c.ENDPOINTS : t[i] = c.ENDPOINTS[i]
    BY SettledEntries DEF EngineNormed
  <2> HIDE DEF t
  <2>2. t = c.ENDPOINTS
    BY <1>1, <2>1, SameSeq
  <2> QED BY <2>2 DEF t
<1>6. Named(c.FAKE_SNIS) = c.FAKE_SNIS
  <2>1. \A i \in DOMAIN c.FAKE_SNIS : c.FAKE_SNIS[i] \notin {"", "blank"}
    BY TextFacts DEF Settled
  <2> QED BY <1>1, <2>1, NamedAll
<1> QED BY <1>2, <1>3, <1>4, <1>5, <1>6

\* The lists of a settled configuration are there.
LEMMA SettledThere ==
  ASSUME NEW c, Settled(c)
  PROVE  c.ENDPOINTS # NoKeys.ENDPOINTS /\ c.FAKE_SNIS # NoKeys.FAKE_SNIS
<1>1. c.ENDPOINTS # <<>> /\ c.FAKE_SNIS # <<>> /\ c.ENDPOINTS \in Seq(Entries) /\ c.FAKE_SNIS \in Seq(Texts)
  BY DEF Settled, RawFiles
<1>2. 1 \in DOMAIN c.ENDPOINTS /\ 1 \in DOMAIN c.FAKE_SNIS
  BY <1>1
<1>3. c.ENDPOINTS[1].form = "dict" /\ c.FAKE_SNIS[1] \in Hosts
  BY <1>2 DEF Settled
<1>4. NoKeys.ENDPOINTS[1].form = Absent /\ NoKeys.FAKE_SNIS[1] = Absent
  BY DEF NoKeys
<1> QED BY <1>3, <1>4, TextFacts DEF Absent

\* Filling a settled configuration from another dictionary moves no key of the
\* engine's but the two single names.
LEMMA SettledMerged ==
  ASSUME NEW c, Settled(c), NEW other \in RawFiles
  PROVE  LET m == Merged(c, other) IN
         /\ Settled(m)
         /\ m.ENDPOINTS = c.ENDPOINTS /\ m.FAKE_SNIS = c.FAKE_SNIS
         /\ m.BYPASS_METHOD = c.BYPASS_METHOD /\ m.CONNECT_PORT = c.CONNECT_PORT
         /\ c.CONNECT_IP # Absent => m.CONNECT_IP = c.CONNECT_IP
         /\ c.FAKE_SNI # Absent => m.FAKE_SNI = c.FAKE_SNI
         /\ m.local = IF c.local = Absent THEN other.local ELSE c.local
<1> DEFINE m == Merged(c, other)
<1>1. c \in RawFiles
  BY DEF Settled
<1>2. m \in RawFiles
  BY <1>1, MergedTyped
<1>3. c.listen = "ok" /\ c.number = "ok" /\ c.CONNECT_PORT \in Ports /\ c.BYPASS_METHOD \in SUPPORTED_METHODS
  BY DEF Settled
<1>4. c.CONNECT_PORT # AbsentPort /\ c.BYPASS_METHOD # Absent
  BY <1>3, PortFacts, TextFacts
<1>5. /\ m.ENDPOINTS = c.ENDPOINTS /\ m.FAKE_SNIS = c.FAKE_SNIS
      /\ m.BYPASS_METHOD = c.BYPASS_METHOD /\ m.CONNECT_PORT = c.CONNECT_PORT
      /\ c.CONNECT_IP # Absent => m.CONNECT_IP = c.CONNECT_IP
      /\ c.FAKE_SNI # Absent => m.FAKE_SNI = c.FAKE_SNI
      /\ m.local = IF c.local = Absent THEN other.local ELSE c.local
  BY <1>1, <1>4, MergedFields, SettledThere
<1>6. m.listen = "ok" /\ m.number = "ok"
  BY <1>1, <1>3, MergedFields DEF Absent
<1> HIDE DEF m
<1>7. Settled(m)
  BY <1>2, <1>5, <1>6 DEF Settled
<1> QED BY <1>5, <1>7 DEF m

\* A settled configuration is what migrate() makes of it.
LEMMA SettledMigrate ==
  ASSUME NEW c, Settled(c)
  PROVE  LET m == Migrate(c) IN
         /\ Settled(m) /\ Engine(m) = Engine(c)
         /\ m.ENDPOINTS = c.ENDPOINTS /\ m.FAKE_SNIS = c.FAKE_SNIS
         /\ m.BYPASS_METHOD = c.BYPASS_METHOD /\ m.CONNECT_PORT = c.CONNECT_PORT
         /\ c.CONNECT_IP # Absent => m.CONNECT_IP = c.CONNECT_IP
         /\ c.FAKE_SNI # Absent => m.FAKE_SNI = c.FAKE_SNI
         /\ m.local = Default(c.local, "ok")
<1> DEFINE out == Merged(c, DEFAULTS)
           m == Migrate(c)
<1>1. /\ Settled(out) /\ out.ENDPOINTS = c.ENDPOINTS /\ out.FAKE_SNIS = c.FAKE_SNIS
      /\ out.BYPASS_METHOD = c.BYPASS_METHOD /\ out.CONNECT_PORT = c.CONNECT_PORT
      /\ c.CONNECT_IP # Absent => out.CONNECT_IP = c.CONNECT_IP
      /\ c.FAKE_SNI # Absent => out.FAKE_SNI = c.FAKE_SNI
      /\ out.local = IF c.local = Absent THEN DEFAULTS.local ELSE c.local
  BY FixedTyped, SettledMerged
<1>2. m = [out EXCEPT !.ENDPOINTS = EndpointsOf(out), !.FAKE_SNIS = SnisOf(out),
                      !.BYPASS_METHOD = MethodOf(out), !.number = NumberOf(out)]
  BY DEF Migrate
<1>3. m \in RawFiles
  BY MigrateTyped DEF Settled
<1> HIDE DEF out, m
<1>4. /\ out \in RawFiles /\ out.ENDPOINTS # <<>> /\ out.FAKE_SNIS # <<>>
      /\ out.number = "ok" /\ out.listen = "ok"
      /\ out.BYPASS_METHOD \in SUPPORTED_METHODS /\ out.CONNECT_PORT \in Ports
  BY <1>1 DEF Settled
<1>5. PortOf(out) \in Int
  BY <1>4, PortFacts DEF PortOf, PortOr
<1>6. MethodOf(out) = out.BYPASS_METHOD /\ NumberOf(out) = "ok"
  BY <1>4, TextFacts DEF Stripped, Default, MethodOf, NumberOf
<1>7. EndpointsOf(out) = out.ENDPOINTS /\ SnisOf(out) = out.FAKE_SNIS
  BY <1>1, <1>4, <1>5, SettledLists DEF EndpointsOf, SnisOf
<1>8. /\ m.ENDPOINTS = out.ENDPOINTS /\ m.FAKE_SNIS = out.FAKE_SNIS
      /\ m.BYPASS_METHOD = out.BYPASS_METHOD /\ m.CONNECT_PORT = out.CONNECT_PORT
      /\ m.CONNECT_IP = out.CONNECT_IP /\ m.FAKE_SNI = out.FAKE_SNI
      /\ m.number = "ok" /\ m.listen = "ok" /\ m.local = out.local
  BY <1>2, <1>4, <1>6, <1>7 DEF RawFiles
<1>9. Settled(m)
  BY <1>1, <1>3, <1>8 DEF Settled
<1>10. DEFAULTS.local = "ok"
  BY DEF DEFAULTS
<1>11. Engine(m) = Engine(c)
  BY <1>1, <1>8 DEF Engine
<1> QED BY <1>1, <1>8, <1>9, <1>10, <1>11 DEF m, Default

\* The engine accepts a settled configuration as it stands.
LEMMA SettledLoad ==
  ASSUME NEW c, Settled(c)
  PROVE  LoadConfig(c) = Engine(c)
<1>1. c.ENDPOINTS # <<>> /\ c.FAKE_SNIS # <<>> /\ c.number = "ok" /\ c.listen = "ok"
        /\ c.BYPASS_METHOD \in SUPPORTED_METHODS /\ c.CONNECT_PORT \in Ports
  BY DEF Settled
<1>2. PortOf(c) \in Int
  BY <1>1, PortFacts DEF PortOf, PortOr
<1>3. MethodOf(c) = c.BYPASS_METHOD
  BY <1>1, TextFacts DEF Stripped, Default, MethodOf
<1>4. EngineEndpointsOf(c) = c.ENDPOINTS /\ EngineSnisOf(c) = c.FAKE_SNIS
  BY <1>1, <1>2, SettledLists, SettledThere DEF EngineEndpointsOf, EngineSnisOf
<1>5. \A i \in DOMAIN c.ENDPOINTS : c.ENDPOINTS[i].port # NoNumber
  BY PortFacts DEF Settled
<1> QED BY <1>1, <1>3, <1>4, <1>5 DEF LoadConfig, Engine

\* What save() writes of a settled configuration is settled.
LEMMA SettledWritten ==
  ASSUME NEW c, Settled(c)
  PROVE  /\ Settled(InjectorDict(c)) /\ Engine(InjectorDict(c)) = Engine(c)
         /\ InjectorDict(c).CONNECT_IP = Head(c.ENDPOINTS).ip
         /\ InjectorDict(c).CONNECT_PORT = Head(c.ENDPOINTS).port
         /\ InjectorDict(c).FAKE_SNI = Head(c.FAKE_SNIS)
         /\ InjectorDict(c).local = Absent
<1> DEFINE m == Migrate(c)
           primary == IF m.ENDPOINTS = <<>> THEN Endpoint("", 443) ELSE Head(m.ENDPOINTS)
           first == IF m.FAKE_SNIS = <<>> THEN "" ELSE Head(m.FAKE_SNIS)
           d == [m EXCEPT !.CONNECT_IP = primary.ip, !.CONNECT_PORT = primary.port, !.FAKE_SNI = first,
                        !.local = Absent]
<1>1. InjectorDict(c) = d
  BY DEF InjectorDict
<1>2. m \in RawFiles /\ c \in RawFiles
  BY MigrateTyped DEF Settled
<1>3. /\ c.ENDPOINTS # <<>> /\ c.FAKE_SNIS # <<>>
      /\ c.ENDPOINTS \in Seq(Entries) /\ c.FAKE_SNIS \in Seq(Texts)
  BY DEF Settled, RawFiles
<1>4. Settled(m) /\ m.ENDPOINTS = c.ENDPOINTS /\ m.FAKE_SNIS = c.FAKE_SNIS
        /\ m.BYPASS_METHOD = c.BYPASS_METHOD
  BY SettledMigrate
<1> HIDE DEF m
<1>5. primary = Head(c.ENDPOINTS) /\ first = Head(c.FAKE_SNIS)
  BY <1>3, <1>4
<1>6. 1 \in DOMAIN c.ENDPOINTS /\ Head(c.ENDPOINTS) = c.ENDPOINTS[1] /\ Head(c.ENDPOINTS) \in Entries
  BY <1>3
<1>7. Head(c.FAKE_SNIS) \in Texts
  BY <1>3
<1> HIDE DEF primary, first
<1>8. primary.ip \in Texts /\ primary.port \in Ports /\ first \in Texts
  <2>1. Head(c.ENDPOINTS).port \in Ports
    BY <1>6 DEF Settled
  <2>2. Head(c.ENDPOINTS).ip \in Texts
    BY <1>6 DEF Entries
  <2> QED BY <1>5, <1>7, <2>1, <2>2
<1>9. d \in RawFiles
  BY <1>2, <1>8, PortFacts DEF RawFiles, Numbers
<1>10. /\ d.ENDPOINTS = c.ENDPOINTS /\ d.FAKE_SNIS = c.FAKE_SNIS /\ d.CONNECT_PORT = primary.port
       /\ d.BYPASS_METHOD = c.BYPASS_METHOD /\ d.number = m.number /\ d.listen = m.listen
       /\ d.CONNECT_IP = primary.ip /\ d.FAKE_SNI = first /\ d.local = Absent
  BY <1>2, <1>4 DEF RawFiles
<1> HIDE DEF d
<1>11. Settled(d)
  BY <1>4, <1>8, <1>9, <1>10 DEF Settled
<1> QED BY <1>1, <1>5, <1>10, <1>11 DEF Engine

\* A configuration that is valid is runnable and comes back as it was saved.
LEMMA ValidHolds ==
  ASSUME file \in RawFiles, extra \in RawFiles
  PROVE  ValidIsRunnable
<1> DEFINE cfg == Loaded
           run == LoadConfig(InjectorDict(cfg))
<1>1. SUFFICES ASSUME Valid(cfg)
               PROVE  /\ run = Engine(cfg) /\ run # Refused
                      /\ \A i \in DOMAIN run.ENDPOINTS :
                           run.ENDPOINTS[i].ip \in IPs /\ run.ENDPOINTS[i].port \in Ports
  BY DEF ValidIsRunnable
<1>2. Settled(cfg)
  BY <1>1, MergedTyped, MigrateSettles DEF Loaded, LoadFiles
<1> HIDE DEF cfg
<1>3. run = Engine(cfg)
  BY <1>2, SettledLoad, SettledWritten
<1>4. Engine(cfg).ENDPOINTS = cfg.ENDPOINTS
  BY DEF Engine
<1>5. cfg.ENDPOINTS # <<>> /\ \A i \in DOMAIN cfg.ENDPOINTS :
         cfg.ENDPOINTS[i].ip \in IPs /\ cfg.ENDPOINTS[i].port \in Ports
  BY <1>1 DEF Valid
<1>6. Refused.ENDPOINTS = <<>>
  BY DEF Refused
<1> HIDE DEF run
<1> QED BY <1>3, <1>4, <1>5, <1>6

\* Without a name that is only white space both parsers take the same entries.
LEMMA SameTaken ==
  ASSUME NEW raw \in RawFiles, ~HasBlank(raw)
  PROVE  Kept(raw.ENDPOINTS, Taken) = Kept(raw.ENDPOINTS, EngineTaken)
<1>1. raw.ENDPOINTS \in Seq(Entries)
  BY DEF RawFiles
<1>2. \A i \in DOMAIN raw.ENDPOINTS : raw.ENDPOINTS[i].ip \notin {"", "blank"}
  BY DEF HasBlank
<1>3. \A i \in DOMAIN raw.ENDPOINTS : raw.ENDPOINTS[i] \in Taken <=> raw.ENDPOINTS[i] \in EngineTaken
  BY <1>2 DEF Taken, EngineTaken, Stripped
<1> QED BY <1>1, <1>3, KeptAgree

\* out is raw with the defaults, as far as the engine reads it.
Filled(raw, out) ==
  /\ out.ENDPOINTS = IF raw.ENDPOINTS = NoKeys.ENDPOINTS THEN <<>> ELSE raw.ENDPOINTS
  /\ out.FAKE_SNIS = IF raw.FAKE_SNIS = NoKeys.FAKE_SNIS THEN <<>> ELSE raw.FAKE_SNIS
  /\ out.CONNECT_IP = Default(raw.CONNECT_IP, DefaultIP)
  /\ out.CONNECT_PORT = PortOr(raw.CONNECT_PORT, 443)
  /\ out.FAKE_SNI = Default(raw.FAKE_SNI, DefaultSNI)
  /\ out.BYPASS_METHOD = Default(raw.BYPASS_METHOD, "auto")

\* What migrate() fills in is that, whatever the second file has, when no key of
\* the engine's comes from there.
LEMMA FilledOwn ==
  ASSUME NEW raw \in RawFiles, NEW full \in RawFiles, OnItsOwn(raw, full)
  PROVE  Filled(raw, Merged(Merged(raw, full), DEFAULTS))
<1> DEFINE m == Merged(raw, full)
           out == Merged(m, DEFAULTS)
<1>1. /\ NoKeys.CONNECT_IP = Absent /\ NoKeys.CONNECT_PORT = AbsentPort /\ NoKeys.FAKE_SNI = Absent
      /\ NoKeys.BYPASS_METHOD = Absent
  BY DEF NoKeys
<1>2. /\ DEFAULTS.ENDPOINTS = <<>> /\ DEFAULTS.FAKE_SNIS = <<>> /\ DEFAULTS.CONNECT_IP = DefaultIP
      /\ DEFAULTS.CONNECT_PORT = 443 /\ DEFAULTS.FAKE_SNI = DefaultSNI /\ DEFAULTS.BYPASS_METHOD = "auto"
  BY DEF DEFAULTS
<1>3. DOMAIN raw \ GuiKeys = {"ENDPOINTS", "CONNECT_IP", "CONNECT_PORT", "FAKE_SNIS", "FAKE_SNI",
                              "BYPASS_METHOD", "number", "listen"}
  <2>1. DOMAIN raw = {"ENDPOINTS", "CONNECT_IP", "CONNECT_PORT", "FAKE_SNIS", "FAKE_SNI", "BYPASS_METHOD",
                      "number", "listen", "local"}
    BY DEF RawFiles
  <2> QED BY <2>1 DEF GuiKeys
<1>4. /\ raw.ENDPOINTS = NoKeys.ENDPOINTS => full.ENDPOINTS = NoKeys.ENDPOINTS
      /\ raw.FAKE_SNIS = NoKeys.FAKE_SNIS => full.FAKE_SNIS = NoKeys.FAKE_SNIS
      /\ raw.CONNECT_IP = Absent => full.CONNECT_IP = Absent
      /\ raw.CONNECT_PORT = AbsentPort => full.CONNECT_PORT = AbsentPort
      /\ raw.FAKE_SNI = Absent => full.FAKE_SNI = Absent
      /\ raw.BYPASS_METHOD = Absent => full.BYPASS_METHOD = Absent
  BY <1>1, <1>3 DEF OnItsOwn
<1>5. m \in RawFiles
  BY MergedTyped
<1>6. /\ m.ENDPOINTS = raw.ENDPOINTS /\ m.FAKE_SNIS = raw.FAKE_SNIS
      /\ m.CONNECT_IP = raw.CONNECT_IP /\ m.CONNECT_PORT = raw.CONNECT_PORT
      /\ m.FAKE_SNI = raw.FAKE_SNI /\ m.BYPASS_METHOD = raw.BYPASS_METHOD
  BY <1>4, MergedFields
<1> HIDE DEF m
<1>7. /\ out.ENDPOINTS = IF m.ENDPOINTS = NoKeys.ENDPOINTS THEN DEFAULTS.ENDPOINTS ELSE m.ENDPOINTS
      /\ out.FAKE_SNIS = IF m.FAKE_SNIS = NoKeys.FAKE_SNIS THEN DEFAULTS.FAKE_SNIS ELSE m.FAKE_SNIS
      /\ out.CONNECT_IP = IF m.CONNECT_IP = Absent THEN DEFAULTS.CONNECT_IP ELSE m.CONNECT_IP
      /\ out.CONNECT_PORT = IF m.CONNECT_PORT = AbsentPort THEN DEFAULTS.CONNECT_PORT ELSE m.CONNECT_PORT
      /\ out.FAKE_SNI = IF m.FAKE_SNI = Absent THEN DEFAULTS.FAKE_SNI ELSE m.FAKE_SNI
      /\ out.BYPASS_METHOD = IF m.BYPASS_METHOD = Absent THEN DEFAULTS.BYPASS_METHOD ELSE m.BYPASS_METHOD
  BY <1>5, FixedTyped, MergedFields
<1> HIDE DEF out
<1>8. Filled(raw, out)
  BY <1>2, <1>6, <1>7 DEF Filled, Default, PortOr
<1> QED BY <1>8 DEF out, m

\* The endpoints the engine accepts are those the GUI reads.
LEMMA SameEndpoints ==
  ASSUME NEW raw \in RawFiles, NEW out, Filled(raw, out), ~HasBlank(raw),
         EngineEndpointsOf(raw) # <<>>,
         \A i \in DOMAIN EngineEndpointsOf(raw) : EngineEndpointsOf(raw)[i].port # NoNumber
  PROVE  EngineEndpointsOf(raw) = EndpointsOf(out)
<1> DEFINE kept == Kept(raw.ENDPOINTS, Taken)
           port == PortOf(raw)
           eps == EngineEndpointsOf(raw)
<1>1. raw.ENDPOINTS \in Seq(Entries)
  BY DEF RawFiles
<1>2. kept \in Seq(Entries)
  <2>1. kept \in Seq(Entries \cap Taken)
    BY <1>1, KeptTyped
  <2> QED BY <2>1
<1>0. PortOf(out) = port
  <2>1. 443 # AbsentPort
    BY DEF AbsentPort
  <2> QED BY <2>1 DEF Filled, PortOf, PortOr
<1>3. CASE raw.ENDPOINTS \notin {<<>>, NoKeys.ENDPOINTS}
  <2>1. eps = EngineNormed(kept, port)
    BY <1>3, SameTaken DEF EngineEndpointsOf
  <2>2. EndpointsOf(out) = Normed(kept, port)
    BY <1>0, <1>3 DEF EndpointsOf, Filled
  <2> HIDE DEF kept, port
  <2>3. \A i \in DOMAIN kept : Entry(kept[i], port) = EngineEntry(kept[i], port)
    <3>1. SUFFICES ASSUME NEW i \in DOMAIN kept
                   PROVE  Entry(kept[i], port) = EngineEntry(kept[i], port)
      OBVIOUS
    <3>2. i \in DOMAIN eps /\ eps[i] = EngineEntry(kept[i], port)
      BY <2>1 DEF EngineNormed
    <3>3. eps[i].port # NoNumber
      BY <3>2
    <3> DEFINE p == PortOr(IF kept[i].form = "dict" THEN kept[i].port ELSE AbsentPort, port)
    <3>4. EngineEntry(kept[i], port) = Endpoint(Stripped(kept[i].ip), p)
      BY DEF EngineEntry
    <3>5. Entry(kept[i], port) = Endpoint(Stripped(kept[i].ip), AsInt(p, 443))
      BY DEF Entry
    <3> HIDE DEF p, eps
    <3>6. p # NoNumber
      BY <3>2, <3>3, <3>4 DEF Endpoint
    <3>7. AsInt(p, 443) = p
      BY <3>6 DEF AsInt
    <3> QED BY <3>4, <3>5, <3>7
  <2> QED BY <2>1, <2>2, <2>3 DEF Normed, EngineNormed
<1>4. CASE raw.ENDPOINTS \in {<<>>, NoKeys.ENDPOINTS}
  <2> DEFINE ip == Stripped(raw.CONNECT_IP)
  <2>1. raw.CONNECT_IP \notin {Absent, "", "blank"}
    BY <1>4 DEF EngineEndpointsOf, HasBlank
  <2>2. out.CONNECT_IP = raw.CONNECT_IP /\ ip # "" /\ out.ENDPOINTS = <<>>
    BY <1>4, <2>1 DEF Filled, Default, Stripped
  <2>3. eps = <<Endpoint(ip, port)>>
    BY <1>4, <2>1 DEF EngineEndpointsOf
  <2>4. EndpointsOf(out) = <<Endpoint(ip, AsInt(port, 443))>>
    BY <1>0, <2>2 DEF EndpointsOf
  <2> HIDE DEF port, ip
  <2>5. port # NoNumber
    <3>1. DOMAIN <<Endpoint(ip, port)>> = {1} /\ <<Endpoint(ip, port)>>[1].port = port
      BY DEF Endpoint
    <3>2. 1 \in DOMAIN eps /\ eps[1].port = port
      BY <2>3, <3>1
    <3> QED BY <3>2
  <2>6. AsInt(port, 443) = port
    BY <2>5 DEF AsInt
  <2> QED BY <2>3, <2>4, <2>6
<1> QED BY <1>3, <1>4

\* The SNIs the engine accepts are those the GUI reads.
LEMMA SameSnis ==
  ASSUME NEW raw \in RawFiles, NEW out, Filled(raw, out), ~HasBlank(raw), EngineSnisOf(raw) # <<>>
  PROVE  EngineSnisOf(raw) = SnisOf(out)
<1>1. CASE raw.FAKE_SNIS \notin {<<>>, NoKeys.FAKE_SNIS}
  BY <1>1 DEF EngineSnisOf, SnisOf, Filled
<1>2. CASE raw.FAKE_SNIS \in {<<>>, NoKeys.FAKE_SNIS}
  <2> DEFINE sni == raw.FAKE_SNI
             one == <<sni>>
  <2>1. sni \notin {Absent, "", "blank"} /\ sni \in Texts
    BY <1>2 DEF EngineSnisOf, HasBlank, RawFiles
  <2>2. out.FAKE_SNI = sni /\ Stripped(sni) = sni /\ out.FAKE_SNIS = <<>>
    BY <1>2, <2>1 DEF Filled, Default, Stripped
  <2>3. EngineSnisOf(raw) = one
    BY <1>2, <2>1, <2>2 DEF EngineSnisOf
  <2>4. SnisOf(out) = Named(one)
    BY <2>2 DEF SnisOf
  <2>5. one \in Seq(Texts) /\ \A i \in DOMAIN one : one[i] \notin {"", "blank"}
    <3>0. sni \in Texts
      BY <2>1
    <3> HIDE DEF sni
    <3>1. DOMAIN one = {1} /\ one[1] = sni
      OBVIOUS
    <3>2. one \in Seq(Texts)
      BY <3>0
    <3> HIDE DEF one
    <3> QED BY <2>1, <3>1, <3>2
  <2> HIDE DEF one
  <2> QED BY <2>3, <2>4, <2>5, NamedAll
<1> QED BY <1>1, <1>2

\* A file the engine accepts by itself it reads as the GUI does.
LEMMA AcceptedAlike ==
  ASSUME NEW raw \in RawFiles, NEW full \in RawFiles,
         LoadConfig(raw) # Refused, ~HasBlank(raw), OnItsOwn(raw, full)
  PROVE  LoadConfig(raw) = Engine(LoadFiles(raw, full))
<1> DEFINE m == Merged(raw, full)
           out == Merged(m, DEFAULTS)
<1>1. LoadConfig(raw) = [ENDPOINTS |-> EngineEndpointsOf(raw), FAKE_SNIS |-> EngineSnisOf(raw),
                         BYPASS_METHOD |-> MethodOf(raw)]
  BY DEF LoadConfig
<1>2. /\ EngineEndpointsOf(raw) # <<>> /\ EngineSnisOf(raw) # <<>>
      /\ \A i \in DOMAIN EngineEndpointsOf(raw) : EngineEndpointsOf(raw)[i].port # NoNumber
  BY DEF LoadConfig
<1>3. Filled(raw, out)
  BY FilledOwn
<1>4. out \in RawFiles
  BY MergedTyped, FixedTyped
<1>5. LoadFiles(raw, full) = [out EXCEPT !.ENDPOINTS = EndpointsOf(out), !.FAKE_SNIS = SnisOf(out),
                                    !.BYPASS_METHOD = MethodOf(out), !.number = NumberOf(out)]
  BY DEF LoadFiles, Migrate
<1> HIDE DEF out
<1>6. EngineEndpointsOf(raw) = EndpointsOf(out) /\ EngineSnisOf(raw) = SnisOf(out)
  BY <1>2, <1>3, SameEndpoints, SameSnis
<1>7. MethodOf(raw) = MethodOf(out)
  <2>1. Default(out.BYPASS_METHOD, "auto") = Default(raw.BYPASS_METHOD, "auto")
    BY <1>3 DEF Filled, Default, Absent
  <2> QED BY <2>1 DEF MethodOf
<1>8. /\ LoadFiles(raw, full).ENDPOINTS = EndpointsOf(out) /\ LoadFiles(raw, full).FAKE_SNIS = SnisOf(out)
      /\ LoadFiles(raw, full).BYPASS_METHOD = MethodOf(out)
  BY <1>4, <1>5 DEF RawFiles
<1> QED BY <1>1, <1>6, <1>7, <1>8 DEF Engine

\* A settled configuration comes back from the files as it was saved.
LEMMA SavedComesBack ==
  ASSUME NEW cfg, Settled(cfg), NEW second \in RawFiles
  PROVE  LET again == LoadFiles(InjectorDict(cfg), second)
         IN  /\ Settled(again) /\ Engine(again) = Engine(cfg)
             /\ again.local = Default(second.local, "ok")
             /\ Endpoint(again.CONNECT_IP, again.CONNECT_PORT) = Head(cfg.ENDPOINTS)
             /\ again.FAKE_SNI = Head(cfg.FAKE_SNIS)
<1> DEFINE d == InjectorDict(cfg)
           m == Merged(d, second)
           again == Migrate(m)
           h == Head(cfg.ENDPOINTS)
           n == Head(cfg.FAKE_SNIS)
<1>1. Settled(d) /\ Engine(d) = Engine(cfg) /\ d.CONNECT_IP = h.ip /\ d.CONNECT_PORT = h.port
        /\ d.FAKE_SNI = n /\ d.local = Absent
  BY SettledWritten
<1>2. cfg.ENDPOINTS # <<>> /\ cfg.FAKE_SNIS # <<>> /\ cfg.ENDPOINTS \in Seq(Entries)
        /\ cfg.FAKE_SNIS \in Seq(Texts)
  BY DEF Settled, RawFiles
<1>3. 1 \in DOMAIN cfg.ENDPOINTS /\ h = cfg.ENDPOINTS[1] /\ h \in Entries
  BY <1>2
<1>4. 1 \in DOMAIN cfg.FAKE_SNIS /\ n = cfg.FAKE_SNIS[1]
  BY <1>2
<1>5. h.form = "dict" /\ h.ip \in IPs /\ n \in Hosts
  BY <1>3, <1>4 DEF Settled
<1> HIDE DEF h, n, d
<1>6. d.CONNECT_IP # Absent /\ d.FAKE_SNI # Absent
  BY <1>1, <1>5, TextFacts
<1>7. /\ Settled(m) /\ Engine(m) = Engine(d) /\ m.CONNECT_IP = h.ip /\ m.CONNECT_PORT = h.port
      /\ m.FAKE_SNI = n /\ m.local = second.local
  BY <1>1, <1>6, SettledMerged DEF Engine
<1> HIDE DEF m
<1>8. m.CONNECT_IP # Absent /\ m.FAKE_SNI # Absent
  BY <1>1, <1>6, <1>7
<1>9. /\ Settled(again) /\ Engine(again) = Engine(m) /\ again.CONNECT_IP = h.ip /\ again.CONNECT_PORT = h.port
      /\ again.FAKE_SNI = n /\ again.local = Default(second.local, "ok")
  BY <1>7, <1>8, SettledMigrate
<1>10. Endpoint(h.ip, h.port) = h
  BY <1>3, <1>5 DEF Endpoint, Entries
<1>11. LoadFiles(InjectorDict(cfg), second) = again
  BY DEF LoadFiles, m, d
<1> HIDE DEF again
<1> QED BY <1>1, <1>7, <1>9, <1>10, <1>11 DEF h, n

\* What the three second files are.
LEMMA SecondTyped ==
  ASSUME NEW cfg \in RawFiles, NEW old \in RawFiles, NEW second \in {Migrate(cfg), old, NoKeys}
  PROVE  second \in RawFiles
BY MigrateTyped, FixedTyped

\* Both halves of ReadAlike hold of any two files.
LEMMA ReadHolds ==
  ASSUME file \in RawFiles, extra \in RawFiles
  PROVE  ReadAlike
<1> DEFINE cfg == Loaded
<1>1. ASSUME LoadConfig(file) # Refused, ~HasBlank(file), OnItsOwn(file, extra)
      PROVE  LoadConfig(file) = Engine(cfg)
  BY <1>1, AcceptedAlike DEF Loaded
<1>2. ASSUME Valid(cfg), NEW second \in {Migrate(cfg), extra, NoKeys}
      PROVE  LET again == LoadFiles(InjectorDict(cfg), second)
             IN  /\ Engine(again) = Engine(cfg)
                 /\ Valid(again) \/ second.local \notin {"ok", Absent}
                 /\ Endpoint(again.CONNECT_IP, again.CONNECT_PORT) = Head(cfg.ENDPOINTS)
                 /\ again.FAKE_SNI = Head(cfg.FAKE_SNIS)
  <2>1. Settled(cfg)
    BY <1>2, MergedTyped, MigrateSettles DEF Loaded, LoadFiles
  <2>2. cfg \in RawFiles
    BY <2>1 DEF Settled
  <2> HIDE DEF cfg
  <2>3. second \in RawFiles
    BY <1>2, <2>2, SecondTyped
  <2> DEFINE again == LoadFiles(InjectorDict(cfg), second)
  <2>4. /\ Settled(again) /\ Engine(again) = Engine(cfg)
        /\ again.local = Default(second.local, "ok")
        /\ Endpoint(again.CONNECT_IP, again.CONNECT_PORT) = Head(cfg.ENDPOINTS)
        /\ again.FAKE_SNI = Head(cfg.FAKE_SNIS)
    BY <2>1, <2>3, SavedComesBack
  <2> HIDE DEF again
  <2>5. second.local \in {"ok", Absent} => again.local = "ok"
    BY <2>4 DEF Default
  <2>6. again.local = "ok" => Valid(again)
    BY <2>4 DEF Settled, Valid
  <2> QED BY <2>4, <2>5, <2>6 DEF again
<1> QED BY <1>1, <1>2 DEF ReadAlike

\* Whatever stands in the files at first, they can be read as files.
LEMMA FileTyped == CSpec => [](file \in RawFiles /\ extra \in RawFiles)
<1>1. CInit => file \in RawFiles /\ extra \in RawFiles
  BY ConfigAssumption DEF ConfigAssumption, CInit
<1>2. file \in RawFiles /\ extra \in RawFiles /\ [SaveFile]_cvars
        => (file \in RawFiles /\ extra \in RawFiles)'
  <2>1. SUFFICES ASSUME file \in RawFiles, extra \in RawFiles, SaveFile
                 PROVE  file' \in RawFiles /\ extra' \in RawFiles
    BY DEF cvars
  <2>2. Settled(Loaded)
    BY <2>1, MergedTyped, MigrateSettles DEF SaveFile, Loaded, LoadFiles
  <2>3. Settled(InjectorDict(Loaded)) /\ Loaded \in RawFiles
    BY <2>2, SettledWritten DEF Settled
  <2>4. extra' \in RawFiles
    BY <2>1, <2>3, SecondTyped DEF SaveFile
  <2> QED BY <2>1, <2>3, <2>4 DEF SaveFile, Settled
<1> QED BY <1>1, <1>2, PTL DEF CSpec

\* Whatever stood in the files, a configuration that validate() accepts runs: after
\* save() load_config() accepts it with the same endpoints, SNIs and method.
THEOREM ValidRuns == CSpec => []ValidIsRunnable
BY FileTyped, ValidHolds, PTL

\* For any two files, what load_config() accepts load() reads alike, unless a name
\* is blank or a key comes from the second file alone, and what is valid comes back
\* as save() wrote it, whatever became of the second file.
THEOREM BothRead == CSpec => []ReadAlike
BY FileTyped, ReadHolds, PTL

-----------------------------------------------------------------------------
(* The candidate lists: AddAll() and Collect() by their values at each step. *)

\* The values of the recursion in AddAll().
AddedBy(out, s, max_total) ==
  LET added[n \in 0 .. Len(s)] == IF n = 0 THEN out ELSE AddNew(added[n - 1], s[n], max_total)
  IN  added

\* The values of the recursion in Collect().
CollectedBy(items, max_total) ==
  LET loaded[n \in 0 .. Len(items)] ==
        IF n = 0 THEN <<>> ELSE AddAll(loaded[n - 1], items[n], max_total)
  IN  loaded

\* What is pushed in the end.
LEMMA AddAllLast ==
  ASSUME NEW out, NEW s, NEW max_total
  PROVE  AddAll(out, s, max_total) = AddedBy(out, s, max_total)[Len(s)]
BY DEF AddAll, AddedBy

\* What is collected in the end.
LEMMA CollectLast ==
  ASSUME NEW items, NEW max_total
  PROVE  Collect(items, max_total) = CollectedBy(items, max_total)[Len(items)]
BY DEF Collect, CollectedBy

\* AddAll() pushes one element at a time.
LEMMA AddedSteps ==
  ASSUME NEW T, NEW out \in Seq(T), NEW s \in Seq(T), NEW m
  PROVE  /\ AddedBy(out, s, m) \in [0 .. Len(s) -> Seq(T)]
         /\ AddedBy(out, s, m)[0] = out
         /\ \A n \in 1 .. Len(s) : AddedBy(out, s, m)[n] = AddNew(AddedBy(out, s, m)[n - 1], s[n], m)
<1> DEFINE N == Len(s)
           S == Seq(T)
           step == [p \in (1 .. N) \X S |-> AddNew(p[2], s[p[1]], m)]
           body(f) == [n \in 0 .. N |-> IF n = 0 THEN out ELSE AddNew(f[n - 1], s[n], m)]
<1>0. \A n \in 1 .. N, q \in S : AddNew(q, s[n], m) \in S
  <2>1. ASSUME NEW n \in 1 .. N, NEW q \in S PROVE AddNew(q, s[n], m) \in S
    <3>1. s[n] \in T
      BY SeqParts
    <3> QED BY <3>1 DEF AddNew
  <2> QED BY <2>1
<1>1. step \in [(1 .. N) \X S -> S]
  <2> HIDE DEF N, S
  <2> QED BY <1>0
<1>2. N \in Nat /\ out \in S
  OBVIOUS
<1>3. PICK f : FollowsTo(f, S, out, N, step)
  <2>1. N \in Nat
    BY <1>2
  <2>2. out \in S
    BY <1>2
  <2> HIDE DEF step, S, N
  <2> QED BY <1>1, <2>1, <2>2, RecUpTo
<1>4. \A n \in 1 .. N : f[n] = AddNew(f[n - 1], s[n], m)
  <2>1. SUFFICES ASSUME NEW n \in 1 .. N PROVE f[n] = AddNew(f[n - 1], s[n], m)
    OBVIOUS
  <2>5. n - 1 \in 0 .. N
    BY <1>2
  <2> HIDE DEF S, step, body
  <2>2. f[n - 1] \in S
    BY <1>3, <2>5 DEF FollowsTo
  <2>3. <<n, f[n - 1]>> \in (1 .. N) \X S
    BY <2>2
  <2>4. step[<<n, f[n - 1]>>] = AddNew(f[n - 1], s[n], m)
    BY <2>3 DEF step
  <2> QED BY <1>3, <2>4 DEF FollowsTo
<1>5. f = body(f)
  <2> HIDE DEF S, step
  <2>1. f = [n \in 0 .. N |-> f[n]]
    BY <1>3 DEF FollowsTo
  <2>2. \A n \in 0 .. N : f[n] = body(f)[n]
    BY <1>3, <1>4, <1>2 DEF FollowsTo
  <2>3. body(f) = [n \in 0 .. N |-> body(f)[n]]
    OBVIOUS
  <2> HIDE DEF body
  <2> QED BY <2>1, <2>2, <2>3, ExtFun
<1> DEFINE k == CHOOSE h : h = body(h)
<1>6. k = body(k)
  <2> HIDE DEF body
  <2> QED BY <1>5
<1>7. AddedBy(out, s, m) = k
  BY DEF AddedBy
<1> HIDE DEF k
<1>8. k[0] = out /\ \A n \in 1 .. N : k[n] = AddNew(k[n - 1], s[n], m)
  <2> HIDE DEF S, step
  <2>1. \A n \in 0 .. N : k[n] = body(k)[n]
    BY <1>6
  <2>2. 0 \in 0 .. N /\ \A n \in 1 .. N : n \in 0 .. N /\ n # 0
    BY <1>2
  <2> QED BY <2>1, <2>2
<1>9. k \in [0 .. N -> S]
  <2> DEFINE P == {n \in Nat : n <= N => k[n] \in S}
  <2>1. 0 \in P
    BY <1>8, <1>2
  <2>2. ASSUME NEW n \in P PROVE n + 1 \in P
    <3>1. SUFFICES ASSUME n + 1 <= N PROVE k[n + 1] \in S
      OBVIOUS
    <3>2. n + 1 \in 1 .. N /\ (n + 1) - 1 = n /\ k[n] \in S
      BY <3>1, <1>2
    <3> HIDE DEF S, P, N
    <3>3. k[n + 1] = AddNew(k[n], s[n + 1], m)
      BY <3>2, <1>8
    <3> QED BY <3>2, <3>3, <1>0
  <2>3. P = Nat
    <3> HIDE DEF P
    <3>1. P \in SUBSET Nat
      BY DEF P
    <3> QED BY <2>1, <2>2, <3>1, NatSetInduction
  <2>4. \A n \in 0 .. N : k[n] \in S
    BY <2>3
  <2>5. k = [n \in 0 .. N |-> k[n]]
    <3>1. body(k) = [n \in 0 .. N |-> body(k)[n]]
      OBVIOUS
    <3> HIDE DEF body
    <3> QED BY <1>6, <3>1
  <2> HIDE DEF S
  <2> QED BY <2>4, <2>5
<1> QED BY <1>7, <1>8, <1>9 DEF S

\* What is pushed keeps its type.
LEMMA AddAllTyped ==
  ASSUME NEW T, NEW out \in Seq(T), NEW s \in Seq(T), NEW m
  PROVE  AddAll(out, s, m) \in Seq(T)
<1>1. Len(s) \in 0 .. Len(s)
  BY SeqParts
<1> QED BY <1>1, AddedSteps, AddAllLast

\* Collect() takes one token at a time.
LEMMA CollectedSteps ==
  ASSUME NEW T, NEW items \in Seq(Seq(T)), NEW m
  PROVE  /\ CollectedBy(items, m) \in [0 .. Len(items) -> Seq(T)]
         /\ CollectedBy(items, m)[0] = <<>>
         /\ \A n \in 1 .. Len(items) : CollectedBy(items, m)[n] = AddAll(CollectedBy(items, m)[n - 1], items[n], m)
<1> DEFINE N == Len(items)
           S == Seq(T)
           step == [p \in (1 .. N) \X S |-> AddAll(p[2], items[p[1]], m)]
           body(f) == [n \in 0 .. N |-> IF n = 0 THEN <<>> ELSE AddAll(f[n - 1], items[n], m)]
<1>0. \A n \in 1 .. N, q \in S : AddAll(q, items[n], m) \in S
  <2>1. ASSUME NEW n \in 1 .. N, NEW q \in S PROVE AddAll(q, items[n], m) \in S
    <3>1. items[n] \in Seq(T)
      BY SeqParts
    <3> QED BY <3>1, AddAllTyped
  <2> QED BY <2>1
<1>1. step \in [(1 .. N) \X S -> S]
  <2> HIDE DEF N, S
  <2> QED BY <1>0
<1>2. N \in Nat /\ <<>> \in S
  BY SeqParts, SeqEmpty
<1>3. PICK f : FollowsTo(f, S, <<>>, N, step)
  <2>1. N \in Nat
    BY <1>2
  <2>2. <<>> \in S
    BY <1>2
  <2> HIDE DEF step, S, N
  <2> QED BY <1>1, <2>1, <2>2, RecUpTo
<1>4. \A n \in 1 .. N : f[n] = AddAll(f[n - 1], items[n], m)
  <2>1. SUFFICES ASSUME NEW n \in 1 .. N PROVE f[n] = AddAll(f[n - 1], items[n], m)
    OBVIOUS
  <2>5. n - 1 \in 0 .. N
    BY <1>2
  <2> HIDE DEF S, step, body
  <2>2. f[n - 1] \in S
    BY <1>3, <2>5 DEF FollowsTo
  <2>3. <<n, f[n - 1]>> \in (1 .. N) \X S
    BY <2>2
  <2>4. step[<<n, f[n - 1]>>] = AddAll(f[n - 1], items[n], m)
    BY <2>3 DEF step
  <2> QED BY <1>3, <2>4 DEF FollowsTo
<1>5. f = body(f)
  <2> HIDE DEF S, step
  <2>1. f = [n \in 0 .. N |-> f[n]]
    BY <1>3 DEF FollowsTo
  <2>2. \A n \in 0 .. N : f[n] = body(f)[n]
    BY <1>3, <1>4, <1>2 DEF FollowsTo
  <2>3. body(f) = [n \in 0 .. N |-> body(f)[n]]
    OBVIOUS
  <2> HIDE DEF body
  <2> QED BY <2>1, <2>2, <2>3, ExtFun
<1> DEFINE k == CHOOSE h : h = body(h)
<1>6. k = body(k)
  <2> HIDE DEF body
  <2> QED BY <1>5
<1>7. CollectedBy(items, m) = k
  BY DEF CollectedBy
<1> HIDE DEF k
<1>8. k[0] = <<>> /\ \A n \in 1 .. N : k[n] = AddAll(k[n - 1], items[n], m)
  <2> HIDE DEF S, step
  <2>1. \A n \in 0 .. N : k[n] = body(k)[n]
    BY <1>6
  <2>2. 0 \in 0 .. N /\ \A n \in 1 .. N : n \in 0 .. N /\ n # 0
    BY <1>2
  <2> QED BY <2>1, <2>2
<1>9. k \in [0 .. N -> S]
  <2> DEFINE P == {n \in Nat : n <= N => k[n] \in S}
  <2>1. 0 \in P
    BY <1>8, <1>2
  <2>2. ASSUME NEW n \in P PROVE n + 1 \in P
    <3>1. SUFFICES ASSUME n + 1 <= N PROVE k[n + 1] \in S
      OBVIOUS
    <3>2. n + 1 \in 1 .. N /\ (n + 1) - 1 = n /\ k[n] \in S
      BY <3>1, <1>2
    <3> HIDE DEF S, P, N
    <3>3. k[n + 1] = AddAll(k[n], items[n + 1], m)
      BY <3>2, <1>8
    <3> QED BY <3>2, <3>3, <1>0
  <2>3. P = Nat
    <3> HIDE DEF P
    <3>1. P \in SUBSET Nat
      BY DEF P
    <3> QED BY <2>1, <2>2, <3>1, NatSetInduction
  <2>4. \A n \in 0 .. N : k[n] \in S
    BY <2>3
  <2>5. k = [n \in 0 .. N |-> k[n]]
    <3>1. body(k) = [n \in 0 .. N |-> body(k)[n]]
      OBVIOUS
    <3> HIDE DEF body
    <3> QED BY <1>6, <3>1
  <2> HIDE DEF S
  <2> QED BY <2>4, <2>5
<1> QED BY <1>7, <1>8, <1>9 DEF S

-----------------------------------------------------------------------------
(* What the loaders return. *)

\* Pushing what stands at the next place.
LEMMA PushKeeps ==
  ASSUME NEW T, NEW out \in Seq(T), NEW items, NEW m \in Positive, NEW Q, NEW p,
         At(items, p) \in T, ~Earlier(p, p),
         \A q \in Q : Earlier(q, p) /\ ~Earlier(p, q),
         FirstOf(out, items, Q, m)
  PROVE  FirstOf(AddNew(out, At(items, p), m), items, Q \cup {p}, m)
<1> DEFINE x == At(items, p)
           QQ == Q \cup {p}
<1>1. Len(out) <= m /\ Len(out) \in Nat /\ m \in Nat
  BY DEF FirstOf, Positive
<1>2. DOMAIN out = 1 .. Len(out)
  OBVIOUS
<1>3. ASSUME NEW k \in DOMAIN out
      PROVE  /\ ~CameBefore(out, k, out[k])
             /\ \E q \in QQ : /\ At(items, q) = out[k]
                              /\ \A r \in QQ : Earlier(r, q) => CameBefore(out, k, At(items, r))
  <2>1. ~CameBefore(out, k, out[k])
    BY DEF FirstOf, InTurn
  <2>2. PICK q \in Q : /\ At(items, q) = out[k]
                       /\ \A r \in Q : Earlier(r, q) => CameBefore(out, k, At(items, r))
    BY DEF FirstOf, InTurn
  <2>3. \A r \in QQ : Earlier(r, q) => CameBefore(out, k, At(items, r))
    BY <2>2
  <2> QED BY <2>1, <2>2, <2>3
<1>4. InTurn(out, items, QQ)
  BY <1>3 DEF InTurn
<1>5. CASE Len(out) >= m
  <2>1. AddNew(out, x, m) = out
    BY <1>5 DEF AddNew
  <2>2. Len(out) = m
    <3> HIDE DEF x, QQ
    <3> QED BY <1>1, <1>5
  <2> QED BY <1>1, <1>4, <2>1, <2>2 DEF FirstOf
<1>6. ASSUME ~(Len(out) >= m) PROVE AllIn(out, items, Q) /\ Len(out) + 1 <= m
  <2>1. Len(out) # m
    BY <1>1, <1>6
  <2> QED BY <1>1, <1>6, <2>1 DEF FirstOf
<1>7. CASE ~(Len(out) >= m) /\ \E i \in DOMAIN out : out[i] = x
  <2>1. AddNew(out, x, m) = out
    BY <1>7 DEF AddNew
  <2>2. AllIn(out, items, QQ)
    BY <1>6, <1>7 DEF AllIn
  <2> QED BY <1>1, <1>4, <2>1, <2>2 DEF FirstOf
<1>8. CASE ~(Len(out) >= m) /\ ~\E i \in DOMAIN out : out[i] = x
  <2> DEFINE new == Append(out, x)
             n == Len(out) + 1
  <2>1. AddNew(out, x, m) = new
    BY <1>8 DEF AddNew
  <2> HIDE DEF x
  <2>2. Len(new) = n /\ DOMAIN new = 1 .. n /\ new[n] = x /\ \A i \in 1 .. Len(out) : new[i] = out[i]
    BY DEF x
  <2> HIDE DEF new
  <2>3. n \in Nat /\ n <= m /\ n - 1 = Len(out) /\ n \in 1 .. n
    BY <1>1, <1>6, <1>8
  <2> HIDE DEF n
  <2>4. ASSUME NEW k \in 1 .. n
        PROVE  /\ ~CameBefore(new, k, new[k])
               /\ \E q \in QQ : /\ At(items, q) = new[k]
                                /\ \A r \in QQ : Earlier(r, q) => CameBefore(new, k, At(items, r))
    <3>1. CASE k = n
      <4>1. ~CameBefore(new, k, new[k])
        BY <3>1, <2>2, <2>3, <1>2, <1>8 DEF CameBefore
      <4>2. p \in QQ /\ At(items, p) = new[k]
        BY <3>1, <2>2 DEF x
      <4>3. ASSUME NEW r \in QQ, Earlier(r, p) PROVE CameBefore(new, k, At(items, r))
        <5>1. r \in Q
          BY <4>3
        <5>2. PICK j \in DOMAIN out : out[j] = At(items, r)
          BY <5>1, <1>6, <1>8 DEF AllIn
        <5>3. j \in 1 .. k - 1 /\ new[j] = out[j]
          BY <3>1, <2>2, <2>3, <1>2
        <5> QED BY <5>2, <5>3 DEF CameBefore
      <4> QED BY <4>1, <4>2, <4>3
    <3>2. CASE k # n
      <4>1. k \in DOMAIN out /\ new[k] = out[k]
        BY <3>2, <2>2, <2>3, <1>1, <1>2
      <4>2. \A j \in 1 .. k - 1 : new[j] = out[j]
        BY <4>1, <2>2, <1>1, <1>2
      <4>3. \A y : CameBefore(new, k, y) <=> CameBefore(out, k, y)
        BY <4>2 DEF CameBefore
      <4> QED BY <4>1, <4>3, <1>3
    <3> QED BY <3>1, <3>2
  <2>5. ASSUME NEW q \in QQ PROVE \E k \in DOMAIN new : new[k] = At(items, q)
    <3>1. CASE q = p
      BY <3>1, <2>2, <2>3 DEF x
    <3>2. CASE q \in Q
      <4>1. PICK k \in DOMAIN out : out[k] = At(items, q)
        BY <3>2, <1>6, <1>8 DEF AllIn
      <4>2. k \in 1 .. n /\ new[k] = out[k]
        BY <2>2, <2>3, <1>1, <1>2
      <4> QED BY <4>1, <4>2, <2>2
    <3> QED BY <3>1, <3>2
  <2>6. InTurn(new, items, QQ) /\ AllIn(new, items, QQ)
    BY <2>2, <2>4, <2>5 DEF InTurn, AllIn
  <2>7. FirstOf(new, items, QQ, m)
    BY <2>2, <2>3, <2>6 DEF FirstOf
  <2> QED BY <2>1, <2>7 DEF x
<1> QED BY <1>5, <1>7, <1>8

\* Pushing all that one token stands for.
LEMMA RowKeeps ==
  ASSUME NEW T, NEW out \in Seq(T), NEW items \in Seq(Seq(T)), NEW m \in Positive,
         NEW n \in 1 .. Len(items), NEW Q, \A q \in Q : q[1] \in Nat /\ q[1] < n,
         FirstOf(out, items, Q, m)
  PROVE  FirstOf(AddAll(out, items[n], m), items, Q \cup ({n} \X DOMAIN items[n]), m)
<1> DEFINE row == items[n]
           f == AddedBy(out, row, m)
           Reached(k) == Q \cup ({n} \X (1 .. k))
           P == {k \in Nat : k <= Len(row) => FirstOf(f[k], items, Reached(k), m)}
<1>1. row \in Seq(T)
  BY SeqParts
<1>2. /\ f \in [0 .. Len(row) -> Seq(T)] /\ f[0] = out
      /\ \A k \in 1 .. Len(row) : f[k] = AddNew(f[k - 1], row[k], m)
  BY <1>1, AddedSteps
<1>3. DOMAIN row = 1 .. Len(row) /\ Len(row) \in Nat
  BY <1>1, SeqParts
<1> HIDE DEF f
<1>4. 0 \in P
  <2>1. {n} \X (1 .. 0) = {}
    OBVIOUS
  <2>2. Reached(0) = Q
    BY <2>1
  <2> HIDE DEF Reached
  <2> QED BY <1>2, <2>2
<1>5. ASSUME NEW k \in P PROVE k + 1 \in P
  <2>1. SUFFICES ASSUME k + 1 <= Len(row) PROVE FirstOf(f[k + 1], items, Reached(k + 1), m)
    OBVIOUS
  <2>2. k \in Nat /\ k + 1 \in 1 .. Len(row) /\ (k + 1) - 1 = k /\ k \in 0 .. Len(row)
    <3>1. k \in Nat
      OBVIOUS
    <3>2. Len(row) \in Nat
      BY <1>3
    <3> HIDE DEF P, Reached, row
    <3> QED BY <2>1, <3>1, <3>2
  <2>3. FirstOf(f[k], items, Reached(k), m)
    BY <2>2
  <2> DEFINE p == <<n, k + 1>>
  <2>4. Reached(k + 1) = Reached(k) \cup {p}
    <3>1. 1 .. k + 1 = (1 .. k) \cup {k + 1}
      BY <2>2
    <3> QED BY <3>1
  <2>5. At(items, p) = row[k + 1] /\ row[k + 1] \in T
    BY <2>2, <1>1, SeqParts DEF At
  <2>6. ~Earlier(p, p)
    BY <2>2 DEF Earlier
  <2>7. ASSUME NEW q \in Reached(k) PROVE Earlier(q, p) /\ ~Earlier(p, q)
    <3>1. CASE q \in Q
      <4>1. q[1] \in Nat /\ q[1] < n /\ p[1] = n
        BY <3>1
      <4> HIDE DEF p
      <4> QED BY <4>1 DEF Earlier
    <3>2. CASE q \in {n} \X (1 .. k)
      <4>1. q[1] = n /\ q[2] \in 1 .. k /\ p[1] = n /\ p[2] = k + 1
        BY <3>2
      <4> HIDE DEF p
      <4> QED BY <4>1, <2>2 DEF Earlier
    <3> QED BY <3>1, <3>2
  <2>8. f[k] \in Seq(T)
    BY <1>2, <2>2
  <2>9. f[k + 1] = AddNew(f[k], At(items, p), m)
    BY <1>2, <2>2, <2>5
  <2> DEFINE g == f[k]
             x == At(items, p)
             R == Reached(k)
  <2>10. x \in T
    BY <2>5
  <2> HIDE DEF p, Reached, P, row
  <2>11. FirstOf(AddNew(g, At(items, p), m), items, R \cup {p}, m)
    <3>1. g \in Seq(T) /\ At(items, p) \in T /\ FirstOf(g, items, R, m)
      BY <2>3, <2>8, <2>10
    <3>2. \A q \in R : Earlier(q, p) /\ ~Earlier(p, q)
      BY <2>7
    <3> HIDE DEF g, x, R
    <3> QED BY <2>6, <3>1, <3>2, PushKeeps
  <2> QED BY <2>4, <2>9, <2>11
<1>6. P = Nat
  <2> HIDE DEF P
  <2>1. P \in SUBSET Nat
    BY DEF P
  <2> QED BY <1>4, <1>5, <2>1, NatSetInduction
<1>7. Len(row) \in P /\ Len(row) <= Len(row)
  <2> HIDE DEF P, row
  <2> QED BY <1>3, <1>6
<1>8. FirstOf(f[Len(row)], items, Reached(Len(row)), m)
  BY <1>7
<1>9. AddAll(out, row, m) = f[Len(row)]
  BY AddAllLast DEF f
<1> QED BY <1>3, <1>8, <1>9

\* The loaders return every element at the first of its places.
LEMMA CollectFirst ==
  ASSUME NEW T, NEW items \in Seq(Seq(T)), NEW m \in Positive
  PROVE  Collect(items, m) \in Seq(T) /\ FirstOf(Collect(items, m), items, Places(items), m)
<1> DEFINE N == Len(items)
           f == CollectedBy(items, m)
           Reached(n) == UNION {{i} \X DOMAIN items[i] : i \in 1 .. n}
           P == {n \in Nat : n <= N => FirstOf(f[n], items, Reached(n), m)}
<1>1. /\ f \in [0 .. N -> Seq(T)] /\ f[0] = <<>>
      /\ \A n \in 1 .. N : f[n] = AddAll(f[n - 1], items[n], m)
  BY CollectedSteps
<1>2. N \in Nat /\ DOMAIN items = 1 .. N
  BY SeqParts
<1> HIDE DEF f
<1>3. 0 \in P
  <2>1. Reached(0) = {}
    OBVIOUS
  <2>2. DOMAIN f[0] = {} /\ Len(f[0]) = 0
    BY <1>1, SeqEmpty
  <2>3. 0 <= m
    BY DEF Positive
  <2> HIDE DEF Reached
  <2> QED BY <2>1, <2>2, <2>3 DEF FirstOf, InTurn, AllIn
<1>4. ASSUME NEW n \in P PROVE n + 1 \in P
  <2>1. SUFFICES ASSUME n + 1 <= N PROVE FirstOf(f[n + 1], items, Reached(n + 1), m)
    OBVIOUS
  <2>2. n \in Nat /\ n + 1 \in 1 .. N /\ (n + 1) - 1 = n /\ n \in 0 .. N
    BY <2>1, <1>2
  <2>3. FirstOf(f[n], items, Reached(n), m) /\ f[n] \in Seq(T)
    <3>1. n <= N
      BY <2>2, <1>2
    <3>2. FirstOf(f[n], items, Reached(n), m)
      BY <3>1
    <3> HIDE DEF P, Reached
    <3> QED BY <2>2, <1>1, <3>2
  <2>4. \A q \in Reached(n) : q[1] \in Nat /\ q[1] < n + 1
    <3>1. SUFFICES ASSUME NEW i \in 1 .. n, NEW q \in {i} \X DOMAIN items[i]
                   PROVE  q[1] \in Nat /\ q[1] < n + 1
      OBVIOUS
    <3>2. q[1] = i
      OBVIOUS
    <3> QED BY <3>2, <2>2
  <2>5. Reached(n + 1) = Reached(n) \cup ({n + 1} \X DOMAIN items[n + 1])
    <3>1. 1 .. n + 1 = (1 .. n) \cup {n + 1}
      BY <2>2
    <3> QED BY <3>1
  <2> DEFINE g == f[n]
             R == Reached(n)
             l == n + 1
  <2>6. l \in 1 .. Len(items) /\ g \in Seq(T) /\ FirstOf(g, items, R, m)
    BY <2>2, <2>3
  <2>7. \A q \in R : q[1] \in Nat /\ q[1] < l
    BY <2>4
  <2>8. FirstOf(AddAll(g, items[l], m), items, R \cup ({l} \X DOMAIN items[l]), m)
    <3> HIDE DEF g, R, l, P, Reached, N
    <3> QED BY <2>6, <2>7, RowKeeps
  <2>9. f[n + 1] = AddAll(f[n], items[n + 1], m)
    BY <1>1, <2>2
  <2> HIDE DEF P, Reached
  <2> QED BY <2>5, <2>8, <2>9
<1>5. P = Nat
  <2> HIDE DEF P
  <2>1. P \in SUBSET Nat
    BY DEF P
  <2> QED BY <1>3, <1>4, <2>1, NatSetInduction
<1>6. N \in P /\ N <= N
  <2> HIDE DEF P, N
  <2> QED BY <1>2, <1>5
<1>7. FirstOf(f[N], items, Reached(N), m)
  BY <1>6
<1>8. Collect(items, m) = f[N]
  BY CollectLast DEF f
<1>9. Reached(N) = Places(items)
  BY <1>2 DEF Places
<1>10. f[N] \in Seq(T)
  BY <1>1, <1>2
<1> QED BY <1>7, <1>8, <1>9, <1>10

-----------------------------------------------------------------------------
(* Sampling a network. *)

\* The first l elements of s are different.
ApartUpTo(s, l) == \A i \in 1 .. l : \A j \in 1 .. i - 1 : s[j] # s[i]

\* Two sequences one behind the other.
LEMMA Joined ==
  ASSUME NEW T, NEW s \in Seq(T), NEW t \in Seq(T)
  PROVE  /\ s \o t \in Seq(T) /\ Len(s \o t) = Len(s) + Len(t)
         /\ \A i \in 1 .. Len(s) : (s \o t)[i] = s[i]
OBVIOUS

\* What is new and fits is taken as it comes.
LEMMA PrefixTaken ==
  ASSUME NEW T, NEW s \in Seq(T), NEW m \in Nat, NEW l \in Nat, l <= m, l <= Len(s),
         ApartUpTo(s, l)
  PROVE  /\ AddAll(<<>>, s, m) \in Seq(T) /\ Len(AddAll(<<>>, s, m)) >= l
         /\ \A i \in 1 .. l : AddAll(<<>>, s, m)[i] = s[i]
         /\ l = Len(s) => Len(AddAll(<<>>, s, m)) = l
<1> DEFINE none == <<>>
           f == AddedBy(none, s, m)
           As(n) == Len(f[n]) = n /\ \A i \in 1 .. n : f[n][i] = s[i]
           P == {n \in Nat : n <= l => As(n)}
           From(n) == Len(f[n]) >= l /\ \A i \in 1 .. l : f[n][i] = s[i]
           R == {n \in Nat : l <= n /\ n <= Len(s) => From(n)}
<1>0. none \in Seq(T)
  BY SeqEmpty
<1>1. /\ f \in [0 .. Len(s) -> Seq(T)] /\ f[0] = <<>>
      /\ \A n \in 1 .. Len(s) : f[n] = AddNew(f[n - 1], s[n], m)
  <2>1. /\ f \in [0 .. Len(s) -> Seq(T)] /\ f[0] = none
        /\ \A n \in 1 .. Len(s) : f[n] = AddNew(f[n - 1], s[n], m)
    <3> HIDE DEF none
    <3> QED BY <1>0, AddedSteps
  <2> QED BY <2>1
<1>2. Len(s) \in Nat /\ DOMAIN s = 1 .. Len(s)
  BY SeqParts
<1> HIDE DEF f
<1>3. 0 \in P
  BY <1>1, SeqEmpty
<1>4. ASSUME NEW n \in P PROVE n + 1 \in P
  <2>1. SUFFICES ASSUME n + 1 <= l PROVE As(n + 1)
    OBVIOUS
  <2>2. n \in Nat /\ n + 1 \in 1 .. Len(s) /\ (n + 1) - 1 = n /\ n \in 0 .. Len(s) /\ n + 1 \in 1 .. l /\ n < m
    BY <2>1, <1>2
  <2>3. As(n)
    BY <2>1, <2>2
  <2> DEFINE g == f[n]
             x == s[n + 1]
  <2>4. g \in Seq(T) /\ x \in T
    BY <1>1, <2>2, SeqParts, <1>2
  <2>5. f[n + 1] = AddNew(g, x, m)
    BY <1>1, <2>2
  <2>6. Len(g) = n /\ \A i \in 1 .. n : g[i] = s[i] /\ s[i] # x
    BY <2>2, <2>3 DEF ApartUpTo
  <2> HIDE DEF g, x
  <2>7. DOMAIN g = 1 .. n
    BY <2>4, <2>6
  <2>8. AddNew(g, x, m) = Append(g, x)
    BY <2>2, <2>6, <2>7 DEF AddNew
  <2>9. Len(Append(g, x)) = n + 1 /\ \A i \in 1 .. n + 1 : Append(g, x)[i] = IF i = n + 1 THEN x ELSE g[i]
    BY <2>4, <2>6
  <2> QED BY <2>2, <2>5, <2>6, <2>8, <2>9 DEF x
<1>5. P = Nat
  <2> HIDE DEF P
  <2>1. P \in SUBSET Nat
    BY DEF P
  <2> QED BY <1>3, <1>4, <2>1, NatSetInduction
<1>6. As(l)
  <2>1. l \in P /\ l <= l
    <3> HIDE DEF P
    <3> QED BY <1>5
  <2> QED BY <2>1
<1>7. 0 \in R
  <2>1. SUFFICES ASSUME l <= 0 PROVE From(0)
    OBVIOUS
  <2>2. l = 0
    BY <2>1
  <2> QED BY <1>6, <2>2
<1>8. ASSUME NEW n \in R PROVE n + 1 \in R
  <2>1. SUFFICES ASSUME l <= n + 1, n + 1 <= Len(s) PROVE From(n + 1)
    OBVIOUS
  <2>2. CASE n + 1 = l
    BY <1>6, <2>2
  <2>3. CASE n + 1 # l
    <3>1. l <= n /\ n \in Nat /\ n <= Len(s) /\ n + 1 \in 1 .. Len(s) /\ (n + 1) - 1 = n /\ n \in 0 .. Len(s)
      BY <2>1, <2>3, <1>2
    <3>2. From(n)
      BY <3>1
    <3> DEFINE g == f[n]
               x == s[n + 1]
    <3>3. g \in Seq(T) /\ x \in T
      BY <1>1, <3>1, SeqParts, <1>2
    <3>4. f[n + 1] = AddNew(g, x, m)
      BY <1>1, <3>1
    <3>5. Len(g) >= l /\ Len(g) \in Nat /\ \A i \in 1 .. l : g[i] = s[i]
      BY <3>2, <3>3
    <3> HIDE DEF g, x
    <3>6. Len(Append(g, x)) = Len(g) + 1 /\ \A i \in 1 .. Len(g) : Append(g, x)[i] = g[i]
      BY <3>3
    <3>7. Len(Append(g, x)) >= l /\ \A i \in 1 .. l : Append(g, x)[i] = s[i]
      BY <3>5, <3>6
    <3>8. AddNew(g, x, m) \in {g, Append(g, x)}
      BY DEF AddNew
    <3> QED BY <3>4, <3>5, <3>7, <3>8
  <2> QED BY <2>2, <2>3
<1>9. R = Nat
  <2> HIDE DEF R
  <2>1. R \in SUBSET Nat
    BY DEF R
  <2> QED BY <1>7, <1>8, <2>1, NatSetInduction
<1>10. From(Len(s))
  <2>1. Len(s) \in R /\ l <= Len(s) /\ Len(s) <= Len(s)
    <3> HIDE DEF R
    <3> QED BY <1>2, <1>9
  <2> QED BY <2>1
<1>11. AddAll(<<>>, s, m) = f[Len(s)]
  BY AddAllLast DEF f
<1>12. f[Len(s)] \in Seq(T)
  BY <1>1, <1>2
<1>13. l = Len(s) => Len(f[Len(s)]) = l
  BY <1>6
<1> QED BY <1>10, <1>11, <1>12, <1>13

\* The first elements of a sequence.
LEMMA CutAt ==
  ASSUME NEW T, NEW s \in Seq(T), NEW n \in Nat
  PROVE  /\ AtMost(s, n) \in Seq(T) /\ Len(AtMost(s, n)) = Least(n, Len(s))
         /\ \A i \in 1 .. Least(n, Len(s)) : AtMost(s, n)[i] = s[i]
<1>1. Least(n, Len(s)) \in 0 .. Len(s)
  BY DEF Least
<1> DEFINE l == Least(n, Len(s))
<1> HIDE DEF l
<1>2. SubSeq(s, 1, l) \in Seq(T) /\ Len(SubSeq(s, 1, l)) = l /\ \A i \in 1 .. l : SubSeq(s, 1, l)[i] = s[i]
  BY <1>1 DEF l
<1> QED BY <1>2 DEF AtMost, l

\* Two sequences that begin alike are cut alike.
LEMMA SameFirst ==
  ASSUME NEW T, NEW s \in Seq(T), NEW t \in Seq(T), Len(s) = Len(t), \A i \in 1 .. Len(s) : s[i] = t[i]
  PROVE  s = t
OBVIOUS

\* What _sample_hosts() makes of a network of more than two addresses.
LEMMA SampleLarge ==
  ASSUME NEW base \in Nat, NEW size \in Positive, NEW per \in Positive, NEW pick \in Seq(Nat), size > 2
  PROVE  SampleHosts(base, size, per, pick) = FirstHosts(base, size, per)
<1> DEFINE l == Least(per, size - 2)
           F == FirstHosts(base, size, per)
           random == IF size > per * 4 THEN [i \in DOMAIN pick |-> base + pick[i]] ELSE <<>>
           hosts == F \o random
           out == AddAll(<<>>, hosts, 2 * per)
<1>1. size \in Nat /\ per \in Nat /\ per > 0 /\ l \in Nat /\ l <= per /\ 2 * per \in Nat /\ l <= 2 * per
  BY DEF Positive, Least
<1>2. size > per * 4 => l = per
  BY <1>1 DEF Least
<1> HIDE DEF l
<1>3. F = [i \in 1 .. l |-> base + i]
  BY DEF FirstHosts, l
<1>4. F \in Seq(Nat) /\ Len(F) = l /\ \A i \in 1 .. l : F[i] = base + i
  <2>1. F \in [1 .. l -> Nat]
    BY <1>1, <1>3
  <2>2. \A i \in 1 .. l : F[i] = base + i
    BY <1>3
  <2> HIDE DEF F
  <2> QED BY <1>1, <2>1, <2>2, SeqMade
<1> HIDE DEF F
<1>5. random \in Seq(Nat) /\ (~(size > per * 4) => random = <<>>)
  <2> DEFINE r == [i \in DOMAIN pick |-> base + pick[i]]
  <2>1. r \in [1 .. Len(pick) -> Nat] /\ Len(pick) \in Nat
    <3>1. DOMAIN pick = 1 .. Len(pick) /\ \A i \in DOMAIN pick : pick[i] \in Nat
      BY SeqParts
    <3> QED BY <3>1
  <2> HIDE DEF r
  <2>2. r \in Seq(Nat)
    BY <2>1, SeqMade
  <2>3. <<>> \in Seq(Nat)
    BY SeqEmpty
  <2> QED BY <2>2, <2>3 DEF r
<1> HIDE DEF random
<1>6. hosts \in Seq(Nat) /\ Len(hosts) = l + Len(random) /\ \A i \in 1 .. l : hosts[i] = base + i
  BY <1>4, <1>5, Joined
<1>7. ~(size > per * 4) => Len(hosts) = l
  <2>1. random = <<>> => Len(random) = 0
    BY SeqEmpty
  <2> QED BY <1>1, <1>5, <1>6, <2>1
<1> HIDE DEF hosts
<1>8. l <= Len(hosts) /\ ApartUpTo(hosts, l)
  <2>1. Len(random) \in Nat
    BY <1>5
  <2> QED BY <1>1, <1>6, <2>1 DEF ApartUpTo
<1> DEFINE mm == 2 * per
<1>9. /\ out \in Seq(Nat) /\ Len(out) >= l
      /\ \A i \in 1 .. l : out[i] = hosts[i]
      /\ l = Len(hosts) => Len(out) = l
  <2>1. mm \in Nat /\ l <= mm
    BY <1>1
  <2>2. out = AddAll(<<>>, hosts, mm)
    OBVIOUS
  <2> HIDE DEF mm, out
  <2>3. /\ AddAll(<<>>, hosts, mm) \in Seq(Nat) /\ Len(AddAll(<<>>, hosts, mm)) >= l
        /\ \A i \in 1 .. l : AddAll(<<>>, hosts, mm)[i] = hosts[i]
        /\ l = Len(hosts) => Len(AddAll(<<>>, hosts, mm)) = l
    BY <2>1, <1>1, <1>6, <1>8, PrefixTaken
  <2> QED BY <2>2, <2>3
<1>10. SampleHosts(base, size, per, pick) = AtMost(out, per)
  BY <1>1 DEF SampleHosts, out, hosts, random, F
<1> HIDE DEF out
<1>11. Least(per, Len(out)) = l
  <2>1. CASE size > per * 4
    BY <2>1, <1>1, <1>2, <1>9 DEF Least
  <2>2. CASE ~(size > per * 4)
    BY <2>2, <1>1, <1>7, <1>9 DEF Least
  <2> QED BY <2>1, <2>2
<1> DEFINE cut == AtMost(out, per)
<1>12. cut \in Seq(Nat) /\ Len(cut) = l /\ \A i \in 1 .. l : cut[i] = out[i]
  BY <1>1, <1>9, <1>11, CutAt
<1> HIDE DEF cut
<1>13. \A i \in 1 .. l : cut[i] = F[i]
  BY <1>4, <1>6, <1>9, <1>12
<1>14. cut = F
  BY <1>4, <1>12, <1>13, SameFirst
<1> QED BY <1>10, <1>14 DEF cut, F

\* What _sample_hosts() makes of a network of one or two addresses.
LEMMA SampleSmall ==
  ASSUME NEW base \in Nat, NEW per \in Positive, NEW pick \in Seq(Nat)
  PROVE  /\ SampleHosts(base, 1, per, pick) = <<base>>
         /\ SampleHosts(base, 2, per, pick) = [i \in 1 .. Least(2, per) |-> base + i - 1]
<1>1. SampleHosts(base, 1, per, pick) = <<base>>
  BY DEF SampleHosts
<1> DEFINE two == <<base, base + 1>>
           l == Least(2, per)
           made == [i \in 1 .. l |-> base + i - 1]
<1>2. SampleHosts(base, 2, per, pick) = AtMost(two, per)
  BY DEF SampleHosts
<1>3. two \in Seq(Nat) /\ Len(two) = 2 /\ two[1] = base /\ two[2] = base + 1
  OBVIOUS
<1> HIDE DEF two
<1>4. per \in Nat /\ per > 0 /\ l \in Nat /\ l \in {1, 2} /\ Least(per, Len(two)) = l
  BY <1>3 DEF Positive, Least
<1> HIDE DEF l
<1> DEFINE cut == AtMost(two, per)
<1>5. cut \in Seq(Nat) /\ Len(cut) = l /\ \A i \in 1 .. l : cut[i] = two[i]
  BY <1>3, <1>4, CutAt
<1>6. \A i \in 1 .. l : two[i] = base + i - 1
  BY <1>3, <1>4
<1>7. made \in [1 .. l -> Nat] /\ \A i \in 1 .. l : made[i] = base + i - 1
  BY <1>4
<1> HIDE DEF made, cut
<1>8. made \in Seq(Nat) /\ Len(made) = l
  BY <1>4, <1>7, SeqMade
<1>9. cut = made
  BY <1>5, <1>6, <1>7, <1>8, SameFirst
<1> QED BY <1>1, <1>2, <1>9 DEF cut, made, l

\* The hosts that are handed out are of the network.
LEMMA HostsWithin ==
  ASSUME NEW base \in Nat, NEW size \in Positive, NEW per \in Positive, NEW pick \in Seq(Nat)
  PROVE  /\ SampleHosts(base, size, per, pick) \in Seq(Nat)
         /\ \A i \in DOMAIN SampleHosts(base, size, per, pick) :
              LET h == SampleHosts(base, size, per, pick)[i] IN base <= h /\ h <= base + size - 1
<1> DEFINE hosts == SampleHosts(base, size, per, pick)
           Good(s) == s \in Seq(Nat) /\ \A i \in DOMAIN s : base <= s[i] /\ s[i] <= base + size - 1
<1>1. size \in Nat /\ size > 0 /\ per \in Nat /\ per > 0
  BY DEF Positive
<1>2. ASSUME NEW n \in Nat, NEW s \in [1 .. n -> Nat],
             \A i \in 1 .. n : base <= s[i] /\ s[i] <= base + size - 1
      PROVE  Good(s)
  BY <1>2, SeqMade
<1>3. CASE size = 1
  <2>1. hosts = <<base>>
    BY <1>3, SampleSmall
  <2>2. Good(<<base>>)
    BY <1>3
  <2> HIDE DEF hosts
  <2>3. Good(hosts)
    BY <2>1, <2>2
  <2> QED BY <2>3 DEF hosts
<1>4. CASE size = 2
  <2> DEFINE n == Least(2, per)
             s == [i \in 1 .. n |-> base + i - 1]
  <2>1. hosts = s
    BY <1>4, SampleSmall
  <2>2. n \in Nat /\ n <= 2
    BY <1>1 DEF Least
  <2> HIDE DEF n, hosts
  <2>3. s \in [1 .. n -> Nat] /\ \A i \in 1 .. n : base <= s[i] /\ s[i] <= base + size - 1
    BY <1>4, <2>2
  <2> HIDE DEF s
  <2>4. Good(s)
    BY <2>2, <2>3, <1>2
  <2> HIDE DEF Good
  <2>5. Good(hosts)
    BY <2>1, <2>4
  <2> QED BY <2>5 DEF hosts, Good
<1>5. CASE size > 2
  <2> DEFINE n == Least(per, size - 2)
             s == [i \in 1 .. n |-> base + i]
  <2>1. hosts = s
    BY <1>5, SampleLarge DEF FirstHosts
  <2>2. n \in Nat /\ n <= size - 2
    BY <1>1, <1>5 DEF Least
  <2> HIDE DEF n, hosts
  <2>3. s \in [1 .. n -> Nat] /\ \A i \in 1 .. n : base <= s[i] /\ s[i] <= base + size - 1
    BY <1>1, <2>2
  <2> HIDE DEF s
  <2>4. Good(s)
    BY <2>2, <2>3, <1>2
  <2> HIDE DEF Good
  <2>5. Good(hosts)
    BY <2>1, <2>4
  <2> QED BY <2>5 DEF hosts, Good
<1> QED BY <1>1, <1>3, <1>4, <1>5

-----------------------------------------------------------------------------
(* The theorems about the candidate lists. *)

\* Endpoints are pairs of an address and a port.
Endpoints == Nat \X Int

\* An endpoint of a token has a valid port and an address of the token's network.
LEMMA ExpandGood ==
  ASSUME NEW tok \in IpTokens, NEW d \in Int, NEW per \in Positive, NEW pick \in Seq(Nat)
  PROVE  /\ Expand(tok, d, per, pick) \in Seq(Endpoints)
         /\ \A k \in DOMAIN Expand(tok, d, per, pick) :
              LET e == Expand(tok, d, per, pick)[k] IN ValidPort(e[2]) /\ Within(e[1], tok)
<1> DEFINE port == IF tok.port = NoPort THEN d ELSE tok.port
           hosts == IF tok.size = NoNet \/ ~ValidPort(port) THEN <<>>
               ELSE IF tok.size = 0 THEN <<tok.base>>
               ELSE SampleHosts(tok.base, tok.size, per, pick)
           eps == [i \in DOMAIN hosts |-> <<hosts[i], port>>]
<1>1. Expand(tok, d, per, pick) = eps
  BY DEF Expand
<1>2. tok.base \in Nat /\ tok.size \in Sizes /\ tok.port \in Int /\ port \in Int
  BY DEF IpTokens
<1> HIDE DEF port
<1>3. /\ hosts \in Seq(Nat)
      /\ DOMAIN hosts # {} => ValidPort(port)
      /\ \A i \in DOMAIN hosts : Within(hosts[i], tok)
  <2>1. CASE tok.size = NoNet \/ ~ValidPort(port)
    <3>1. hosts = <<>>
      BY <2>1
    <3> HIDE DEF hosts
    <3> QED BY <3>1, SeqEmpty
  <2>2. CASE ~(tok.size = NoNet \/ ~ValidPort(port)) /\ tok.size = 0
    <3>1. hosts = <<tok.base>>
      BY <2>2
    <3>2. Within(tok.base, tok)
      BY <1>2, <2>2 DEF Within
    <3> HIDE DEF hosts
    <3> QED BY <1>2, <2>2, <3>1, <3>2
  <2>3. CASE ~(tok.size = NoNet \/ ~ValidPort(port)) /\ tok.size # 0
    <3>1. hosts = SampleHosts(tok.base, tok.size, per, pick)
      BY <2>3
    <3>2. tok.size \in Positive
      BY <1>2, <2>3 DEF Positive, Sizes
    <3> DEFINE b == tok.base
               z == tok.size
    <3>3. b \in Nat /\ z \in Positive /\ hosts = SampleHosts(b, z, per, pick)
      BY <3>1, <3>2, <1>2
    <3> HIDE DEF hosts, b, z
    <3>4. hosts \in Seq(Nat) /\ \A i \in DOMAIN hosts : b <= hosts[i] /\ hosts[i] <= b + z - 1
      BY <3>3, HostsWithin
    <3>5. \A i \in DOMAIN hosts : Within(hosts[i], tok)
      BY <2>3, <3>4 DEF Within, b, z
    <3> QED BY <2>3, <3>4, <3>5
  <2> QED BY <2>1, <2>2, <2>3
<1> HIDE DEF hosts
<1>4. DOMAIN hosts = 1 .. Len(hosts) /\ Len(hosts) \in Nat /\ \A i \in DOMAIN hosts : hosts[i] \in Nat
  BY <1>3, SeqParts
<1>5. /\ eps \in [1 .. Len(hosts) -> Endpoints] /\ DOMAIN eps = DOMAIN hosts
      /\ \A i \in DOMAIN hosts : eps[i][1] = hosts[i] /\ eps[i][2] = port
  BY <1>2, <1>4 DEF Endpoints
<1> HIDE DEF eps
<1>6. eps \in Seq(Endpoints)
  BY <1>4, <1>5, SeqMade
<1>7. \A k \in DOMAIN eps : ValidPort(eps[k][2]) /\ Within(eps[k][1], tok)
  BY <1>3, <1>5
<1> QED BY <1>1, <1>6, <1>7

\* What the tokens of an endpoint list stand for is good.
LEMMA IpItemsTyped ==
  ASSUME NEW c \in IpCalls
  PROVE  /\ IpItems(c.toks, c.default_port, c.per_cidr, c.pick) \in Seq(Seq(Endpoints))
         /\ DOMAIN IpItems(c.toks, c.default_port, c.per_cidr, c.pick) = DOMAIN c.toks
         /\ c.max_total \in Positive
         /\ \A i \in DOMAIN c.toks :
              LET row == IpItems(c.toks, c.default_port, c.per_cidr, c.pick)[i]
              IN  \A k \in DOMAIN row :
                    ~Commented(c.toks, i) /\ ValidPort(row[k][2]) /\ Within(row[k][1], c.toks[i])
<1> DEFINE toks == c.toks
           d == c.default_port
           per == c.per_cidr
           pick == c.pick
           items == IpItems(toks, d, per, pick)
<1>1. toks \in Seq(IpTokens) /\ d \in Int /\ per \in Positive /\ c.max_total \in Positive /\ pick \in Seq(Nat)
  BY DEF IpCalls
<1> HIDE DEF toks, d, per, pick
<1>2. DOMAIN toks = 1 .. Len(toks) /\ Len(toks) \in Nat /\ \A i \in DOMAIN toks : toks[i] \in IpTokens
  BY <1>1, SeqParts
<1>3. ASSUME NEW i \in DOMAIN toks
      PROVE  /\ items[i] \in Seq(Endpoints)
             /\ \A k \in DOMAIN items[i] : ~Commented(toks, i) /\ ValidPort(items[i][k][2])
                                             /\ Within(items[i][k][1], toks[i])
  <2> DEFINE t == toks[i]
             e == Expand(t, d, per, pick)
  <2>1. t \in IpTokens
    BY <1>2
  <2>2. items[i] = IF Commented(toks, i) THEN <<>> ELSE e
    BY DEF IpItems
  <2>3. e \in Seq(Endpoints) /\ \A k \in DOMAIN e : ValidPort(e[k][2]) /\ Within(e[k][1], t)
    <3> HIDE DEF t
    <3> QED BY <1>1, <2>1, ExpandGood
  <2> HIDE DEF items, e
  <2>4. CASE Commented(toks, i)
    BY <2>2, <2>4, SeqEmpty
  <2>5. CASE ~Commented(toks, i)
    BY <2>2, <2>3, <2>5
  <2> QED BY <2>4, <2>5
<1>4. items = [i \in 1 .. Len(toks) |-> items[i]] /\ DOMAIN items = DOMAIN toks
  BY <1>2 DEF IpItems
<1> HIDE DEF items
<1>5. items \in [1 .. Len(toks) -> Seq(Endpoints)]
  BY <1>2, <1>3, <1>4
<1>6. items \in Seq(Seq(Endpoints))
  BY <1>2, <1>5, SeqMade
<1> QED BY <1>1, <1>3, <1>4, <1>6 DEF items, toks, d, per, pick

\* What the tokens of an SNI list stand for are names.
LEMMA SniItemsTyped ==
  ASSUME NEW toks \in Seq(SniTokens)
  PROVE  SniItems(toks) \in Seq(Seq(Names))
<1> DEFINE items == SniItems(toks)
<1>1. DOMAIN toks = 1 .. Len(toks) /\ Len(toks) \in Nat /\ \A i \in DOMAIN toks : toks[i] \in SniTokens
  BY SeqParts
<1>2. ASSUME NEW i \in DOMAIN toks PROVE items[i] \in Seq(Names)
  <2> DEFINE x == toks[i].name
             one == <<x>>
  <2>1. items[i] = IF toks[i].hash = "start" \/ ~toks[i].plausible THEN <<>> ELSE one
    BY DEF SniItems
  <2>2. x \in Names
    BY <1>1 DEF SniTokens
  <2>3. one \in Seq(Names)
    <3> HIDE DEF x
    <3> QED BY <2>2
  <2> HIDE DEF items, one
  <2> QED BY <2>1, <2>3, SeqEmpty
<1>3. items = [i \in 1 .. Len(toks) |-> items[i]]
  BY <1>1 DEF SniItems
<1> HIDE DEF items
<1>4. items \in [1 .. Len(toks) -> Seq(Names)]
  BY <1>1, <1>2, <1>3
<1>5. items \in Seq(Seq(Names))
  BY <1>1, <1>4, SeqMade
<1> QED BY <1>5 DEF items

\* The loaders on any call.
LEMMA ListsHold ==
  ASSUME asked \in SniCalls \cup IpCalls \cup NetCalls
  PROVE  ListsClean
<1>1. ASSUME asked.kind = "snis"
      PROVE  FirstOf(LoadSniList(asked.toks, asked.max_total), SniItems(asked.toks),
                     Places(SniItems(asked.toks)), asked.max_total)
  <2>1. asked.toks \in Seq(SniTokens) /\ asked.max_total \in Positive
    BY <1>1 DEF SniCalls, IpCalls, NetCalls
  <2>2. SniItems(asked.toks) \in Seq(Seq(Names))
    BY <2>1, SniItemsTyped
  <2> QED BY <2>1, <2>2, CollectFirst DEF LoadSniList
<1>2. ASSUME asked.kind = "ips"
      PROVE  LET items == IpItems(asked.toks, asked.default_port, asked.per_cidr, asked.pick)
                 out == LoadIpList(asked.toks, asked.default_port, asked.per_cidr, asked.max_total, asked.pick)
             IN  /\ FirstOf(out, items, Places(items), asked.max_total)
                 /\ \A k \in DOMAIN out :
                      /\ ValidPort(out[k][2])
                      /\ \E i \in DOMAIN asked.toks :
                           ~Commented(asked.toks, i) /\ Within(out[k][1], asked.toks[i])
  <2> DEFINE items == IpItems(asked.toks, asked.default_port, asked.per_cidr, asked.pick)
             m == asked.max_total
             out == Collect(items, m)
  <2>1. asked \in IpCalls
    BY <1>2 DEF SniCalls, IpCalls, NetCalls
  <2>2. /\ items \in Seq(Seq(Endpoints)) /\ DOMAIN items = DOMAIN asked.toks /\ m \in Positive
        /\ \A i \in DOMAIN asked.toks : \A k \in DOMAIN items[i] :
             ~Commented(asked.toks, i) /\ ValidPort(items[i][k][2]) /\ Within(items[i][k][1], asked.toks[i])
    BY <2>1, IpItemsTyped
  <2>3. LoadIpList(asked.toks, asked.default_port, asked.per_cidr, m, asked.pick) = out
    BY DEF LoadIpList
  <2> HIDE DEF items, m
  <2>4. FirstOf(out, items, Places(items), m)
    BY <2>2, CollectFirst
  <2> HIDE DEF out
  <2>5. ASSUME NEW k \in DOMAIN out
        PROVE  /\ ValidPort(out[k][2])
               /\ \E i \in DOMAIN asked.toks :
                    ~Commented(asked.toks, i) /\ Within(out[k][1], asked.toks[i])
    <3>1. PICK p \in Places(items) : At(items, p) = out[k]
      BY <2>4 DEF FirstOf, InTurn
    <3>2. p[1] \in DOMAIN items /\ p[2] \in DOMAIN items[p[1]]
      BY DEF Places
    <3> QED BY <2>2, <3>1, <3>2 DEF At
  <2> QED BY <2>3, <2>4, <2>5 DEF items, m
<1> QED BY <1>1, <1>2 DEF ListsClean

\* What _sample_hosts() hands out is the first usable hosts: the random offsets
\* stand behind as many of them as are wanted, and are cut off.
LEMMA SampleExact ==
  ASSUME NEW base \in Nat, NEW size \in Positive, NEW per \in Positive, NEW pick \in Seq(Nat)
  PROVE  SampleHosts(base, size, per, pick)
           = [i \in 1 .. Least(per, Usable(size)) |-> IF size > 2 THEN base + i ELSE base + i - 1]
<1> DEFINE made == [i \in 1 .. Least(per, Usable(size)) |-> IF size > 2 THEN base + i ELSE base + i - 1]
<1>1. CASE size = 1
  <2>1. Least(per, Usable(size)) = 1 /\ ~(size > 2)
    BY <1>1 DEF Least, Usable, Positive
  <2>2. [i \in 1 .. 1 |-> base + i - 1] = <<base>>
    OBVIOUS
  <2>3. made = [i \in 1 .. 1 |-> base + i - 1]
    BY <2>1
  <2>4. SampleHosts(base, size, per, pick) = <<base>>
    BY <1>1, SampleSmall
  <2> QED BY <2>2, <2>3, <2>4
<1>2. CASE size = 2
  <2>1. Least(per, Usable(size)) = Least(2, per) /\ ~(size > 2)
    BY <1>2 DEF Least, Usable, Positive
  <2>2. made = [i \in 1 .. Least(2, per) |-> base + i - 1]
    BY <2>1
  <2>3. SampleHosts(base, size, per, pick) = [i \in 1 .. Least(2, per) |-> base + i - 1]
    BY <1>2, SampleSmall
  <2> QED BY <2>2, <2>3
<1>3. CASE size > 2
  <2>1. SampleHosts(base, size, per, pick) = FirstHosts(base, size, per)
    BY <1>3, SampleLarge
  <2> QED BY <1>3, <2>1 DEF FirstHosts, Usable
<1>4. size = 1 \/ size = 2 \/ size > 2
  BY DEF Positive
<1> QED BY <1>1, <1>2, <1>3, <1>4

\* SampleUsable holds of any call.
LEMMA SampleHolds ==
  ASSUME asked \in SniCalls \cup IpCalls \cup NetCalls
  PROVE  SampleUsable
<1> DEFINE b == asked.base
           z == asked.size
           per == asked.per_cidr
           pick == asked.pick
           last == b + z - 1
           l == Least(per, Usable(z))
           out == SampleHosts(b, z, per, pick)
<1>1. SUFFICES ASSUME asked.kind = "net"
               PROVE  /\ Len(out) = l
                      /\ \A i \in DOMAIN out :
                           /\ b <= out[i] /\ out[i] <= last
                           /\ z > 2 => out[i] # b /\ out[i] # last
                           /\ ~CameBefore(out, i, out[i])
  BY DEF SampleUsable
<1>2. b \in Nat /\ z \in Positive /\ per \in Positive /\ pick \in Seq(Nat)
  BY <1>1 DEF SniCalls, IpCalls, NetCalls
<1> HIDE DEF b, z, per, pick
<1>3. l \in Nat /\ (z > 2 => l <= z - 2) /\ (~(z > 2) => l <= z)
  BY <1>2 DEF Least, Usable, Positive
<1>4. out = [i \in 1 .. l |-> IF z > 2 THEN b + i ELSE b + i - 1]
  BY <1>2, SampleExact
<1> HIDE DEF l, out
<1>5. DOMAIN out = 1 .. l /\ Len(out) = l
  <2>1. DOMAIN out = 1 .. l
    BY <1>4
  <2>2. out \in Seq(Int)
    <3>1. out \in [1 .. l -> Int]
      BY <1>2, <1>3, <1>4 DEF Positive
    <3> QED BY <1>3, <3>1
  <2> QED BY <1>3, <2>1, <2>2
<1>6. SUFFICES ASSUME NEW i \in 1 .. l
               PROVE  /\ b <= out[i] /\ out[i] <= last
                      /\ z > 2 => out[i] # b /\ out[i] # last
                      /\ ~CameBefore(out, i, out[i])
  BY <1>5
<1>7. \A j \in 1 .. l : out[j] = IF z > 2 THEN b + j ELSE b + j - 1
  BY <1>4
<1>8. i \in Nat /\ i >= 1 /\ i <= l /\ z \in Nat
  BY <1>2, <1>3 DEF Positive
<1>9. ~CameBefore(out, i, out[i])
  <2>1. \A j \in 1 .. i - 1 : j \in 1 .. l /\ j < i
    BY <1>3, <1>8
  <2> QED BY <1>2, <1>7, <1>8, <2>1 DEF CameBefore
<1> QED BY <1>2, <1>3, <1>7, <1>8, <1>9

\* Every call is one of the calls that are asked.
LEMMA AskedTyped == LSpec => [](asked \in SniCalls \cup IpCalls \cup NetCalls)
<1>1. LInit => asked \in SniCalls \cup IpCalls \cup NetCalls
  BY ListsAssumption DEF ListsAssumption, LInit
<1>2. asked \in SniCalls \cup IpCalls \cup NetCalls /\ [UNCHANGED asked]_asked
        => (asked \in SniCalls \cup IpCalls \cup NetCalls)'
  OBVIOUS
<1> QED BY <1>1, <1>2, PTL DEF LSpec

\* For any text, limit and answers of the random generator load_sni_list() and
\* load_ip_list() return what is new in the text, in its order, up to the limit.
THEOREM ListsAreClean == LSpec => []ListsClean
BY AskedTyped, ListsHold, PTL

\* Of a network of any size _sample_hosts() hands out as many usable hosts as are
\* wanted, each once, whatever the random generator answers.
THEOREM SamplesUsable == LSpec => []SampleUsable
BY AskedTyped, SampleHolds, PTL

-----------------------------------------------------------------------------
(* The QUIC stub, byte by byte. *)

\* Two sequences one behind the other, with the place of the second.
LEMMA JoinedBoth ==
  ASSUME NEW T, NEW s \in Seq(T), NEW t \in Seq(T)
  PROVE  /\ s \o t \in Seq(T) /\ Len(s \o t) = Len(s) + Len(t)
         /\ \A i \in 1 .. Len(s) : (s \o t)[i] = s[i]
         /\ \A i \in 1 .. Len(t) : (s \o t)[Len(s) + i] = t[i]
OBVIOUS

\* Two numbers more.
PutPair(s, x, y) == s \o <<x, y>>
\* One more.
PutOne(s, x) == s \o <<x>>
\* All of t.
PutAll(s, t) == s \o t

\* w is s with x and y behind it.
IsPair(w, s, x, y) ==
  /\ w \in Seq(Nat) /\ Len(w) = Len(s) + 2
  /\ \A i \in 1 .. Len(s) : w[i] = s[i]
  /\ w[Len(s) + 1] = x /\ w[Len(s) + 2] = y

\* Two numbers behind a sequence.
LEMMA JoinedPair ==
  ASSUME NEW s \in Seq(Nat), NEW x \in Nat, NEW y \in Nat
  PROVE  IsPair(PutPair(s, x, y), s, x, y)
<1> DEFINE t == <<x, y>>
<1>1. t \in Seq(Nat) /\ Len(t) = 2 /\ t[1] = x /\ t[2] = y
  OBVIOUS
<1> HIDE DEF t
<1>2. /\ s \o t \in Seq(Nat) /\ Len(s \o t) = Len(s) + Len(t)
      /\ \A i \in 1 .. Len(s) : (s \o t)[i] = s[i]
      /\ \A i \in 1 .. Len(t) : (s \o t)[Len(s) + i] = t[i]
  <2>1. t \in Seq(Nat)
    BY <1>1
  <2> QED BY <2>1, JoinedBoth
<1> DEFINE w == s \o t
<1> HIDE DEF w
<1>3. w[Len(s) + 1] = x /\ w[Len(s) + 2] = y
  <2>1. 1 \in 1 .. Len(t) /\ 2 \in 1 .. Len(t)
    BY <1>1
  <2> QED BY <1>1, <1>2, <2>1 DEF w
<1> QED BY <1>1, <1>2, <1>3 DEF t, w, PutPair, IsPair

\* w is s with x behind it.
IsOne(w, s, x) ==
  /\ w \in Seq(Nat) /\ Len(w) = Len(s) + 1
  /\ \A i \in 1 .. Len(s) : w[i] = s[i]
  /\ w[Len(s) + 1] = x

\* One number behind a sequence.
LEMMA JoinedOne ==
  ASSUME NEW s \in Seq(Nat), NEW x \in Nat
  PROVE  IsOne(PutOne(s, x), s, x)
<1> DEFINE t == <<x>>
<1>1. t \in Seq(Nat) /\ Len(t) = 1 /\ t[1] = x
  OBVIOUS
<1> HIDE DEF t
<1>2. /\ s \o t \in Seq(Nat) /\ Len(s \o t) = Len(s) + Len(t)
      /\ \A i \in 1 .. Len(s) : (s \o t)[i] = s[i]
      /\ \A i \in 1 .. Len(t) : (s \o t)[Len(s) + i] = t[i]
  <2>1. t \in Seq(Nat)
    BY <1>1
  <2> QED BY <2>1, JoinedBoth
<1> DEFINE w == s \o t
<1> HIDE DEF w
<1>3. w[Len(s) + 1] = x
  <2>1. 1 \in 1 .. Len(t)
    BY <1>1
  <2> QED BY <1>1, <1>2, <2>1 DEF w
<1> QED BY <1>1, <1>2, <1>3 DEF t, w, PutOne, IsOne

\* w is s with t behind it.
IsAll(w, s, t) ==
  /\ w \in Seq(Nat) /\ Len(w) = Len(s) + Len(t)
  /\ \A i \in 1 .. Len(s) : w[i] = s[i]
  /\ \A i \in 1 .. Len(t) : w[Len(s) + i] = t[i]

\* A sequence behind a sequence.
LEMMA JoinedAll ==
  ASSUME NEW s \in Seq(Nat), NEW t \in Seq(Nat)
  PROVE  IsAll(PutAll(s, t), s, t)
BY JoinedBoth DEF PutAll, IsAll

\* Division with remainder.
LEMMA Division ==
  ASSUME NEW W \in Nat \ {0}, NEW a \in Int
  PROVE  a % W \in 0 .. W - 1 /\ a \div W \in Int /\ a = W * (a \div W) + (a % W)
OBVIOUS

\* A number is what its two bytes stand for.
LEMMA HalvesWhole ==
  ASSUME NEW v \in Nat
  PROVE  v \div 256 \in Nat /\ v % 256 \in 0 .. 255 /\ 256 * (v \div 256) + (v % 256) = v
<1> DEFINE W == 256
<1>1. W \in Nat \ {0} /\ v \in Int
  OBVIOUS
<1> HIDE DEF W
<1>2. v % W \in 0 .. W - 1 /\ v \div W \in Int /\ v = W * (v \div W) + (v % W)
  BY <1>1, Division
<1> DEFINE q == v \div W
           r == v % W
<1> HIDE DEF q, r
<1>3. r \in 0 .. W - 1 /\ q \in Int /\ v = W * q + r
  BY <1>2 DEF q, r
<1>4. q \in Nat /\ r \in 0 .. 255 /\ 256 * q + r = v
  BY <1>3 DEF W
<1>5. q = v \div 256 /\ r = v % 256
  BY DEF q, r, W
<1> QED BY <1>4, <1>5

\* The bytes of an extension.
LEMMA ServerNameBytes ==
  ASSUME NEW n \in Seq(Nat)
  PROVE  LET s == ServerName(n)
             l == Len(n)
         IN  /\ s \in Seq(Nat) /\ Len(s) = 9 + l
             /\ s[1] = 0 /\ s[2] = 0
             /\ s[3] = (5 + l) \div 256 /\ s[4] = (5 + l) % 256
             /\ s[5] = (3 + l) \div 256 /\ s[6] = (3 + l) % 256
             /\ s[7] = 0
             /\ s[8] = l \div 256 /\ s[9] = l % 256
             /\ \A i \in 1 .. l : s[9 + i] = n[i]
<1> DEFINE l == Len(n)
           a == (5 + l) \div 256
           b == (5 + l) % 256
           c == (3 + l) \div 256
           d == (3 + l) % 256
           e == l \div 256
           f == l % 256
           c1 == <<0, 0>>
           c2 == PutPair(c1, a, b)
           c3 == PutPair(c2, c, d)
           c4 == PutOne(c3, 0)
           c5 == PutPair(c4, e, f)
<1>1. l \in Nat /\ 5 + l \in Nat /\ 3 + l \in Nat
  OBVIOUS
<1>2. a \in Nat /\ b \in Nat /\ c \in Nat /\ d \in Nat /\ e \in Nat /\ f \in Nat
  BY <1>1, HalvesWhole
<1>3. ServerName(n) = PutAll(c5, n)
  BY DEF ServerName, U16, PutPair, PutOne, PutAll
<1> HIDE DEF a, b, c, d, e, f
<1>4. c1 \in Seq(Nat) /\ Len(c1) = 2 /\ c1[1] = 0 /\ c1[2] = 0
  OBVIOUS
<1> HIDE DEF c1
<1>5. IsPair(c2, c1, a, b)
  BY <1>2, <1>4, JoinedPair
<1> HIDE DEF c2
<1>5a. /\ c2 \in Seq(Nat) /\ Len(c2) = 4 /\ \A i \in 1 .. 2 : c2[i] = c1[i]
       /\ c2[3] = a /\ c2[4] = b
  BY <1>4, <1>5 DEF IsPair
<1>6. IsPair(c3, c2, c, d)
  BY <1>2, <1>5a, JoinedPair
<1> HIDE DEF c3
<1>6a. /\ c3 \in Seq(Nat) /\ Len(c3) = 6 /\ \A i \in 1 .. 4 : c3[i] = c2[i]
       /\ c3[5] = c /\ c3[6] = d
  BY <1>5a, <1>6 DEF IsPair
<1>7. IsOne(c4, c3, 0)
  BY <1>6a, JoinedOne
<1> HIDE DEF c4
<1>7a. /\ c4 \in Seq(Nat) /\ Len(c4) = 7 /\ \A i \in 1 .. 6 : c4[i] = c3[i] /\ c4[7] = 0
  BY <1>6a, <1>7 DEF IsOne
<1>8. IsPair(c5, c4, e, f)
  BY <1>2, <1>7a, JoinedPair
<1> HIDE DEF c5
<1>8a. /\ c5 \in Seq(Nat) /\ Len(c5) = 9 /\ \A i \in 1 .. 7 : c5[i] = c4[i]
       /\ c5[8] = e /\ c5[9] = f
  BY <1>7a, <1>8 DEF IsPair
<1>9. IsAll(PutAll(c5, n), c5, n)
  BY <1>8a, JoinedAll
<1> DEFINE s == PutAll(c5, n)
<1> HIDE DEF s
<1>9a. /\ s \in Seq(Nat) /\ Len(s) = Len(c5) + Len(n)
       /\ \A i \in 1 .. Len(c5) : s[i] = c5[i]
       /\ \A i \in 1 .. Len(n) : s[Len(c5) + i] = n[i]
  BY <1>9 DEF s, IsAll
<1>10. \A i \in 1 .. 9 : s[i] = c5[i]
  BY <1>8a, <1>9a
<1>11. /\ s[1] = 0 /\ s[2] = 0 /\ s[3] = a /\ s[4] = b /\ s[5] = c /\ s[6] = d /\ s[7] = 0
       /\ s[8] = e /\ s[9] = f
  BY <1>4, <1>5a, <1>6a, <1>7a, <1>8a, <1>10
<1>12. s \in Seq(Nat) /\ Len(s) = 9 + l /\ \A i \in 1 .. l : s[9 + i] = n[i]
  BY <1>8a, <1>9a
<1>13. ServerName(n) = s
  BY <1>3 DEF s
<1> HIDE DEF l
<1> QED BY <1>11, <1>12, <1>13 DEF l, a, b, c, d, e, f

\* c is the n elements of s from there on.
IsCut(c, s, from, n) ==
  /\ c \in Seq(Nat) /\ Len(c) = n
  /\ \A i \in 1 .. n : c[i] = s[from + i]

\* What a slice of a packet holds.
LEMMA CutBytes ==
  ASSUME NEW s \in Seq(Nat), NEW from \in Nat, NEW to \in Nat, from <= to, to <= Len(s)
  PROVE  IsCut(Cut(s, from, to), s, from, to - from)
<1> DEFINE c == [i \in 1 .. to - from |-> s[from + i]]
<1>1. DOMAIN s = 1 .. Len(s) /\ Len(s) \in Nat /\ \A i \in DOMAIN s : s[i] \in Nat
  BY SeqParts
<1>2. Cut(s, from, to) = c
  <2>1. to - (from + 1) + 1 = to - from /\ \A i \in 1 .. to - from : i + (from + 1) - 1 = from + i
    OBVIOUS
  <2>2. SubSeq(s, from + 1, to) = c
    BY <2>1
  <2> QED BY <2>2 DEF Cut
<1>3. c \in [1 .. to - from -> Nat]
  BY <1>1
<1>4. to - from \in Nat
  OBVIOUS
<1>5. c \in Seq(Nat) /\ Len(c) = to - from
  BY <1>3, <1>4, SeqMade
<1>6. \A i \in 1 .. to - from : c[i] = s[from + i]
  OBVIOUS
<1> HIDE DEF c
<1> QED BY <1>2, <1>5, <1>6 DEF IsCut

\* b is the packet that begins with h, then has the extension for n, then p.
IsLayout(b, h, n, p) ==
  LET l == Len(n)
  IN  /\ b \in Seq(Nat) /\ Len(b) = 100 + l
      /\ \A i \in 1 .. 27 : b[i] = h[i]
      /\ b[28] = 0 /\ b[29] = 0
      /\ b[30] = (5 + l) \div 256 /\ b[31] = (5 + l) % 256
      /\ b[32] = (3 + l) \div 256 /\ b[33] = (3 + l) % 256
      /\ b[34] = 0
      /\ b[35] = l \div 256 /\ b[36] = l % 256
      /\ \A i \in 1 .. l : b[36 + i] = n[i]
      /\ \A i \in 1 .. 64 : b[36 + l + i] = p[i]

\* A packet is determined by its header, its name and its padding.
LEMMA LayoutUnique ==
  ASSUME NEW h, NEW n \in Seq(Nat), NEW p, NEW b, NEW c, IsLayout(b, h, n, p), IsLayout(c, h, n, p)
  PROVE  b = c
<1> DEFINE l == Len(n)
<1>1. l \in Nat
  OBVIOUS
<1>2. /\ b \in Seq(Nat) /\ c \in Seq(Nat) /\ Len(b) = 100 + l /\ Len(c) = 100 + l
  BY DEF IsLayout
<1>2a. \A i \in 1 .. 27 : b[i] = c[i]
  <2>1. \A i \in 1 .. 27 : b[i] = h[i]
    BY DEF IsLayout
  <2>2. \A i \in 1 .. 27 : c[i] = h[i]
    BY DEF IsLayout
  <2> QED BY <2>1, <2>2
<1>2b. \A i \in 1 .. l : b[36 + i] = c[36 + i]
  <2>1. \A i \in 1 .. l : b[36 + i] = n[i]
    BY DEF IsLayout
  <2>2. \A i \in 1 .. l : c[36 + i] = n[i]
    BY DEF IsLayout
  <2> HIDE DEF l
  <2> QED BY <2>1, <2>2
<1>2c. \A i \in 1 .. 64 : b[36 + l + i] = c[36 + l + i]
  <2>1. \A i \in 1 .. 64 : b[36 + l + i] = p[i]
    BY DEF IsLayout
  <2>2. \A i \in 1 .. 64 : c[36 + l + i] = p[i]
    BY DEF IsLayout
  <2> HIDE DEF l
  <2> QED BY <2>1, <2>2
<1>3. /\ b[28] = c[28] /\ b[29] = c[29] /\ b[30] = c[30] /\ b[31] = c[31] /\ b[32] = c[32]
      /\ b[33] = c[33] /\ b[34] = c[34] /\ b[35] = c[35] /\ b[36] = c[36]
  BY DEF IsLayout
<1> HIDE DEF l
<1>4. ASSUME NEW i \in 1 .. 100 + l PROVE b[i] = c[i]
  <2>1. CASE i \in 1 .. 27
    BY <1>2a, <2>1
  <2>2. CASE i \in 28 .. 36
    <3>1. i = 28 \/ i = 29 \/ i = 30 \/ i = 31 \/ i = 32 \/ i = 33 \/ i = 34 \/ i = 35 \/ i = 36
      BY <2>2
    <3> QED BY <1>3, <3>1
  <2>3. CASE i \in 37 .. 36 + l
    <3>1. i - 36 \in 1 .. l /\ 36 + (i - 36) = i
      BY <1>1, <2>3
    <3> QED BY <1>2b, <3>1
  <2>4. CASE i \in 37 + l .. 100 + l
    <3>1. i - 36 - l \in 1 .. 64 /\ 36 + l + (i - 36 - l) = i
      BY <1>1, <2>4
    <3> QED BY <1>2c, <3>1
  <2> QED BY <1>1, <2>1, <2>2, <2>3, <2>4
<1> QED BY <1>2, <1>4, SameFirst

\* The packet put together in the order of the builder and of the swap.
LEMMA LayoutMade ==
  ASSUME NEW h \in Seq(Nat), Len(h) = 27, NEW n \in Seq(Nat), NEW p \in Seq(Nat), Len(p) = 64
  PROVE  /\ IsLayout(PutAll(PutAll(h, ServerName(n)), p), h, n, p)
         /\ IsLayout(PutAll(h, PutAll(ServerName(n), p)), h, n, p)
<1> DEFINE l == Len(n)
           s == ServerName(n)
           d == PutAll(h, s)
           b == PutAll(d, p)
           e == PutAll(s, p)
           c == PutAll(h, e)
<1>1. l \in Nat
  OBVIOUS
<1>2. /\ s \in Seq(Nat) /\ Len(s) = 9 + l
      /\ s[1] = 0 /\ s[2] = 0
      /\ s[3] = (5 + l) \div 256 /\ s[4] = (5 + l) % 256
      /\ s[5] = (3 + l) \div 256 /\ s[6] = (3 + l) % 256
      /\ s[7] = 0
      /\ s[8] = l \div 256 /\ s[9] = l % 256
      /\ \A i \in 1 .. l : s[9 + i] = n[i]
  BY ServerNameBytes
<1> HIDE DEF s
<1>3. IsAll(d, h, s)
  BY <1>2, JoinedAll
<1>4. IsAll(e, s, p)
  BY <1>2, JoinedAll
<1> HIDE DEF d, e
<1> HIDE DEF l
<1>3a. d \in Seq(Nat) /\ Len(d) = 36 + l
  BY <1>1, <1>2, <1>3 DEF IsAll
<1>4a. e \in Seq(Nat) /\ Len(e) = 73 + l
  BY <1>1, <1>2, <1>4 DEF IsAll
<1>5. IsAll(b, d, p)
  BY <1>3a, JoinedAll
<1>6. IsAll(c, h, e)
  BY <1>4a, JoinedAll
<1> HIDE DEF b, c
<1>5a. b \in Seq(Nat) /\ Len(b) = 100 + l
  BY <1>1, <1>3a, <1>5 DEF IsAll
<1>6a. c \in Seq(Nat) /\ Len(c) = 100 + l
  BY <1>1, <1>4a, <1>6 DEF IsAll
<1>3b. (\A i \in 1 .. 27 : d[i] = h[i]) /\ \A i \in 1 .. 9 + l : d[27 + i] = s[i]
  BY <1>2, <1>3 DEF IsAll
<1>4b. (\A i \in 1 .. 9 + l : e[i] = s[i]) /\ \A i \in 1 .. 64 : e[9 + l + i] = p[i]
  BY <1>2, <1>4 DEF IsAll
<1>5b. (\A i \in 1 .. 36 + l : b[i] = d[i]) /\ \A i \in 1 .. 64 : b[36 + l + i] = p[i]
  BY <1>3a, <1>5 DEF IsAll
<1>6b. (\A i \in 1 .. 27 : c[i] = h[i]) /\ \A i \in 1 .. 73 + l : c[27 + i] = e[i]
  BY <1>4a, <1>6 DEF IsAll
<1>7. ASSUME NEW x, \/ x = b
                    \/ x = c
      PROVE  IsLayout(x, h, n, p)
  <2>1. x \in Seq(Nat) /\ Len(x) = 100 + l
    BY <1>5a, <1>6a, <1>7
  <2>2. \A i \in 1 .. 27 : x[i] = h[i]
    <3>1. \A i \in 1 .. 27 : i \in 1 .. 36 + l
      BY <1>1
    <3>2. \A i \in 1 .. 27 : b[i] = h[i]
      <4>1. \A i \in 1 .. 36 + l : b[i] = d[i]
        BY <1>5b
      <4>2. \A i \in 1 .. 27 : d[i] = h[i]
        BY <1>3b
      <4> QED BY <3>1, <4>1, <4>2
    <3>3. \A i \in 1 .. 27 : c[i] = h[i]
      BY <1>6b
    <3>4. CASE x = b
      BY <3>2, <3>4
    <3>5. CASE x = c
      BY <3>3, <3>5
    <3> QED BY <1>7, <3>4, <3>5
  <2>3. \A i \in 1 .. 9 + l : x[27 + i] = s[i]
    <3>1. \A i \in 1 .. 9 + l : i \in 1 .. 73 + l /\ 27 + i \in 1 .. 36 + l
      BY <1>1
    <3>2. \A i \in 1 .. 9 + l : b[27 + i] = s[i]
      <4>1. \A i \in 1 .. 36 + l : b[i] = d[i]
        BY <1>5b
      <4>2. \A i \in 1 .. 9 + l : d[27 + i] = s[i]
        BY <1>3b
      <4> QED BY <3>1, <4>1, <4>2
    <3>3. \A i \in 1 .. 9 + l : c[27 + i] = s[i]
      BY <1>4b, <1>6b, <3>1
    <3> QED BY <1>7, <3>2, <3>3
  <2>4. \A i \in 1 .. 64 : x[36 + l + i] = p[i]
    <3>1. \A i \in 1 .. 64 : 9 + l + i \in 1 .. 73 + l /\ 27 + (9 + l + i) = 36 + l + i
      BY <1>1
    <3>2. \A i \in 1 .. 64 : c[27 + (9 + l + i)] = e[9 + l + i]
      BY <1>6b, <3>1
    <3>3. \A i \in 1 .. 64 : c[36 + l + i] = p[i]
      BY <1>4b, <3>1, <3>2
    <3> QED BY <1>5b, <1>7, <3>3
  <2>5. /\ x[28] = s[1] /\ x[29] = s[2] /\ x[30] = s[3] /\ x[31] = s[4] /\ x[32] = s[5]
        /\ x[33] = s[6] /\ x[34] = s[7] /\ x[35] = s[8] /\ x[36] = s[9]
    <3>1. \A i \in 1 .. 9 : x[27 + i] = s[i]
      <4>1. \A i \in 1 .. 9 : i \in 1 .. 9 + l
        BY <1>1
      <4> QED BY <2>3, <4>1
    <3>2. /\ x[27 + 1] = s[1] /\ x[27 + 2] = s[2] /\ x[27 + 3] = s[3] /\ x[27 + 4] = s[4]
          /\ x[27 + 5] = s[5] /\ x[27 + 6] = s[6] /\ x[27 + 7] = s[7] /\ x[27 + 8] = s[8]
          /\ x[27 + 9] = s[9]
      BY <3>1
    <3> QED BY <3>2
  <2>6. \A i \in 1 .. l : x[36 + i] = n[i]
    <3>1. \A i \in 1 .. l : 9 + i \in 1 .. 9 + l /\ 27 + (9 + i) = 36 + i
      BY <1>1
    <3>2. \A i \in 1 .. l : x[27 + (9 + i)] = s[9 + i]
      BY <2>3, <3>1
    <3> QED BY <1>2, <3>1, <3>2
  <2> QED BY <1>2, <2>1, <2>2, <2>4, <2>5, <2>6 DEF IsLayout, l
<1> QED BY <1>7 DEF b, c, d, e, s

\* What every header has.
HeaderOk(h) ==
  /\ h \in Seq(Nat) /\ Len(h) = 27
  /\ h[1] = 192 /\ h[2] = 0 /\ h[3] = 0 /\ h[4] = 0 /\ h[5] = 1 /\ h[6] = 8 /\ h[15] = 8
  /\ h[24] = 0 /\ h[25] \in 64 .. 65

\* No extension begins in the fixed bytes of a header.
LEMMA HeaderHeadsNone ==
  ASSUME NEW b, b[1] = 192, b[2] = 0, b[3] = 0, b[4] = 0, b[5] = 1, b[6] = 8, b[24] = 0, b[25] \in 64 .. 65,
         b[23] \in Nat, b[26] \in Nat, b[27] \in Nat, b[28] = 0, b[29] = 0, b[30] \in 0 .. 1
  PROVE  /\ ~Headed(b, 0) /\ ~Headed(b, 1) /\ ~Headed(b, 2) /\ ~Headed(b, 3) /\ ~Headed(b, 4)
         /\ ~Headed(b, 5) /\ ~Headed(b, 17) /\ ~Headed(b, 18) /\ ~Headed(b, 19) /\ ~Headed(b, 20)
         /\ ~Headed(b, 21) /\ ~Headed(b, 22) /\ ~Headed(b, 23) /\ ~Headed(b, 24) /\ ~Headed(b, 25)
         /\ ~Headed(b, 26)
<1>1. ~Headed(b, 0)
  <2>1. Byte(b, 0) = 192
    BY DEF Byte
  <2> QED BY <2>1 DEF Headed
<1>2. ~Headed(b, 1)
  <2>1. Word(b, 1 + 2) = 256 * b[4] + b[5]
    BY DEF Word, Byte
  <2>2. Word(b, 1 + 2) = 1
    BY <2>1
  <2> QED BY <2>2 DEF Headed
<1>3. ~Headed(b, 2)
  <2>1. Word(b, 2 + 2) = 256 * b[5] + b[6]
    BY DEF Word, Byte
  <2>2. Word(b, 2 + 2) = 264
    BY <2>1
  <2> QED BY <2>2 DEF Headed
<1>4. ~Headed(b, 3)
  <2>1. Byte(b, 3 + 1) = 1
    BY DEF Byte
  <2> QED BY <2>1 DEF Headed
<1>5. ~Headed(b, 4)
  <2>1. Byte(b, 4) = 1
    BY DEF Byte
  <2> QED BY <2>1 DEF Headed
<1>6. ~Headed(b, 5)
  <2>1. Byte(b, 5) = 8
    BY DEF Byte
  <2> QED BY <2>1 DEF Headed
<1>7. ~Headed(b, 17)
  <2>1. Word(b, 17 + 7) = 256 * b[25] + b[26]
    BY DEF Word, Byte
  <2>2. b[26] \in Nat
    OBVIOUS
  <2>3. Word(b, 17 + 7) >= 16384
    BY <2>1, <2>2
  <2> QED BY <2>3 DEF Headed
<1>8. ~Headed(b, 18)
  <2>1. Byte(b, 18 + 6) # 0
    BY DEF Byte
  <2> QED BY <2>1 DEF Headed
<1>9. ~Headed(b, 19)
  <2>1. Word(b, 19 + 7) = 256 * b[27] + b[28]
    BY DEF Word, Byte
  <2>2. b[27] \in Nat
    OBVIOUS
  <2>3. Word(b, 19 + 7) \notin 1 .. 253
    BY <2>1, <2>2
  <2> QED BY <2>3 DEF Headed
<1>10. ~Headed(b, 20)
  <2>1. Word(b, 20 + 4) = 256 * b[25] + b[26]
    BY DEF Word, Byte
  <2>2. b[26] \in Nat
    OBVIOUS
  <2>3. Word(b, 20 + 4) >= 16384
    BY <2>1, <2>2
  <2>4. Word(b, 20 + 2) = 256 * b[23] + b[24]
    BY DEF Word, Byte
  <2>5. b[23] \in Nat /\ b[24] \in Nat
    OBVIOUS
  <2>6. Word(b, 20 + 2) \in Nat
    BY <2>4, <2>5
  <2> QED BY <2>3, <2>6 DEF Headed
<1>11. ~Headed(b, 21)
  <2>1. Word(b, 21 + 7) = 256 * b[29] + b[30]
    BY DEF Word, Byte
  <2>2. Word(b, 21 + 7) \in 0 .. 1
    BY <2>1
  <2>3. Word(b, 21 + 2) = 256 * b[24] + b[25]
    BY DEF Word, Byte
  <2>4. Word(b, 21 + 2) \in 64 .. 65
    BY <2>3
  <2> QED BY <2>2, <2>4 DEF Headed
<1>12. ~Headed(b, 22)
  <2>1. Word(b, 22 + 2) = 256 * b[25] + b[26]
    BY DEF Word, Byte
  <2>2. b[26] \in Nat
    OBVIOUS
  <2>3. Word(b, 22 + 2) >= 16384
    BY <2>1, <2>2
  <2> QED BY <2>3 DEF Headed
<1>13. ~Headed(b, 23)
  <2>1. Byte(b, 23 + 1) # 0
    BY DEF Byte
  <2> QED BY <2>1 DEF Headed
<1>14. ~Headed(b, 24)
  <2>1. Byte(b, 24) # 0
    BY DEF Byte
  <2> QED BY <2>1 DEF Headed
<1>15. ~Headed(b, 25)
  <2>1. Word(b, 25 + 2) = 256 * b[28] + b[29]
    BY DEF Word, Byte
  <2>2. Word(b, 25 + 2) = 0
    BY <2>1
  <2> QED BY <2>2 DEF Headed
<1>16. ~Headed(b, 26)
  <2>1. Word(b, 26 + 2) = 256 * b[29] + b[30]
    BY DEF Word, Byte
  <2>2. Word(b, 26 + 2) \in 0 .. 1
    BY <2>1
  <2> QED BY <2>2 DEF Headed
<1> QED BY <1>1, <1>2, <1>3, <1>4, <1>5, <1>6, <1>7, <1>8, <1>9, <1>10, <1>11, <1>12, <1>13, <1>14,
          <1>15, <1>16

\* All positions in the header, one by one.
LEMMA NoneOfAll ==
  ASSUME NEW b, \A i \in 6 .. 16 : ~Headed(b, i),
         ~Headed(b, 0), ~Headed(b, 1), ~Headed(b, 2), ~Headed(b, 3), ~Headed(b, 4),
         ~Headed(b, 5), ~Headed(b, 17), ~Headed(b, 18), ~Headed(b, 19), ~Headed(b, 20),
         ~Headed(b, 21), ~Headed(b, 22), ~Headed(b, 23), ~Headed(b, 24), ~Headed(b, 25),
         ~Headed(b, 26)
  PROVE  \A i \in 0 .. 26 : ~Headed(b, i)
<1>1. \A i \in 0 .. 26 : \/ i \in 6 .. 16
                         \/ i = 0 \/ i = 1 \/ i = 2 \/ i = 3 \/ i = 4 \/ i = 5 \/ i = 17 \/ i = 18
                         \/ i = 19 \/ i = 20 \/ i = 21 \/ i = 22 \/ i = 23 \/ i = 24 \/ i = 25 \/ i = 26
  OBVIOUS
<1> QED BY <1>1

\* The high byte of the length of an extension.
LEMMA SmallQuotient ==
  ASSUME NEW l \in 2 .. 253
  PROVE  (5 + l) \div 256 \in 0 .. 1
<1> DEFINE v == 5 + l
           q == v \div 256
           r == v % 256
<1>1. v \in Nat /\ v <= 258
  OBVIOUS
<1> HIDE DEF v
<1>2. q \in Nat /\ r \in 0 .. 255 /\ 256 * q + r = v
  BY <1>1, HalvesWhole
<1> HIDE DEF q, r
<1>3. q \in 0 .. 1
  BY <1>1, <1>2
<1> QED BY <1>3 DEF q, v

\* A name by its length.
IsName(n, l) == n \in Seq(Nat) /\ Len(n) = l

\* Bytes by their number.
AreBytes(b, k) == \A i \in 1 .. k : b[i] \in Nat

\* The first bytes of a packet.
LEMMA BytesOf ==
  ASSUME NEW s \in Seq(Nat), NEW k \in Nat, k <= Len(s)
  PROVE  AreBytes(s, k)
<1>1. DOMAIN s = 1 .. Len(s) /\ Len(s) \in Nat /\ \A i \in DOMAIN s : s[i] \in Nat
  BY SeqParts
<1>2. \A i \in 1 .. k : i \in 1 .. Len(s)
  BY <1>1
<1> QED BY <1>1, <1>2 DEF AreBytes

\* Unless a connection id is spelt like one, no extension begins before the one that was put there.
LEMMA NoneBefore ==
  ASSUME NEW h, HeaderOk(h), NEW l \in 2 .. 253, NEW n, IsName(n, l), NEW p, NEW b, IsLayout(b, h, n, p),
         ~Spelt(b)
  PROVE  \A i \in 0 .. 26 : ~Headed(b, i)
<1>1. /\ b[1] = 192 /\ b[2] = 0 /\ b[3] = 0 /\ b[4] = 0 /\ b[5] = 1 /\ b[6] = 8
      /\ b[24] = 0 /\ b[25] \in 64 .. 65
  <2>1. \A i \in 1 .. 27 : b[i] = h[i]
    BY DEF IsLayout
  <2> QED BY <2>1 DEF HeaderOk
<1>2. b \in Seq(Nat) /\ Len(b) = 100 + l /\ b[30] = (5 + l) \div 256
  BY DEF IsLayout, IsName
<1>2a. b[28] = 0 /\ b[29] = 0
  BY DEF IsLayout
<1>3. AreBytes(b, 100)
  <2>1. 100 <= Len(b) /\ 100 \in Nat
    BY <1>2
  <2> QED BY <1>2, <2>1, BytesOf
<1>4. b[23] \in Nat /\ b[26] \in Nat /\ b[27] \in Nat
  BY <1>3 DEF AreBytes
<1>5. b[30] \in 0 .. 1
  BY <1>2, SmallQuotient
<1>6. \A i \in 6 .. 16 : ~Headed(b, i)
  BY DEF Spelt
<1>7. /\ ~Headed(b, 0) /\ ~Headed(b, 1) /\ ~Headed(b, 2) /\ ~Headed(b, 3) /\ ~Headed(b, 4)
      /\ ~Headed(b, 5) /\ ~Headed(b, 17) /\ ~Headed(b, 18) /\ ~Headed(b, 19) /\ ~Headed(b, 20)
      /\ ~Headed(b, 21) /\ ~Headed(b, 22) /\ ~Headed(b, 23) /\ ~Headed(b, 24) /\ ~Headed(b, 25)
      /\ ~Headed(b, 26)
  BY <1>1, <1>2a, <1>4, <1>5, HeaderHeadsNone
<1> QED BY <1>6, <1>7, NoneOfAll

\* The bytes of an extension for a name of length l, where they stand in a stub.
Lengths(b, l) ==
  /\ b[28] = 0 /\ b[29] = 0 /\ b[34] = 0
  /\ 256 * b[30] + b[31] = 5 + l /\ 256 * b[32] + b[33] = 3 + l /\ 256 * b[35] + b[36] = l

\* The lengths that are written are the ones the scan compares.
LEMMA HeadedByName ==
  ASSUME NEW b, NEW l \in 2 .. 253, Lengths(b, l)
  PROVE  Headed(b, 27) /\ SniLen(b, 27) = l
<1>1. Byte(b, 27) = 0 /\ Byte(b, 27 + 1) = 0 /\ Byte(b, 27 + 6) = 0
  BY DEF Lengths, Byte
<1>2. Word(b, 27 + 2) = 5 + l
  BY DEF Lengths, Word, Byte
<1>3. Word(b, 27 + 4) = 3 + l
  BY DEF Lengths, Word, Byte
<1>4. Word(b, 27 + 7) = l
  BY DEF Lengths, Word, Byte
<1>5. Headed(b, 27)
  <2>1. 5 + l \in 7 .. 260 /\ l \in 1 .. 253
    OBVIOUS
  <2>2. Word(b, 27 + 2) \in 7 .. 260
    BY <1>2, <2>1
  <2>3. Word(b, 27 + 4) = Word(b, 27 + 2) - 2
    BY <1>2, <1>3
  <2>4. Word(b, 27 + 7) \in 1 .. 253 /\ Word(b, 27 + 7) = Word(b, 27 + 2) - 5
    BY <1>2, <1>4, <2>1
  <2> QED BY <1>1, <2>2, <2>3, <2>4 DEF Headed
<1> QED BY <1>4, <1>5 DEF SniLen

\* The name and what stands behind it, cut out of a packet.
LEMMA LayoutCuts ==
  ASSUME NEW h \in Seq(Nat), Len(h) = 27, NEW l \in Nat, NEW n, IsName(n, l), NEW p \in Seq(Nat), Len(p) = 64,
         NEW b, IsLayout(b, h, n, p)
  PROVE  /\ b \in Seq(Nat) /\ Len(b) = 100 + l
         /\ Cut(b, 0, 27) = h /\ Cut(b, 36, 36 + l) = n /\ Cut(b, 36 + l, 100 + l) = p
<1>1. b \in Seq(Nat) /\ Len(b) = 100 + l
  BY DEF IsLayout, IsName
<1> DEFINE m == 36 + l
           k == 100 + l
           z == 0
           y == 27
           x == 36
           d == Cut(b, z, y)
           e == Cut(b, x, m)
           f == Cut(b, m, k)
<1>2. /\ z \in Nat /\ y \in Nat /\ x \in Nat /\ m \in Nat /\ k \in Nat
      /\ z <= y /\ y <= k /\ x <= m /\ m <= k /\ y - z = 27 /\ m - x = l /\ k - m = 64
  OBVIOUS
<1>3. Len(b) = k
  BY <1>1
<1>4. /\ \A i \in 1 .. 27 : b[z + i] = h[i]
      /\ \A i \in 1 .. l : b[x + i] = n[i]
      /\ \A i \in 1 .. 64 : b[m + i] = p[i]
  <2>0. \A i \in 1 .. 27 : b[i] = h[i]
    BY DEF IsLayout
  <2>1. \A i \in 1 .. 27 : b[z + i] = h[i]
    <3>1. ASSUME NEW i \in 1 .. 27 PROVE b[z + i] = h[i]
      <4>1. z + i = i
        OBVIOUS
      <4> HIDE DEF z
      <4> QED BY <2>0, <4>1
    <3> QED BY <3>1
  <2>2. \A i \in 1 .. l : b[x + i] = n[i]
    BY DEF IsLayout, IsName
  <2>3. \A i \in 1 .. 64 : b[m + i] = p[i]
    BY DEF IsLayout, IsName
  <2> QED BY <2>1, <2>2, <2>3
<1> HIDE DEF z, y, x, m, k
<1>5. d = h
  <2>0. IsCut(d, b, z, y - z)
    BY <1>1, <1>2, <1>3, CutBytes
  <2> HIDE DEF d
  <2>1. d \in Seq(Nat) /\ Len(d) = 27 /\ \A i \in 1 .. 27 : d[i] = b[z + i]
    BY <1>2, <2>0 DEF IsCut
  <2>2. \A i \in 1 .. Len(d) : d[i] = h[i]
    <3>1. \A i \in 1 .. 27 : d[i] = h[i]
      BY <1>4, <2>1
    <3> QED BY <2>1, <3>1
  <2>3. Len(d) = Len(h)
    BY <1>2, <2>1
  <2> QED BY <2>1, <2>2, <2>3, SameFirst
<1>6. e = n
  <2>0. IsCut(e, b, x, m - x)
    BY <1>1, <1>2, <1>3, CutBytes
  <2> HIDE DEF e
  <2>1. e \in Seq(Nat) /\ Len(e) = l /\ \A i \in 1 .. l : e[i] = b[x + i]
    BY <1>2, <2>0 DEF IsCut
  <2>2. \A i \in 1 .. Len(e) : e[i] = n[i]
    <3>1. \A i \in 1 .. l : e[i] = n[i]
      BY <1>4, <2>1
    <3> QED BY <2>1, <3>1
  <2>3. n \in Seq(Nat) /\ Len(e) = Len(n)
    BY <1>2, <2>1 DEF IsName
  <2> QED BY <2>1, <2>2, <2>3, SameFirst
<1>7. f = p
  <2>0. IsCut(f, b, m, k - m)
    BY <1>1, <1>2, <1>3, CutBytes
  <2> HIDE DEF f
  <2>1. f \in Seq(Nat) /\ Len(f) = 64 /\ \A i \in 1 .. 64 : f[i] = b[m + i]
    BY <1>2, <2>0 DEF IsCut
  <2>2. \A i \in 1 .. Len(f) : f[i] = p[i]
    BY <1>2, <1>4, <2>1
  <2>3. Len(f) = Len(p)
    BY <1>2, <2>1
  <2> QED BY <2>1, <2>2, <2>3, SameFirst
<1> HIDE DEF d, e, f
<1>8. Cut(b, 0, 27) = d /\ Cut(b, 36, 36 + l) = e /\ Cut(b, 36 + l, 100 + l) = f
  BY DEF d, e, f, z, y, x, m, k
<1> QED BY <1>1, <1>5, <1>6, <1>7, <1>8

\* The scan finds the name where it was put.
LEMMA NameThere ==
  ASSUME NEW h, HeaderOk(h), NEW l \in 2 .. 253, NEW n, IsName(n, l), NEW p \in Seq(Nat), Len(p) = 64,
         NEW b, IsLayout(b, h, n, p)
  PROVE  Headed(b, 27) /\ SniLen(b, 27) = l /\ SniAt(b, 27) = n
<1>0. b[28] = 0 /\ b[29] = 0 /\ b[34] = 0
  BY DEF IsLayout
<1>1. /\ b[30] = (5 + l) \div 256 /\ b[31] = (5 + l) % 256
      /\ b[32] = (3 + l) \div 256 /\ b[33] = (3 + l) % 256
      /\ b[35] = l \div 256 /\ b[36] = l % 256
  BY DEF IsLayout, IsName
<1>2. 5 + l \in Nat /\ 3 + l \in Nat /\ l \in Nat
  OBVIOUS
<1>3. 256 * b[30] + b[31] = 5 + l
  <2>1. 256 * ((5 + l) \div 256) + ((5 + l) % 256) = 5 + l
    BY <1>2, HalvesWhole
  <2> QED BY <1>1, <2>1
<1>4. 256 * b[32] + b[33] = 3 + l
  <2>1. 256 * ((3 + l) \div 256) + ((3 + l) % 256) = 3 + l
    BY <1>2, HalvesWhole
  <2> QED BY <1>1, <2>1
<1>5. 256 * b[35] + b[36] = l
  <2>1. 256 * (l \div 256) + (l % 256) = l
    BY <1>2, HalvesWhole
  <2> QED BY <1>1, <2>1
<1>6. Headed(b, 27) /\ SniLen(b, 27) = l
  <2>1. Lengths(b, l)
    BY <1>0, <1>3, <1>4, <1>5 DEF Lengths
  <2> QED BY <2>1, HeadedByName
<1>7. Cut(b, 36, 36 + l) = n
  BY <1>2, LayoutCuts DEF HeaderOk
<1>8. 27 + 9 = 36
  OBVIOUS
<1> QED BY <1>6, <1>7, <1>8 DEF SniAt

\* The least of the positions.
LEMMA LeastOfAll ==
  ASSUME NEW m \in Nat, m > 27, NEW P, NEW Q, P \in SUBSET (0 .. m - 1), 27 \in P, \A i \in 0 .. 26 : ~(i \in P)
  PROVE  27 = CHOOSE i \in P : \A j \in P : i <= j
<1>1. \A i \in P : i \in Int /\ 0 <= i
  OBVIOUS
<1>2. \A i \in P : 27 <= i
  BY <1>1
<1>3. \A x \in P : (\A j \in P : x <= j) => x = 27
  BY <1>1, <1>2
<1> QED BY <1>2, <1>3

\* b is such a packet, with a name that can be found.
IsStub(b, h, l, n, p) ==
  /\ HeaderOk(h) /\ l \in 2 .. 253 /\ IsName(n, l) /\ p \in Seq(Nat) /\ Len(p) = 64
  /\ IsLayout(b, h, n, p) /\ Holds(n, Dot) /\ ~Spelt(b)

\* The scan stops at the extension.
LEMMA NameFound ==
  ASSUME NEW h, NEW l, NEW n, NEW p, NEW b, IsStub(b, h, l, n, p)
  PROVE  FindExt(b) = 27
<1>0. /\ HeaderOk(h) /\ l \in 2 .. 253 /\ IsName(n, l) /\ p \in Seq(Nat) /\ Len(p) = 64
      /\ IsLayout(b, h, n, p) /\ Holds(n, Dot) /\ ~Spelt(b)
  BY DEF IsStub
<1> DEFINE m == ScanLimit(b)
           P == {i \in 0 .. m - 1 : Shape(b, i)}
<1>1. Len(b) = 100 + l
  BY <1>0 DEF IsLayout, IsName
<1>2. m = 91 + l /\ ~(Len(b) < 15) /\ 27 + 9 + l <= Len(b)
  <2> DEFINE k == Len(b)
  <2>1. k = 100 + l
    BY <1>1
  <2> HIDE DEF k
  <2>2. k - 9 = 91 + l /\ k - 9 < 8192 /\ ~(k < 15) /\ 27 + 9 + l <= k
    BY <1>0, <2>1
  <2> QED BY <2>2 DEF ScanLimit, k
<1> HIDE DEF m
<1>3. m \in Nat /\ m > 27
  BY <1>0, <1>2
<1>4. Shape(b, 27)
  <2>1. Headed(b, 27) /\ SniLen(b, 27) = l /\ SniAt(b, 27) = n
    BY <1>0, NameThere
  <2> QED BY <1>0, <1>2, <2>1 DEF Shape
<1>5. P \in SUBSET (0 .. m - 1) /\ 27 \in P
  BY <1>3, <1>4
<1>6. \A i \in 0 .. 26 : ~(i \in P)
  <2>1. \A i \in 0 .. 26 : ~Headed(b, i)
    BY <1>0, NoneBefore
  <2> QED BY <2>1 DEF Shape
<1>7. FindExt(b) = CHOOSE i \in P : \A j \in P : i <= j
  BY <1>2, <1>5 DEF FindExt, m
<1> HIDE DEF P
<1> QED BY <1>3, <1>5, <1>6, <1>7, LeastOfAll

\* Packets with the same header are spelt alike.
LEMMA SpeltSame ==
  ASSUME NEW b, NEW c, \A i \in 1 .. 27 : b[i] = c[i]
  PROVE  Spelt(b) <=> Spelt(c)
<1>1. ASSUME NEW i \in 6 .. 16 PROVE Headed(b, i) <=> Headed(c, i)
  <2>1. \A k \in 0 .. 8 : i + k + 1 \in 1 .. 27
    OBVIOUS
  <2>2. \A k \in 0 .. 8 : Byte(b, i + k) = Byte(c, i + k)
    BY <2>1 DEF Byte
  <2>3. /\ Byte(b, i) = Byte(c, i) /\ Byte(b, i + 1) = Byte(c, i + 1) /\ Byte(b, i + 6) = Byte(c, i + 6)
    <3>1. i + 0 = i
      OBVIOUS
    <3> QED BY <2>2, <3>1
  <2>4. Word(b, i + 2) = Word(c, i + 2)
    <3>1. i + 2 + 1 = i + 3
      OBVIOUS
    <3> QED BY <2>2, <3>1 DEF Word
  <2>5. Word(b, i + 4) = Word(c, i + 4)
    <3>1. i + 4 + 1 = i + 5
      OBVIOUS
    <3> QED BY <2>2, <3>1 DEF Word
  <2>6. Word(b, i + 7) = Word(c, i + 7)
    <3>1. i + 7 + 1 = i + 8
      OBVIOUS
    <3> QED BY <2>2, <3>1 DEF Word
  <2> QED BY <2>3, <2>4, <2>5, <2>6 DEF Headed
<1> QED BY <1>1 DEF Spelt

\* What is read from such a packet.
LEMMA StubRead ==
  ASSUME NEW h, NEW l, NEW n, NEW p, NEW b, IsStub(b, h, l, n, p)
  PROVE  /\ FindExt(b) = 27 /\ SniLen(b, 27) = l /\ SniAt(b, 27) = n
         /\ Len(b) = 100 + l /\ Cut(b, 0, 27) = h /\ Cut(b, 36 + l, 100 + l) = p
<1>1. /\ HeaderOk(h) /\ l \in 2 .. 253 /\ IsName(n, l) /\ p \in Seq(Nat) /\ Len(p) = 64
      /\ IsLayout(b, h, n, p) /\ Holds(n, Dot) /\ ~Spelt(b)
  BY DEF IsStub
<1>2. FindExt(b) = 27
  BY NameFound
<1>3. SniLen(b, 27) = l /\ SniAt(b, 27) = n
  BY <1>1, NameThere
<1>4. Len(b) = 100 + l /\ Cut(b, 0, 27) = h /\ Cut(b, 36 + l, 100 + l) = p
  <2>1. l \in Nat
    BY <1>1
  <2>2. h \in Seq(Nat) /\ Len(h) = 27
    BY <1>1 DEF HeaderOk
  <2> QED BY <1>1, <2>1, <2>2, LayoutCuts
<1> QED BY <1>2, <1>3, <1>4

\* A swap leaves the packet with the new name and nothing else of it changed.
LEMMA Renamed ==
  ASSUME NEW h, NEW l, NEW n, NEW p, NEW b, IsStub(b, h, l, n, p), NEW new \in Seq(Nat), Fits(new)
  PROVE  IsLayout(Replace(b, new), h, new, p)
<1>1. /\ FindExt(b) = 27 /\ SniLen(b, 27) = l
      /\ Len(b) = 100 + l /\ Cut(b, 0, 27) = h /\ Cut(b, 36 + l, 100 + l) = p
  BY StubRead
<1>2. 27 + 9 + l = 36 + l /\ ~(27 < 0)
  BY DEF IsStub
<1>3. Replace(b, new) = PutAll(PutAll(h, ServerName(new)), p)
  BY <1>1, <1>2 DEF Replace, PutAll
<1>4. IsLayout(PutAll(PutAll(h, ServerName(new)), p), h, new, p)
  <2>1. h \in Seq(Nat) /\ Len(h) = 27 /\ p \in Seq(Nat) /\ Len(p) = 64
    BY DEF IsStub, HeaderOk
  <2> QED BY <2>1, LayoutMade
<1> QED BY <1>3, <1>4

-----------------------------------------------------------------------------
(* The packet as it is built. *)

\* The answers of os.urandom().
LEMMA RandomBytes ==
  ASSUME NEW k \in Nat, NEW d \in [1 .. k -> Bytes]
  PROVE  d \in Seq(Nat) /\ Len(d) = k /\ Bytes \subseteq Nat
<1>1. Bytes \subseteq Nat
  BY DEF Bytes
<1>2. d \in [1 .. k -> Nat]
  BY <1>1
<1> QED BY <1>1, <1>2, SeqMade

\* Header() makes such a header.
LEMMA HeaderMade ==
  ASSUME NEW dcid \in [1 .. 8 -> Bytes], NEW scid \in [1 .. 8 -> Bytes], NEW pn \in Bytes, NEW m \in 74 .. 292
  PROVE  HeaderOk(Header(dcid, scid, pn, m))
<1> DEFINE v == 1 + m + 16384
           hi == v \div 256
           lo == v % 256
           c1 == <<192, 0, 0, 0, 1>>
           c2 == PutOne(c1, 8)
           c3 == PutAll(c2, dcid)
           c4 == PutOne(c3, 8)
           c5 == PutAll(c4, scid)
           c6 == PutOne(c5, 0)
           c7 == PutPair(c6, hi, lo)
           c8 == PutOne(c7, pn)
<1>1. Header(dcid, scid, pn, m) = c8
  <2>1. Varint(0) = <<0>>
    BY DEF Varint
  <2>2. Varint(1 + m) = <<hi, lo>>
    BY DEF Varint, U16
  <2> HIDE DEF hi, lo
  <2>3. Header(dcid, scid, pn, m) =
          <<192, 0, 0, 0, 1>> \o <<8>> \o dcid \o <<8>> \o scid \o <<0>> \o <<hi, lo>> \o <<pn>>
    BY <2>1, <2>2 DEF Header
  <2> QED BY <2>3 DEF PutOne, PutAll, PutPair
<1>2. hi \in 64 .. 65 /\ hi \in Nat /\ lo \in Nat
  <2>1. v \in Nat /\ v \in 16459 .. 16677
    OBVIOUS
  <2> HIDE DEF v
  <2>2. hi \in Nat /\ lo \in 0 .. 255 /\ 256 * hi + lo = v
    BY <2>1, HalvesWhole
  <2> HIDE DEF hi, lo
  <2> QED BY <2>1, <2>2
<1> HIDE DEF hi, lo
<1>3. c1 \in Seq(Nat) /\ Len(c1) = 5 /\ c1[1] = 192 /\ c1[2] = 0 /\ c1[3] = 0 /\ c1[4] = 0 /\ c1[5] = 1
  OBVIOUS
<1> HIDE DEF c1
<1>4. IsOne(c2, c1, 8)
  BY <1>3, JoinedOne
<1> HIDE DEF c2
<1>4a. c2 \in Seq(Nat) /\ Len(c2) = 6 /\ (\A i \in 1 .. 5 : c2[i] = c1[i]) /\ c2[6] = 8
  BY <1>3, <1>4 DEF IsOne
<1>5. /\ dcid \in Seq(Nat) /\ Len(dcid) = 8 /\ scid \in Seq(Nat) /\ Len(scid) = 8 /\ pn \in Nat
  <2>1. 8 \in Nat
    OBVIOUS
  <2> QED BY <2>1, RandomBytes
<1>6. IsAll(c3, c2, dcid)
  BY <1>4a, <1>5, JoinedAll
<1> HIDE DEF c3
<1>6a. c3 \in Seq(Nat) /\ Len(c3) = 14 /\ \A i \in 1 .. 6 : c3[i] = c2[i]
  BY <1>4a, <1>5, <1>6 DEF IsAll
<1>7. IsOne(c4, c3, 8)
  BY <1>6a, JoinedOne
<1> HIDE DEF c4
<1>7a. c4 \in Seq(Nat) /\ Len(c4) = 15 /\ (\A i \in 1 .. 14 : c4[i] = c3[i]) /\ c4[15] = 8
  BY <1>6a, <1>7 DEF IsOne
<1>8. IsAll(c5, c4, scid)
  BY <1>5, <1>7a, JoinedAll
<1> HIDE DEF c5
<1>8a. c5 \in Seq(Nat) /\ Len(c5) = 23 /\ \A i \in 1 .. 15 : c5[i] = c4[i]
  BY <1>5, <1>7a, <1>8 DEF IsAll
<1>9. IsOne(c6, c5, 0)
  BY <1>8a, JoinedOne
<1> HIDE DEF c6
<1>9a. c6 \in Seq(Nat) /\ Len(c6) = 24 /\ (\A i \in 1 .. 23 : c6[i] = c5[i]) /\ c6[24] = 0
  BY <1>8a, <1>9 DEF IsOne
<1>10. IsPair(c7, c6, hi, lo)
  BY <1>2, <1>9a, JoinedPair
<1> HIDE DEF c7
<1>10a. c7 \in Seq(Nat) /\ Len(c7) = 26 /\ (\A i \in 1 .. 24 : c7[i] = c6[i]) /\ c7[25] = hi
  BY <1>9a, <1>10 DEF IsPair
<1>11. IsOne(c8, c7, pn)
  BY <1>5, <1>10a, JoinedOne
<1> HIDE DEF c8
<1>11a. c8 \in Seq(Nat) /\ Len(c8) = 27 /\ \A i \in 1 .. 26 : c8[i] = c7[i]
  BY <1>10a, <1>11 DEF IsOne
<1>12. c8[25] \in 64 .. 65
  <2>1. c8[25] = c7[25]
    BY <1>11a
  <2> QED BY <1>2, <1>10a, <2>1
<1>13. \A i \in 1 .. 24 : c8[i] = c6[i]
  <2>1. \A i \in 1 .. 24 : i \in 1 .. 26
    OBVIOUS
  <2> QED BY <1>10a, <1>11a, <2>1
<1>14. c8[24] = 0 /\ \A i \in 1 .. 15 : c8[i] = c4[i]
  <2>1. \A i \in 1 .. 15 : i \in 1 .. 23 /\ i \in 1 .. 24
    OBVIOUS
  <2>2. \A i \in 1 .. 15 : c8[i] = c6[i]
    BY <1>13, <2>1
  <2>3. \A i \in 1 .. 15 : c6[i] = c5[i]
    BY <1>9a, <2>1
  <2>4. \A i \in 1 .. 15 : c5[i] = c4[i]
    BY <1>8a
  <2>5. c8[24] = c6[24] /\ c6[24] = 0
    BY <1>9a, <1>13
  <2> QED BY <2>2, <2>3, <2>4, <2>5
<1>15. c8[15] = 8 /\ \A i \in 1 .. 6 : c8[i] = c2[i]
  <2>1. \A i \in 1 .. 6 : i \in 1 .. 14 /\ i \in 1 .. 15
    OBVIOUS
  <2>2. \A i \in 1 .. 6 : c8[i] = c2[i]
    <3>1. \A i \in 1 .. 6 : c8[i] = c4[i]
      BY <1>14, <2>1
    <3>2. \A i \in 1 .. 6 : c4[i] = c3[i]
      BY <1>7a, <2>1
    <3>3. \A i \in 1 .. 6 : c3[i] = c2[i]
      BY <1>6a
    <3> QED BY <3>1, <3>2, <3>3
  <2>3. c8[15] = 8
    BY <1>7a, <1>14
  <2> QED BY <2>2, <2>3
<1>16. c8[6] = 8 /\ \A i \in 1 .. 5 : c8[i] = c1[i]
  BY <1>4a, <1>15
<1>17. c8[1] = 192 /\ c8[2] = 0 /\ c8[3] = 0 /\ c8[4] = 0 /\ c8[5] = 1
  BY <1>3, <1>16
<1> QED BY <1>1, <1>11a, <1>12, <1>14, <1>15, <1>16, <1>17 DEF HeaderOk

\* A set of numbers has a least one.
LEMMA LeastNumber ==
  ASSUME NEW P \in SUBSET Nat, P # {}
  PROVE  \E k \in P : \A j \in P : k <= j
<1> DEFINE Q == {k \in Nat : \A j \in P : k <= j}
<1>1. SUFFICES ASSUME ~\E k \in P : \A j \in P : k <= j PROVE FALSE
  OBVIOUS
<1>2. 0 \in Q
  OBVIOUS
<1>3. \A k \in Q : k + 1 \in Q
  <2>1. SUFFICES ASSUME NEW k \in Q PROVE \A j \in P : k + 1 <= j
    OBVIOUS
  <2>2. k \notin P
    BY <1>1
  <2>3. \A j \in P : k <= j /\ k # j /\ j \in Nat /\ k \in Nat
    BY <2>2
  <2> QED BY <2>3
<1>4. Q = Nat
  <2> HIDE DEF Q
  <2>1. Q \in SUBSET Nat
    BY DEF Q
  <2> QED BY <1>2, <1>3, <2>1, NatSetInduction
<1>5. PICK x \in P : TRUE
  OBVIOUS
<1>6. x + 1 \in Q
  BY <1>4
<1> QED BY <1>5, <1>6

\* Where a text begins.
LEMMA FirstNotBound ==
  ASSUME NEW s \in Seq(Nat), NEW v
  PROVE  FirstNot(s, v) \in 1 .. Len(s) + 1
<1> DEFINE P == {n \in 1 .. Len(s) + 1 : n = Len(s) + 1 \/ s[n] # v}
<1>1. P \in SUBSET Nat /\ Len(s) + 1 \in P
  OBVIOUS
<1>2. PICK n \in P : \A j \in P : n <= j
  <2> HIDE DEF P
  <2> QED BY <1>1, LeastNumber
<1>3. \A k \in 1 .. n - 1 : s[k] = v
  <2>1. SUFFICES ASSUME NEW k \in 1 .. n - 1, s[k] # v PROVE FALSE
    OBVIOUS
  <2>2. k \in P /\ ~(n <= k)
    BY <2>1
  <2> QED BY <1>2, <2>2
<1> QED BY <1>2, <1>3 DEF FirstNot

\* Where a text ends.
LEMMA LastNotBound ==
  ASSUME NEW s \in Seq(Nat), NEW v
  PROVE  LastNot(s, v) \in 0 .. Len(s)
<1> DEFINE L == Len(s)
           P == {j \in 0 .. L : L - j = 0 \/ s[L - j] # v}
<1>1. P \in SUBSET Nat /\ L \in P /\ L \in Nat
  OBVIOUS
<1>2. PICK m \in P : \A j \in P : m <= j
  <2> HIDE DEF P
  <2> QED BY <1>1, LeastNumber
<1>3. L - m \in 0 .. L /\ (L - m = 0 \/ s[L - m] # v)
  BY <1>2
<1>4. \A k \in (L - m) + 1 .. L : s[k] = v
  <2>1. SUFFICES ASSUME NEW k \in (L - m) + 1 .. L, s[k] # v PROVE FALSE
    OBVIOUS
  <2>2. L - k \in 0 .. L /\ L - (L - k) = k /\ ~(m <= L - k)
    BY <1>1, <1>3, <2>1
  <2>3. L - k \in P
    BY <2>1, <2>2
  <2> QED BY <1>2, <2>2, <2>3
<1> QED BY <1>3, <1>4 DEF LastNot

\* A part of a sequence, which may be empty.
LEMMA PartTyped ==
  ASSUME NEW s \in Seq(Nat), NEW f \in 1 .. Len(s) + 1, NEW l \in 0 .. Len(s)
  PROVE  SubSeq(s, f, l) \in Seq(Nat)
OBVIOUS

\* A name stays a text when it is trimmed.
LEMMA TrimmedTyped ==
  ASSUME NEW s \in Seq(Nat)
  PROVE  Trimmed(s) \in Seq(Nat)
<1> DEFINE f == FirstNot(s, Space)
           l == LastNot(s, Space)
           bare == SubSeq(s, f, l)
           e == LastNot(bare, Dot)
<1>1. f \in 1 .. Len(s) + 1 /\ l \in 0 .. Len(s)
  BY FirstNotBound, LastNotBound
<1> HIDE DEF f, l
<1>2. bare \in Seq(Nat)
  BY <1>1, PartTyped
<1> HIDE DEF bare
<1>3. e \in 0 .. Len(bare)
  BY <1>2, LastNotBound
<1>4. 1 \in 1 .. Len(bare) + 1
  BY <1>2
<1> HIDE DEF e
<1>5. SubSeq(bare, 1, e) \in Seq(Nat)
  BY <1>2, <1>3, <1>4, PartTyped
<1> QED BY <1>5 DEF Trimmed, e, bare, f, l

-----------------------------------------------------------------------------
(* The theorem about the stub. *)

\* The header of a packet.
Front(b) == Cut(b, 0, 27)
\* The padding.
Back(b) == Cut(b, Len(b) - 64, Len(b))

\* A packet that begins and ends like a stub.
Framed(b) ==
  /\ b \in Seq(Nat) /\ Len(b) >= 100
  /\ HeaderOk(Front(b)) /\ Back(b) \in Seq(Nat) /\ Len(Back(b)) = 64
  /\ \A i \in 1 .. 27 : b[i] = Front(b)[i]

\* A name that was taken and can be found again.
GoodName(n) == n \in Seq(Nat) /\ (Len(n) > 1 => Fits(n))

\* QuicRoundTrip says what can be read from the packet; this says byte by byte
\* what it is.
QIndInv ==
  /\ GoodName(name) /\ Framed(built)
  /\ Len(name) > 1 /\ ~Spelt(built) => IsLayout(stub, Front(built), name, Back(built))

\* The frame of a packet, read back.
LEMMA LayoutFramed ==
  ASSUME NEW h, HeaderOk(h), NEW l \in Nat, NEW n, IsName(n, l), NEW p \in Seq(Nat), Len(p) = 64,
         NEW b, IsLayout(b, h, n, p)
  PROVE  Framed(b) /\ Front(b) = h /\ Back(b) = p
<1>1. h \in Seq(Nat) /\ Len(h) = 27
  BY DEF HeaderOk
<1>2. /\ b \in Seq(Nat) /\ Len(b) = 100 + l
      /\ Cut(b, 0, 27) = h /\ Cut(b, 36 + l, 100 + l) = p
  BY <1>1, LayoutCuts
<1>3. 100 + l - 64 = 36 + l /\ 100 + l >= 100
  OBVIOUS
<1>4. Front(b) = h /\ Back(b) = p
  BY <1>2, <1>3 DEF Front, Back
<1>5. \A i \in 1 .. 27 : b[i] = h[i]
  BY DEF IsLayout
<1> QED BY <1>2, <1>3, <1>4, <1>5 DEF Framed

\* Names are bytes.
LEMMA NamesTyped == \A new \in SNIS : new \in Seq(Nat)
<1>1. SNIS \subseteq Seq(Ascii)
  BY QuicAssumption DEF QuicAssumption
<1>2. ASSUME NEW s \in Seq(Ascii) PROVE s \in Seq(Nat)
  <2>1. Len(s) \in Nat /\ s \in [1 .. Len(s) -> Ascii]
    OBVIOUS
  <2>2. Ascii \subseteq Nat
    BY DEF Ascii
  <2> DEFINE l == Len(s)
  <2> HIDE DEF l
  <2>3. l \in Nat /\ s \in [1 .. l -> Nat]
    BY <2>1, <2>2 DEF l
  <2> QED BY <2>3, SeqMade
<1> QED BY <1>1, <1>2

\* The packet that is built is a stub.
LEMMA StubBuilt == QInit => QIndInv
<1>1. SUFFICES ASSUME NEW sni \in SNIS, NEW dcid \in IDS, NEW scid \in IDS, NEW pad \in PADS, NEW pn \in PNS,
                      Buildable(sni), built = BuildInitial(sni, dcid, scid, pad, pn), stub = built,
                      name = Trimmed(sni)
               PROVE  QIndInv
  BY DEF QInit
<1> DEFINE n == Trimmed(sni)
           l == Len(n)
           s == ServerName(n)
           e == PutAll(s, pad)
           h == Header(dcid, scid, pn, Len(e))
<1>2. /\ dcid \in [1 .. 8 -> Bytes] /\ scid \in [1 .. 8 -> Bytes] /\ pad \in [1 .. 64 -> Bytes]
      /\ pn \in Bytes
  BY QuicAssumption DEF QuicAssumption
<1>3. n \in Seq(Nat)
  BY NamesTyped, TrimmedTyped
<1>4. Holds(n, Dot) /\ ~Holds(n, Space) /\ l <= 219
  BY <1>1 DEF Buildable
<1> HIDE DEF n
<1>5. l \in Nat /\ l \in 0 .. 219
  <2>1. l \in Nat
    BY <1>3
  <2> HIDE DEF l
  <2> QED BY <1>4, <2>1
<1>6. pad \in Seq(Nat) /\ Len(pad) = 64
  <2>1. 64 \in Nat
    OBVIOUS
  <2> QED BY <1>2, <2>1, RandomBytes
<1>7. s \in Seq(Nat) /\ Len(s) = 9 + l
  BY <1>3, ServerNameBytes
<1> HIDE DEF s
<1>8. Len(e) = 73 + l
  <2>1. IsAll(e, s, pad)
    BY <1>6, <1>7, JoinedAll
  <2> HIDE DEF e
  <2> QED BY <1>5, <1>6, <1>7, <2>1 DEF IsAll
<1> HIDE DEF l
<1>9. l # 0
  <2>1. PICK i \in DOMAIN n : n[i] = Dot
    BY <1>4 DEF Holds
  <2>2. DOMAIN n = 1 .. l
    BY <1>3, SeqParts DEF l
  <2> QED BY <1>5, <2>1, <2>2
<1>10. Len(e) \in 74 .. 292
  BY <1>5, <1>8, <1>9
<1>11. HeaderOk(h)
  <2> DEFINE m == Len(e)
  <2>1. m \in 74 .. 292
    BY <1>10
  <2> HIDE DEF m
  <2>2. HeaderOk(Header(dcid, scid, pn, m))
    BY <1>2, <2>1, HeaderMade
  <2> QED BY <2>2 DEF m
<1>12. built = PutAll(h, e)
  BY <1>1 DEF BuildInitial, PutAll, n, s
<1> HIDE DEF h
<1>13. IsLayout(PutAll(h, e), h, n, pad)
  <2>1. h \in Seq(Nat) /\ Len(h) = 27
    BY <1>11 DEF HeaderOk
  <2> QED BY <1>3, <1>6, <2>1, LayoutMade DEF s
<1>14. IsName(n, l)
  BY <1>3 DEF IsName, l
<1>15. Framed(built) /\ Front(built) = h /\ Back(built) = pad
  BY <1>5, <1>6, <1>11, <1>12, <1>13, <1>14, LayoutFramed
<1>16. GoodName(n)
  <2>1. l <= 253
    BY <1>5
  <2>2. Len(n) <= 253
    BY <2>1 DEF l
  <2> QED BY <1>3, <1>4, <2>2 DEF GoodName, Fits
<1>17. name = n /\ stub = PutAll(h, e)
  BY <1>1, <1>12 DEF n
<1> QED BY <1>13, <1>15, <1>16, <1>17 DEF QIndInv

\* What QIndInv says of a packet whose name can be found.
LEMMA StubThere ==
  ASSUME QIndInv, Len(name) > 1, ~Spelt(built)
  PROVE  /\ IsStub(stub, Front(built), Len(name), name, Back(built))
         /\ Fits(name)
<1>1. /\ name \in Seq(Nat) /\ Fits(name) /\ Framed(built)
      /\ IsLayout(stub, Front(built), name, Back(built))
  BY DEF QIndInv, GoodName
<1>2. Holds(name, Dot) /\ Len(name) <= 253
  BY <1>1 DEF Fits
<1>3. Len(name) \in 2 .. 253
  <2>1. Len(name) \in Nat
    BY <1>1
  <2> DEFINE l == Len(name)
  <2>2. l \in Nat /\ l > 1 /\ l <= 253
    BY <1>2, <2>1
  <2> HIDE DEF l
  <2>3. l \in 2 .. 253
    BY <2>2
  <2> QED BY <2>3 DEF l
<1>4. ~Spelt(stub)
  <2>1. \A i \in 1 .. 27 : stub[i] = Front(built)[i]
    BY <1>1 DEF IsLayout
  <2>2. \A i \in 1 .. 27 : built[i] = Front(built)[i]
    BY <1>1 DEF Framed
  <2>3. \A i \in 1 .. 27 : stub[i] = built[i]
    BY <2>1, <2>2
  <2> QED BY <2>3, SpeltSame
<1> QED BY <1>1, <1>2, <1>3, <1>4 DEF IsStub, IsName, Framed

\* It stays one when its name is swapped.
LEMMA StubSwapped == QIndInv /\ [QNext]_qvars => QIndInv'
<1>1. SUFFICES ASSUME QIndInv, [QNext]_qvars PROVE QIndInv'
  OBVIOUS
<1>2. CASE UNCHANGED qvars
  BY <1>1, <1>2 DEF QIndInv, qvars
<1>3. ASSUME NEW new \in SNIS, Swap(new) PROVE QIndInv'
  <2>1. stub' = Replace(stub, new) /\ built' = built
    BY <1>3 DEF Swap
  <2>2. name' = IF Fits(new) /\ Len(name) > 1 THEN new ELSE name
    BY <1>3 DEF Swap
  <2>3. new \in Seq(Nat)
    BY NamesTyped
  <2>4. CASE Fits(new) /\ Len(name) > 1
    <3>1. name' = new
      BY <2>2, <2>4
    <3>2. GoodName(new) /\ Framed(built)
      BY <1>1, <2>3, <2>4 DEF GoodName, QIndInv
    <3>3. ASSUME ~Spelt(built) PROVE IsLayout(Replace(stub, new), Front(built), new, Back(built))
      <4>1. IsStub(stub, Front(built), Len(name), name, Back(built))
        BY <1>1, <2>4, <3>3, StubThere
      <4> QED BY <2>3, <2>4, <4>1, Renamed
    <3> QED BY <2>1, <3>1, <3>2, <3>3 DEF QIndInv
  <2>5. CASE ~Fits(new)
    <3>1. stub' = stub /\ name' = name
      BY <2>1, <2>2, <2>5 DEF Replace
    <3> QED BY <1>1, <2>1, <3>1 DEF QIndInv
  <2>6. CASE ~(Len(name) > 1)
    <3>1. name' = name
      BY <2>2, <2>6
    <3> QED BY <1>1, <2>1, <2>6, <3>1 DEF QIndInv
  <2> QED BY <2>4, <2>5, <2>6
<1> QED BY <1>1, <1>2, <1>3 DEF QNext

\* A stub is as QuicRoundTrip says.
LEMMA StubHolds == QIndInv => QuicRoundTrip
<1>1. SUFFICES ASSUME QIndInv, Len(name) > 1, ~Spelt(built)
               PROVE  /\ IsQuic(stub) /\ Extract(stub) = name
                      /\ Cut(stub, 0, 27) = Front(built)
                      /\ Cut(stub, Len(stub) - 64, Len(stub)) = Back(built)
                      /\ Len(stub) = 27 + 9 + Len(name) + 64
                      /\ \A new \in SNIS : Len(new) > 1 => Replace(Replace(stub, new), name) = stub
  BY DEF QuicRoundTrip, Front, Back
<1> DEFINE h == Front(built)
           p == Back(built)
           l == Len(name)
<1>2. IsStub(stub, h, l, name, p) /\ Fits(name)
  BY <1>1, StubThere
<1> HIDE DEF h, p, l
<1>3. /\ FindExt(stub) = 27 /\ SniLen(stub, 27) = l /\ SniAt(stub, 27) = name
      /\ Len(stub) = 100 + l /\ Cut(stub, 0, 27) = h /\ Cut(stub, 36 + l, 100 + l) = p
  BY <1>2, StubRead
<1>4. /\ HeaderOk(h) /\ l \in 2 .. 253 /\ IsName(name, l) /\ p \in Seq(Nat) /\ Len(p) = 64
      /\ IsLayout(stub, h, name, p)
  BY <1>2 DEF IsStub
<1>5. Extract(stub) = name
  <2>1. ~(27 < 0)
    OBVIOUS
  <2> QED BY <1>3, <2>1 DEF Extract
<1>6. IsQuic(stub)
  <2>1. stub[1] = 192
    <3>1. \A i \in 1 .. 27 : stub[i] = h[i]
      BY <1>4 DEF IsLayout
    <3> QED BY <1>4, <3>1 DEF HeaderOk
  <2>2. Byte(stub, 0) = 192
    BY <2>1 DEF Byte
  <2>3. 192 >= 128 /\ (192 \div 16) % 4 = 0
    OBVIOUS
  <2>4. Len(stub) >= 5
    BY <1>3, <1>4
  <2> QED BY <2>2, <2>3, <2>4 DEF IsQuic
<1>7. 100 + l - 64 = 36 + l /\ 100 + l = 27 + 9 + l + 64
  BY <1>4
<1>8. Cut(stub, Len(stub) - 64, Len(stub)) = p /\ Len(stub) = 27 + 9 + l + 64
  <2>1. Len(stub) = 100 + l /\ Cut(stub, 36 + l, 100 + l) = p
    BY <1>3
  <2> DEFINE m == Len(stub)
  <2>2. m - 64 = 36 + l
    <3>1. m = 100 + l /\ l \in Nat
      BY <1>4, <2>1
    <3> HIDE DEF m
    <3> QED BY <3>1
  <2> QED BY <1>7, <2>1, <2>2
<1>9. ASSUME NEW new \in SNIS, Len(new) > 1 PROVE Replace(Replace(stub, new), name) = stub
  <2>1. new \in Seq(Nat) /\ name \in Seq(Nat)
    BY <1>4, NamesTyped DEF IsName
  <2>2. CASE Fits(new)
    <3> DEFINE k == Len(new)
               c == Replace(stub, new)
    <3>1. IsLayout(c, h, new, p)
      BY <1>2, <2>1, <2>2, Renamed
    <3>2. Holds(new, Dot) /\ k <= 253
      BY <2>2 DEF Fits
    <3>3. k \in 2 .. 253
      <4>1. k \in Nat /\ k > 1
        BY <1>9, <2>1
      <4> HIDE DEF k
      <4> QED BY <3>2, <4>1
    <3>4. IsName(new, k)
      BY <2>1 DEF IsName
    <3> HIDE DEF c, k
    <3>5. ~Spelt(c)
      <4>1. \A i \in 1 .. 27 : c[i] = h[i]
        BY <3>1 DEF IsLayout
      <4>2. \A i \in 1 .. 27 : stub[i] = h[i]
        BY <1>4 DEF IsLayout
      <4>3. \A i \in 1 .. 27 : c[i] = stub[i]
        BY <4>1, <4>2
      <4>4. ~Spelt(stub)
        BY <1>2 DEF IsStub
      <4> QED BY <4>3, <4>4, SpeltSame
    <3>6. IsStub(c, h, k, new, p)
      BY <1>4, <3>1, <3>2, <3>3, <3>4, <3>5 DEF IsStub
    <3>7. IsLayout(Replace(c, name), h, name, p)
      BY <1>2, <2>1, <3>6, Renamed
    <3> QED BY <1>4, <2>1, <3>7, LayoutUnique DEF c
  <2>3. CASE ~Fits(new)
    <3>1. Replace(stub, new) = stub
      BY <2>3 DEF Replace
    <3>2. IsLayout(Replace(stub, name), h, name, p)
      BY <1>2, <2>1, Renamed
    <3>3. Replace(stub, name) = stub
      BY <1>4, <2>1, <3>2, LayoutUnique
    <3> QED BY <3>1, <3>3
  <2> QED BY <2>2, <2>3
<1> QED BY <1>3, <1>5, <1>6, <1>8, <1>9 DEF h, p, l

\* So the packet is one throughout.
LEMMA QuicInvariance == QSpec => []QIndInv
<1> QED BY StubBuilt, StubSwapped, PTL DEF QSpec

\* For any names, connection ids, paddings and packet numbers, a stub is read back
\* as it was last named, however often it was swapped (quic.py:59-172).
THEOREM StubRoundTrip == QSpec => []QuicRoundTrip
BY QuicInvariance, StubHolds, PTL

-----------------------------------------------------------------------------
(* The hello records: fields and where they end. *)

\* A field is its length and its value.
LEMMA FieldParts ==
  ASSUME NEW f \in Fields
  PROVE  f[1] \in Nat /\ f[2] \in Int /\ f = <<f[1], f[2]>>
BY DEF Fields

\* The values of the recursion in Ends(): a field ends its length behind the one before.
LEMMA EndsSteps ==
  ASSUME NEW s \in Seq(Fields)
  PROVE  /\ Ends(s) \in [0 .. Len(s) -> Nat] /\ Ends(s)[0] = 0
         /\ \A i \in 1 .. Len(s) : Ends(s)[i] = Ends(s)[i - 1] + s[i][1]
<1> DEFINE N == Len(s)
           step == [p \in (1 .. N) \X Nat |-> p[2] + s[p[1]][1]]
           body(f) == [n \in 0 .. N |-> IF n = 0 THEN 0 ELSE f[n - 1] + s[n][1]]
<1>1. N \in Nat
  BY SeqParts
<1>2. \A n \in 1 .. N : s[n][1] \in Nat
  BY SeqParts, FieldParts
<1>3. step \in [(1 .. N) \X Nat -> Nat]
  <2> HIDE DEF N
  <2> QED BY <1>2
<1>4. PICK f : FollowsTo(f, Nat, 0, N, step)
  <2> HIDE DEF step, N
  <2> QED BY <1>1, <1>3, RecUpTo
<1>5. \A n \in 1 .. N, v \in Nat : step[<<n, v>>] = v + s[n][1]
  <2> HIDE DEF N
  <2> QED OBVIOUS
<1>6. \A n \in 1 .. N : f[n] = f[n - 1] + s[n][1]
  <2>1. \A n \in 1 .. N : n - 1 \in 0 .. N
    BY <1>1
  <2> HIDE DEF N, step
  <2> QED BY <1>4, <1>5, <2>1 DEF FollowsTo
<1>7. f = body(f)
  <2> HIDE DEF step
  <2>1. f = [n \in 0 .. N |-> f[n]]
    BY <1>4 DEF FollowsTo
  <2>2. \A n \in 0 .. N : f[n] = body(f)[n]
    BY <1>4, <1>6, <1>1 DEF FollowsTo
  <2>3. body(f) = [n \in 0 .. N |-> body(f)[n]]
    OBVIOUS
  <2> HIDE DEF body
  <2> QED BY <2>1, <2>2, <2>3, ExtFun
<1> DEFINE k == CHOOSE h : h = body(h)
<1>8. k = body(k)
  <2> HIDE DEF body
  <2> QED BY <1>7
<1>9. Ends(s) = k
  BY DEF Ends
<1> HIDE DEF k
<1>10. k = [n \in 0 .. N |-> k[n]] /\ k[0] = 0 /\ \A n \in 1 .. N : k[n] = k[n - 1] + s[n][1]
  <2>1. body(k) = [n \in 0 .. N |-> body(k)[n]]
    OBVIOUS
  <2>2. 0 \in 0 .. N /\ \A n \in 1 .. N : n \in 0 .. N /\ n # 0
    BY <1>1
  <2>3. body(k)[0] = 0 /\ \A n \in 1 .. N : body(k)[n] = k[n - 1] + s[n][1]
    BY <2>2
  <2> HIDE DEF body
  <2> QED BY <1>8, <2>1, <2>3
<1>11. \A n \in 1 .. N : k[n - 1] \in Nat => k[n] = step[<<n, k[n - 1]>>]
  <2> HIDE DEF N, step
  <2> QED BY <1>5, <1>10
<1>12. FollowsTo(k, Nat, 0, N, step)
  <2> HIDE DEF N, step, body
  <2> QED BY <1>1, <1>3, <1>10, <1>11, RecTyped
<1>13. k \in [0 .. N -> Nat]
  <2> HIDE DEF step, N
  <2> QED BY <1>12 DEF FollowsTo
<1> QED BY <1>9, <1>10, <1>13

\* Later fields end later.
LEMMA EndsRise ==
  ASSUME NEW s \in Seq(Fields), NEW i \in 0 .. Len(s), NEW j \in 0 .. Len(s), i <= j
  PROVE  Ends(s)[i] <= Ends(s)[j]
<1> DEFINE e == Ends(s)
           P == {n \in Nat : i <= n /\ n <= Len(s) => e[i] <= e[n]}
<1>1. /\ Len(s) \in Nat /\ e \in [0 .. Len(s) -> Nat]
      /\ \A n \in 1 .. Len(s) : e[n] = e[n - 1] + s[n][1] /\ s[n][1] \in Nat
  BY SeqParts, EndsSteps, FieldParts
<1> HIDE DEF e
<1>2. 0 \in P
  BY <1>1
<1>3. ASSUME NEW n \in P PROVE n + 1 \in P
  <2>1. SUFFICES ASSUME i <= n + 1, n + 1 <= Len(s) PROVE e[i] <= e[n + 1]
    OBVIOUS
  <2>2. CASE i = n + 1
    BY <2>2, <1>1
  <2>3. CASE i <= n
    <3>1. n + 1 \in 1 .. Len(s) /\ (n + 1) - 1 = n /\ n \in 0 .. Len(s)
      BY <2>1, <1>1
    <3>2. e[n + 1] = e[n] + s[n + 1][1] /\ s[n + 1][1] \in Nat /\ e[n] \in Nat /\ e[i] \in Nat
      BY <3>1, <1>1
    <3>3. e[i] <= e[n]
      BY <2>3, <3>1
    <3> HIDE DEF P
    <3> QED BY <3>2, <3>3
  <2> QED BY <2>1, <2>2, <2>3
<1>4. P = Nat
  <2> HIDE DEF P
  <2>1. P \in SUBSET Nat
    BY DEF P
  <2> QED BY <1>2, <1>3, <2>1, NatSetInduction
<1>5. j \in P
  BY <1>4
<1> QED BY <1>5 DEF e

\* The field that begins at a byte is the one that is found there: of two that begin there
\* the earlier is empty.
LEMMA FieldThere ==
  ASSUME NEW s \in Seq(Fields), NEW i \in 1 .. Len(s), NEW pos, NEW k \in Nat \ {0},
         Ends(s)[i - 1] = pos, s[i][1] = k
  PROVE  FieldAt(s, pos, k) = s[i][2]
<1>1. DOMAIN s = 1 .. Len(s) /\ Len(s) \in Nat
  BY SeqParts
<1>2. \A j \in 1 .. Len(s) : Begins(s, j, pos, k) => j = i
  <2>1. SUFFICES ASSUME NEW j \in 1 .. Len(s), NEW m \in 1 .. Len(s), m < j, s[m][1] = k,
                        Ends(s)[j - 1] = pos, Ends(s)[m - 1] = pos
                 PROVE FALSE
    <3>1. ASSUME NEW j \in 1 .. Len(s), Begins(s, j, pos, k), j # i PROVE FALSE
      <4>1. s[j][1] = k /\ Ends(s)[j - 1] = pos
        BY <3>1 DEF Begins
      <4>2. CASE i < j
        BY <2>1, <4>1, <4>2
      <4>3. CASE j < i
        BY <2>1, <4>1, <4>3
      <4> QED BY <4>2, <4>3, <3>1, <1>1
    <3> QED BY <3>1
  <2> DEFINE e == Ends(s)
  <2>2. e[m] = pos + k
    <3>1. \A n \in 1 .. Len(s) : e[n] = e[n - 1] + s[n][1]
      BY EndsSteps
    <3>2. e[m - 1] = pos
      BY <2>1
    <3> HIDE DEF e
    <3> QED BY <3>1, <3>2, <2>1
  <2>3. m \in 0 .. Len(s) /\ j - 1 \in 0 .. Len(s) /\ m <= j - 1
    BY <2>1, <1>1
  <2>4. e[m] <= e[j - 1]
    BY <2>3, EndsRise
  <2>5. e[j - 1] \in Nat /\ e[j - 1] = pos
    <3>1. e \in [0 .. Len(s) -> Nat]
      BY EndsSteps
    <3>2. e[j - 1] = pos
      BY <2>1
    <3> HIDE DEF e
    <3> QED BY <2>3, <3>1, <3>2
  <2> HIDE DEF e
  <2> QED BY <2>2, <2>4, <2>5
<1>3. Begins(s, i, pos, k)
  BY DEF Begins
<1>4. (CHOOSE j \in DOMAIN s : Begins(s, j, pos, k)) = i
  BY <1>1, <1>2, <1>3
<1> QED BY <1>1, <1>3, <1>4 DEF FieldAt

\* When x stands behind the first k fields of t, its fields end there as in x.
LEMMA EndsBehind ==
  ASSUME NEW t \in Seq(Fields), NEW x \in Seq(Fields), NEW k \in Nat, k + Len(x) <= Len(t),
         \A i \in 1 .. Len(x) : t[k + i] = x[i], NEW j \in 0 .. Len(x)
  PROVE  Ends(t)[k + j] = Ends(t)[k] + Ends(x)[j]
<1> DEFINE e == Ends(t)
           g == Ends(x)
           P == {n \in Nat : n <= Len(x) => e[k + n] = e[k] + g[n]}
<1>1. /\ Len(t) \in Nat /\ e \in [0 .. Len(t) -> Nat]
      /\ \A n \in 1 .. Len(t) : e[n] = e[n - 1] + t[n][1]
  BY SeqParts, EndsSteps
<1>2. /\ Len(x) \in Nat /\ g \in [0 .. Len(x) -> Nat] /\ g[0] = 0
      /\ \A n \in 1 .. Len(x) : g[n] = g[n - 1] + x[n][1] /\ x[n][1] \in Nat
  BY SeqParts, EndsSteps, FieldParts
<1> HIDE DEF e, g
<1>3. 0 \in P
  <2>1. k + 0 = k /\ k \in 0 .. Len(t)
    BY <1>1, <1>2
  <2>2. e[k] \in Nat
    BY <2>1, <1>1
  <2> QED BY <2>1, <2>2, <1>2
<1>4. ASSUME NEW n \in P PROVE n + 1 \in P
  <2>1. SUFFICES ASSUME n + 1 <= Len(x) PROVE e[k + (n + 1)] = e[k] + g[n + 1]
    OBVIOUS
  <2>2. n + 1 \in 1 .. Len(x) /\ (n + 1) - 1 = n /\ n \in 0 .. Len(x)
    BY <2>1, <1>2
  <2>3. k + (n + 1) \in 1 .. Len(t) /\ (k + (n + 1)) - 1 = k + n /\ k \in 0 .. Len(t)
    BY <2>2, <1>1, <1>2
  <2>4. e[k + n] = e[k] + g[n]
    BY <2>2
  <2> HIDE DEF P
  <2>5. e[k + (n + 1)] = e[k + n] + x[n + 1][1]
    BY <2>2, <2>3, <1>1
  <2>6. g[n + 1] = g[n] + x[n + 1][1] /\ x[n + 1][1] \in Nat /\ g[n] \in Nat /\ e[k] \in Nat
    BY <2>2, <2>3, <1>1, <1>2
  <2> QED BY <2>4, <2>5, <2>6
<1>5. P = Nat
  <2> HIDE DEF P
  <2>1. P \in SUBSET Nat
    BY DEF P
  <2> QED BY <1>3, <1>4, <2>1, NatSetInduction
<1>6. j \in P
  <2> HIDE DEF P
  <2> QED BY <1>5, <1>2
<1> QED BY <1>6, <1>2 DEF e, g

-----------------------------------------------------------------------------
(* The extensions of a hello. *)

\* An extension, with the length of its data.
Exts == [ext : ExtNames, len : Nat]

\* The type of an extension is a number.
LEMMA TypesTyped ==
  ASSUME NEW x \in ExtNames
  PROVE  ExtTypes[x] \in Int
BY DEF ExtNames, ExtTypes

\* The three fields of extension e, behind field i.
IsExt(f, i, e) == f[i + 1] = <<2, ExtTypes[e.ext]>> /\ f[i + 2] = <<2, e.len>> /\ f[i + 3] = <<e.len, 0>>

\* Ext() makes these three fields.
LEMMA ExtMade ==
  ASSUME NEW e \in Exts
  PROVE  Ext(e) \in Seq(Fields) /\ Len(Ext(e)) = 3 /\ IsExt(Ext(e), 0, e)
<1>1. ExtTypes[e.ext] \in Int /\ e.len \in Nat
  BY TypesTyped DEF Exts
<1>2. <<2, ExtTypes[e.ext]>> \in Fields /\ <<2, e.len>> \in Fields /\ <<e.len, 0>> \in Fields
  BY <1>1 DEF Fields
<1> QED BY <1>2 DEF Ext, IsExt

\* The recursion in Extensions().
JoinedTo(list) ==
  LET joined[n \in 0 .. Len(list)] == IF n = 0 THEN <<>> ELSE joined[n - 1] \o Ext(list[n])
  IN  joined

\* What is joined in the end.
LEMMA JoinedLast ==
  ASSUME NEW list
  PROVE  Extensions(list) = JoinedTo(list)[Len(list)]
BY DEF Extensions, JoinedTo

\* The values of that recursion: one extension behind the other.
LEMMA JoinedSteps ==
  ASSUME NEW list \in Seq(Exts)
  PROVE  /\ JoinedTo(list) \in [0 .. Len(list) -> Seq(Fields)] /\ JoinedTo(list)[0] = <<>>
         /\ \A n \in 1 .. Len(list) : JoinedTo(list)[n] = JoinedTo(list)[n - 1] \o Ext(list[n])
<1> DEFINE N == Len(list)
           S == Seq(Fields)
           none == <<>>
           step == [p \in (1 .. N) \X S |-> p[2] \o Ext(list[p[1]])]
           body(f) == [n \in 0 .. N |-> IF n = 0 THEN none ELSE f[n - 1] \o Ext(list[n])]
<1>1. N \in Nat /\ none \in S
  BY SeqParts, SeqEmpty
<1>2. \A n \in 1 .. N, v \in S : v \o Ext(list[n]) \in S
  <2>1. ASSUME NEW n \in 1 .. N, NEW v \in S PROVE v \o Ext(list[n]) \in S
    <3>1. list[n] \in Exts
      BY SeqParts
    <3>2. Ext(list[n]) \in Seq(Fields)
      BY <3>1, ExtMade
    <3> QED BY <3>2, JoinedBoth
  <2> QED BY <2>1
<1>3. step \in [(1 .. N) \X S -> S]
  <2> HIDE DEF N, S
  <2> QED BY <1>2
<1>4. PICK f : FollowsTo(f, S, none, N, step)
  <2> HIDE DEF step, N, S, none
  <2> QED BY <1>1, <1>3, RecUpTo
<1>5. \A n \in 1 .. N, v \in S : step[<<n, v>>] = v \o Ext(list[n])
  <2> HIDE DEF N, S
  <2> QED OBVIOUS
<1>6. \A n \in 1 .. N : f[n] = f[n - 1] \o Ext(list[n])
  <2>1. \A n \in 1 .. N : n - 1 \in 0 .. N
    BY <1>1
  <2> HIDE DEF N, step, S
  <2> QED BY <1>4, <1>5, <2>1 DEF FollowsTo
<1>7. f = body(f)
  <2> HIDE DEF step, S, none
  <2>1. f = [n \in 0 .. N |-> f[n]]
    BY <1>4 DEF FollowsTo
  <2>2. \A n \in 0 .. N : f[n] = body(f)[n]
    BY <1>4, <1>6, <1>1 DEF FollowsTo
  <2>3. body(f) = [n \in 0 .. N |-> body(f)[n]]
    OBVIOUS
  <2> HIDE DEF body
  <2> QED BY <2>1, <2>2, <2>3, ExtFun
<1> DEFINE k == CHOOSE h : h = body(h)
<1>8. k = body(k)
  <2> HIDE DEF body
  <2> QED BY <1>7
<1>9. JoinedTo(list) = k
  BY DEF JoinedTo
<1> HIDE DEF k
<1>10. k = [n \in 0 .. N |-> k[n]] /\ k[0] = none /\ \A n \in 1 .. N : k[n] = k[n - 1] \o Ext(list[n])
  <2> HIDE DEF none, S, step
  <2>1. body(k) = [n \in 0 .. N |-> body(k)[n]]
    OBVIOUS
  <2>2. 0 \in 0 .. N /\ \A n \in 1 .. N : n \in 0 .. N /\ n # 0
    BY <1>1
  <2>3. body(k)[0] = none /\ \A n \in 1 .. N : body(k)[n] = k[n - 1] \o Ext(list[n])
    BY <2>2
  <2> HIDE DEF body
  <2> QED BY <1>8, <2>1, <2>3
<1>11. \A n \in 1 .. N : k[n - 1] \in S => k[n] = step[<<n, k[n - 1]>>]
  <2> HIDE DEF N, step, S
  <2> QED BY <1>5, <1>10
<1>12. FollowsTo(k, S, none, N, step)
  <2> HIDE DEF N, step, body, S, none
  <2> QED BY <1>1, <1>3, <1>10, <1>11, RecTyped
<1>13. k \in [0 .. N -> S]
  <2> HIDE DEF step, N, S, none
  <2> QED BY <1>12 DEF FollowsTo
<1> QED BY <1>9, <1>10, <1>13

\* x is the extensions of list.
IsExtensions(x, list) ==
  /\ x \in Seq(Fields) /\ Len(x) = 3 * Len(list)
  /\ \A i \in 1 .. Len(list) : IsExt(x, 3 * (i - 1), list[i])

\* An extension behind a sequence.
LEMMA ExtBehind ==
  ASSUME NEW s \in Seq(Fields), NEW e \in Exts
  PROVE  /\ s \o Ext(e) \in Seq(Fields) /\ Len(s \o Ext(e)) = Len(s) + 3
         /\ IsExt(s \o Ext(e), Len(s), e)
         /\ \A i \in 1 .. Len(s) : (s \o Ext(e))[i] = s[i]
<1> DEFINE t == Ext(e)
           u == s \o t
<1>1. /\ t \in Seq(Fields) /\ Len(t) = 3
      /\ t[1] = <<2, ExtTypes[e.ext]>> /\ t[2] = <<2, e.len>> /\ t[3] = <<e.len, 0>>
  BY ExtMade DEF IsExt
<1> HIDE DEF t
<1>2. /\ u \in Seq(Fields) /\ Len(u) = Len(s) + Len(t) /\ \A i \in 1 .. Len(s) : u[i] = s[i]
      /\ \A i \in 1 .. Len(t) : u[Len(s) + i] = t[i]
  <2>1. t \in Seq(Fields)
    BY <1>1
  <2> QED BY <2>1, JoinedBoth
<1>3. 1 \in 1 .. Len(t) /\ 2 \in 1 .. Len(t) /\ 3 \in 1 .. Len(t)
  BY <1>1
<1> HIDE DEF u
<1>4. u[Len(s) + 1] = t[1] /\ u[Len(s) + 2] = t[2] /\ u[Len(s) + 3] = t[3]
  BY <1>2, <1>3
<1>5. IsExt(u, Len(s), e)
  BY <1>1, <1>4 DEF IsExt
<1> QED BY <1>1, <1>2, <1>5 DEF u, t

\* An extension is there as long as its fields are.
LEMMA IsExtKept ==
  ASSUME NEW s, NEW t, NEW i, NEW e, IsExt(s, i, e),
         t[i + 1] = s[i + 1], t[i + 2] = s[i + 2], t[i + 3] = s[i + 3]
  PROVE  IsExt(t, i, e)
BY DEF IsExt

\* Extensions() has each extension of the list in its three fields.
LEMMA ExtensionsMade ==
  ASSUME NEW list \in Seq(Exts)
  PROVE  IsExtensions(Extensions(list), list)
<1> DEFINE f == JoinedTo(list)
           Upto(n) == /\ Len(f[n]) = 3 * n
                      /\ \A i \in 1 .. n : IsExt(f[n], 3 * (i - 1), list[i])
           P == {n \in Nat : n <= Len(list) => Upto(n)}
<1>1. /\ Len(list) \in Nat /\ f \in [0 .. Len(list) -> Seq(Fields)] /\ f[0] = <<>>
      /\ \A n \in 1 .. Len(list) : f[n] = f[n - 1] \o Ext(list[n]) /\ list[n] \in Exts
  BY SeqParts, JoinedSteps
<1> HIDE DEF f
<1>2. 0 \in P
  BY <1>1, SeqEmpty
<1>3. ASSUME NEW n \in P PROVE n + 1 \in P
  <2>1. SUFFICES ASSUME n + 1 <= Len(list) PROVE Upto(n + 1)
    OBVIOUS
  <2>2. n \in Nat /\ n + 1 \in 1 .. Len(list) /\ (n + 1) - 1 = n /\ n \in 0 .. Len(list)
    BY <2>1, <1>1
  <2>3. Upto(n)
    BY <2>1, <2>2
  <2> HIDE DEF P
  <2> DEFINE s == f[n]
             e == list[n + 1]
             t == s \o Ext(e)
  <2>4. s \in Seq(Fields) /\ e \in Exts /\ f[n + 1] = t /\ Len(s) = 3 * n
    BY <2>2, <2>3, <1>1
  <2>5. \A i \in 1 .. n : IsExt(s, 3 * (i - 1), list[i])
    BY <2>3
  <2> HIDE DEF s
  <2>6. Len(t) = Len(s) + 3 /\ IsExt(t, Len(s), e) /\ \A i \in 1 .. Len(s) : t[i] = s[i]
    <3> HIDE DEF e
    <3> QED BY <2>4, ExtBehind
  <2> HIDE DEF t
  <2>7. ASSUME NEW i \in 1 .. n + 1 PROVE IsExt(t, 3 * (i - 1), list[i])
    <3>1. CASE i = n + 1
      <4>1. 3 * (i - 1) = Len(s)
        BY <3>1, <2>2, <2>4
      <4> QED BY <4>1, <3>1, <2>6
    <3>2. CASE i # n + 1
      <4>1. i \in 1 .. n
        BY <3>2, <2>2
      <4> DEFINE j == 3 * (i - 1)
      <4>2. j + 1 \in 1 .. Len(s) /\ j + 2 \in 1 .. Len(s) /\ j + 3 \in 1 .. Len(s)
        BY <4>1, <2>2, <2>4
      <4>3. IsExt(s, j, list[i])
        BY <4>1, <2>5
      <4> HIDE DEF j
      <4>4. IsExt(t, j, list[i])
        BY <4>2, <4>3, <2>6, IsExtKept
      <4> QED BY <4>4 DEF j
    <3> QED BY <3>1, <3>2
  <2>8. Len(t) = 3 * (n + 1)
    BY <2>4, <2>6, <2>2
  <2> HIDE DEF e
  <2> QED BY <2>4, <2>7, <2>8
<1>4. P = Nat
  <2> HIDE DEF P
  <2>1. P \in SUBSET Nat
    BY DEF P
  <2> QED BY <1>2, <1>3, <2>1, NatSetInduction
<1>5. Upto(Len(list))
  BY <1>1, <1>4
<1>6. f[Len(list)] \in Seq(Fields)
  BY <1>1
<1>7. Extensions(list) = f[Len(list)]
  BY JoinedLast DEF f
<1> QED BY <1>5, <1>6, <1>7 DEF IsExtensions

\* The data of every extension but the padding has a length.
LEMMA DataLenTyped ==
  ASSUME NEW d \in ProfileDefs, NEW x \in ExtNames \ {"padding"}, NEW sni \in Nat
  PROVE  DataLen(d, x, sni) \in Nat
<1>1. /\ d.curves \in Nat /\ d.alpn \in Nat /\ d.versions \in Nat
  BY DEF ProfileDefs
<1>2. x \in {"grease", "ems", "ticket", "sct", "sni", "reneg", "groups", "points", "pskmode", "alpn",
             "status", "sigalgs", "alps", "keyshare", "versions", "ech"}
  BY DEF ExtNames, ExtTypes
<1>3. CASE x \in {"grease", "ems", "ticket", "sct"}
  BY <1>3 DEF DataLen
<1>4. CASE x \in {"sni", "reneg", "groups", "points", "pskmode"}
  BY <1>1, <1>4 DEF DataLen
<1>5. CASE x \in {"alpn", "status", "sigalgs", "alps"}
  BY <1>1, <1>5 DEF DataLen
<1>6. CASE x \in {"keyshare", "versions", "ech"}
  BY <1>1, <1>6 DEF DataLen
<1> QED BY <1>2, <1>3, <1>4, <1>5, <1>6

\* list has the extensions of d in their order.
IsExtList(list, d) ==
  /\ list \in Seq(Exts) /\ Len(list) = Len(d.ext_order)
  /\ \A i \in 1 .. Len(list) : list[i].ext = d.ext_order[i]

\* ExtList() makes such a list.
LEMMA ExtListTyped ==
  ASSUME NEW d \in ProfileDefs, NEW sni \in Nat
  PROVE  IsExtList(ExtList(d, sni), d)
<1> DEFINE o == d.ext_order
           list == ExtList(d, sni)
           D(x) == DataLen(d, x, sni)
<1>1. o \in Seq(ExtNames \ {"padding"})
  BY DEF ProfileDefs
<1>2. list = [i \in DOMAIN o |-> [ext |-> o[i], len |-> D(o[i])]]
  BY DEF ExtList, Extension
<1>3. \A x \in ExtNames \ {"padding"} : D(x) \in Nat
  BY DataLenTyped
<1> HIDE DEF D, o, list
<1>4. DOMAIN o = 1 .. Len(o) /\ Len(o) \in Nat /\ \A i \in DOMAIN o : o[i] \in ExtNames \ {"padding"}
  BY <1>1, SeqParts
<1>5. \A i \in 1 .. Len(o) : list[i] = [ext |-> o[i], len |-> D(o[i])]
  BY <1>2, <1>4
<1>6. ASSUME NEW i \in 1 .. Len(o) PROVE list[i] \in Exts /\ list[i].ext = o[i]
  <2>1. o[i] \in ExtNames \ {"padding"}
    BY <1>4
  <2>2. o[i] \in ExtNames /\ D(o[i]) \in Nat
    BY <2>1, <1>3
  <2>3. list[i] = [ext |-> o[i], len |-> D(o[i])]
    BY <1>5
  <2> QED BY <2>2, <2>3 DEF Exts
<1>7. list \in [1 .. Len(o) -> Exts]
  BY <1>2, <1>4, <1>6
<1>8. list \in Seq(Exts) /\ Len(list) = Len(o)
  BY <1>4, <1>7, SeqMade
<1> QED BY <1>6, <1>8 DEF IsExtList, o, list

-----------------------------------------------------------------------------
(* The hello that is built. *)

\* b is k fields, and then x.
IsTail(b, k, x) == k + Len(x) = Len(b) /\ \A i \in 1 .. Len(x) : b[k + i] = x[i]
\* b begins with h.
IsHead(b, h) == \A i \in 1 .. Len(h) : b[i] = h[i]

\* Two sequences of fields one behind the other.
LEMMA HeadTail ==
  ASSUME NEW h \in Seq(Fields), NEW x \in Seq(Fields)
  PROVE  h \o x \in Seq(Fields) /\ IsHead(h \o x, h) /\ IsTail(h \o x, Len(h), x)
BY JoinedBoth DEF IsHead, IsTail

\* A sequence with x at its end is as long as what stands before and x.
LEMMA TailSize ==
  ASSUME NEW b \in Seq(Fields), NEW x \in Seq(Fields), NEW k \in Nat, IsTail(b, k, x)
  PROVE  /\ Size(b) = Ends(b)[k] + Size(x) /\ Size(x) \in Nat
         /\ \A j \in 0 .. Len(x) : Ends(b)[k + j] = Ends(b)[k] + Ends(x)[j]
<1>1. Len(x) \in Nat /\ k + Len(x) <= Len(b) /\ k + Len(x) = Len(b)
  BY SeqParts DEF IsTail
<1>2. \A i \in 1 .. Len(x) : b[k + i] = x[i]
  BY DEF IsTail
<1>3. \A j \in 0 .. Len(x) : Ends(b)[k + j] = Ends(b)[k] + Ends(x)[j]
  BY <1>1, <1>2, EndsBehind
<1>4. Len(x) \in 0 .. Len(x)
  BY <1>1
<1>5. Ends(b)[k + Len(x)] = Ends(b)[k] + Ends(x)[Len(x)]
  BY <1>3, <1>4
<1>6. Ends(x)[Len(x)] \in Nat
  BY <1>4, EndsSteps
<1> QED BY <1>1, <1>3, <1>5, <1>6 DEF Size

\* A field ends its length behind its predecessor.
LEMMA EndsNext ==
  ASSUME NEW s \in Seq(Fields), NEW i \in 1 .. Len(s), NEW h \in Nat, h = i - 1, NEW l, s[i][1] = l
  PROVE  Ends(s)[i] = Ends(s)[h] + l
BY EndsSteps

\* What Body() has before the extensions: S bytes of session id, C of cipher suites, X of
\* extensions.
BodyHead(S, C, X) ==
  <<<<2, 771>>, <<32, 0>>, <<1, S>>, <<S, 0>>, <<2, C>>, <<C, 0>>, <<1, 1>>, <<1, 0>>, <<2, X>>>>

\* These are the first fields of h.
IsBodyHead(h, S, C, X) ==
  /\ h[1] = <<2, 771>> /\ h[2] = <<32, 0>> /\ h[3] = <<1, S>> /\ h[4] = <<S, 0>>
  /\ h[5] = <<2, C>> /\ h[6] = <<C, 0>> /\ h[7] = <<1, 1>> /\ h[8] = <<1, 0>> /\ h[9] = <<2, X>>

\* They are fields.
LEMMA BodyHeadMade ==
  ASSUME NEW S \in Nat, NEW C \in Nat, NEW X \in Nat
  PROVE  /\ BodyHead(S, C, X) \in Seq(Fields) /\ Len(BodyHead(S, C, X)) = 9
         /\ IsBodyHead(BodyHead(S, C, X), S, C, X)
<1>1. <<S, 0>> \in Fields /\ <<C, 0>> \in Fields /\ <<1, S>> \in Fields /\ <<2, C>> \in Fields
  BY DEF Fields
<1>2. <<2, 771>> \in Fields /\ <<32, 0>> \in Fields /\ <<1, 1>> \in Fields
  BY DEF Fields
<1>3. <<1, 0>> \in Fields /\ <<2, X>> \in Fields
  BY DEF Fields
<1>4. BodyHead(S, C, X) \in Seq(Fields)
  BY <1>1, <1>2, <1>3 DEF BodyHead
<1>5. Len(BodyHead(S, C, X)) = 9
  BY DEF BodyHead
<1>6. IsBodyHead(BodyHead(S, C, X), S, C, X)
  BY DEF IsBodyHead, BodyHead
<1> QED BY <1>4, <1>5, <1>6

\* What TlsRecord() has before a body of B bytes.
RecordHead(B) == <<<<1, 22>>, <<2, 769>>, <<2, 4 + B>>, <<1, 1>>, <<3, B>>>>
\* These are the first fields of h.
IsRecordHead(h, B) ==
  h[1] = <<1, 22>> /\ h[2] = <<2, 769>> /\ h[3] = <<2, 4 + B>> /\ h[4] = <<1, 1>> /\ h[5] = <<3, B>>

\* They are fields.
LEMMA RecordHeadMade ==
  ASSUME NEW B \in Nat
  PROVE  /\ RecordHead(B) \in Seq(Fields) /\ Len(RecordHead(B)) = 5 /\ IsRecordHead(RecordHead(B), B)
<1>1. /\ <<1, 22>> \in Fields /\ <<2, 769>> \in Fields /\ <<2, 4 + B>> \in Fields /\ <<1, 1>> \in Fields
      /\ <<3, B>> \in Fields
  BY DEF Fields
<1>2. RecordHead(B) \in Seq(Fields)
  BY <1>1 DEF RecordHead
<1>3. Len(RecordHead(B)) = 5 /\ IsRecordHead(RecordHead(B), B)
  BY DEF RecordHead, IsRecordHead
<1> QED BY <1>2, <1>3

\* The bytes before the extensions of a body.
LEMMA BodyEnd ==
  ASSUME NEW b \in Seq(Fields), NEW S \in Nat, NEW C \in Nat, NEW X \in Nat,
         IsBodyHead(b, S, C, X), Len(b) >= 9
  PROVE  Ends(b)[9] = 41 + S + C
<1> DEFINE e == Ends(b)
<1>1. \A i \in 1 .. 9 : i \in 1 .. Len(b)
  BY SeqParts
<1>2. /\ b[1][1] = 2 /\ b[2][1] = 32 /\ b[3][1] = 1 /\ b[4][1] = S /\ b[5][1] = 2 /\ b[6][1] = C
      /\ b[7][1] = 1 /\ b[8][1] = 1 /\ b[9][1] = 2
  BY DEF IsBodyHead
<1>3. e[0] = 0
  BY EndsSteps
<1>4. e[1] = e[0] + 2 /\ e[2] = e[1] + 32 /\ e[3] = e[2] + 1
  <2>1. Ends(b)[1] = Ends(b)[0] + 2
    <3>1. 1 \in 1 .. Len(b) /\ 0 = 1 - 1 /\ 0 \in Nat
      BY <1>1
    <3> QED BY <1>2, <3>1, EndsNext, SMTT(30)
  <2>2. Ends(b)[2] = Ends(b)[1] + 32
    <3>1. 2 \in 1 .. Len(b) /\ 1 = 2 - 1 /\ 1 \in Nat
      BY <1>1
    <3> QED BY <1>2, <3>1, EndsNext, SMTT(30)
  <2>3. Ends(b)[3] = Ends(b)[2] + 1
    <3>1. 3 \in 1 .. Len(b) /\ 2 = 3 - 1 /\ 2 \in Nat
      BY <1>1
    <3> QED BY <1>2, <3>1, EndsNext, SMTT(30)
  <2> QED BY <2>1, <2>2, <2>3
<1>5. e[4] = e[3] + S /\ e[5] = e[4] + 2 /\ e[6] = e[5] + C
  <2>1. Ends(b)[4] = Ends(b)[3] + S
    <3>1. 4 \in 1 .. Len(b) /\ 3 = 4 - 1 /\ 3 \in Nat
      BY <1>1
    <3> QED BY <1>2, <3>1, EndsNext, SMTT(30)
  <2>2. Ends(b)[5] = Ends(b)[4] + 2
    <3>1. 5 \in 1 .. Len(b) /\ 4 = 5 - 1 /\ 4 \in Nat
      BY <1>1
    <3> QED BY <1>2, <3>1, EndsNext, SMTT(30)
  <2>3. Ends(b)[6] = Ends(b)[5] + C
    <3>1. 6 \in 1 .. Len(b) /\ 5 = 6 - 1 /\ 5 \in Nat
      BY <1>1
    <3> QED BY <1>2, <3>1, EndsNext, SMTT(30)
  <2> QED BY <2>1, <2>2, <2>3
<1>6. e[7] = e[6] + 1 /\ e[8] = e[7] + 1 /\ e[9] = e[8] + 2
  <2>1. Ends(b)[7] = Ends(b)[6] + 1
    <3>1. 7 \in 1 .. Len(b) /\ 6 = 7 - 1 /\ 6 \in Nat
      BY <1>1
    <3> QED BY <1>2, <3>1, EndsNext, SMTT(30)
  <2>2. Ends(b)[8] = Ends(b)[7] + 1
    <3>1. 8 \in 1 .. Len(b) /\ 7 = 8 - 1 /\ 7 \in Nat
      BY <1>1
    <3> QED BY <1>2, <3>1, EndsNext, SMTT(30)
  <2>3. Ends(b)[9] = Ends(b)[8] + 2
    <3>1. 9 \in 1 .. Len(b) /\ 8 = 9 - 1 /\ 8 \in Nat
      BY <1>1
    <3> QED BY <1>2, <3>1, EndsNext, SMTT(30)
  <2> QED BY <2>1, <2>2, <2>3
<1> HIDE DEF e
<1> QED BY <1>3, <1>4, <1>5, <1>6 DEF e

\* Body() is such a head with the extensions behind it.
LEMMA BodyMade ==
  ASSUME NEW d \in ProfileDefs, NEW x \in Seq(Fields), NEW S, S = d.session_len, NEW C, C = 2 * d.ciphers
  PROVE  /\ Body(d, x) \in Seq(Fields) /\ IsBodyHead(Body(d, x), S, C, Size(x))
         /\ IsTail(Body(d, x), 9, x) /\ Size(Body(d, x)) = 41 + S + C + Size(x)
<1> DEFINE X == Size(x)
           h == BodyHead(S, C, X)
           b == Body(d, x)
<1>1. S \in Nat /\ C \in Nat
  BY DEF ProfileDefs
<1>2. X \in Nat
  <2>1. Len(x) \in Nat
    BY SeqParts
  <2>2. Ends(x) \in [0 .. Len(x) -> Nat]
    BY EndsSteps
  <2> QED BY <2>1, <2>2 DEF Size
<1>3. b = h \o x
  BY DEF Body, BodyHead
<1> HIDE DEF X
<1>4. h \in Seq(Fields) /\ Len(h) = 9 /\ IsBodyHead(h, S, C, X)
  BY <1>1, <1>2, BodyHeadMade
<1> HIDE DEF h, b
<1>5. h \o x \in Seq(Fields) /\ IsHead(h \o x, h) /\ IsTail(h \o x, Len(h), x)
  <2>1. h \in Seq(Fields)
    BY <1>4
  <2> QED BY <2>1, HeadTail
<1>6. b \in Seq(Fields) /\ IsHead(b, h) /\ IsTail(b, 9, x)
  BY <1>3, <1>4, <1>5
<1>7. \A i \in 1 .. 9 : b[i] = h[i]
  BY <1>4, <1>6 DEF IsHead
<1>8. IsBodyHead(b, S, C, X)
  BY <1>4, <1>7 DEF IsBodyHead
<1>9. Len(b) >= 9
  <2>1. Len(x) \in Nat
    BY SeqParts
  <2> QED BY <2>1, <1>6 DEF IsTail
<1>10. Ends(b)[9] = 41 + S + C
  BY <1>1, <1>2, <1>6, <1>8, <1>9, BodyEnd
<1>11. Size(b) = Ends(b)[9] + Size(x)
  BY <1>6, TailSize
<1> QED BY <1>6, <1>8, <1>10, <1>11 DEF X, b

\* Where the fields of a hello begin; the extensions from byte 50 + S + C on.
Starts(e, S, C) ==
  /\ e[0] = 0 /\ e[1] = 1 /\ e[2] = 3 /\ e[3] = 5 /\ e[4] = 6 /\ e[5] = 9
  /\ e[7] = 43 /\ e[8] = 44 /\ e[9] = 44 + S /\ e[10] = 46 + S /\ e[11] = 46 + S + C
  /\ e[12] = 47 + S + C /\ e[13] = 48 + S + C /\ e[14] = 50 + S + C

\* The fields of a hello with extensions x.
IsHello(t, S, C, x) ==
  /\ t \in Seq(Fields) /\ IsTail(t, 14, x) /\ IsRecordHead(t, 41 + S + C + Size(x))
  /\ t[8] = <<1, S>> /\ t[9] = <<S, 0>> /\ t[10] = <<2, C>> /\ t[11] = <<C, 0>>
  /\ t[12] = <<1, 1>> /\ t[13] = <<1, 0>> /\ t[14] = <<2, Size(x)>>

\* The lengths of its first fields.
Widths(t, S, C) ==
  /\ t[1][1] = 1 /\ t[2][1] = 2 /\ t[3][1] = 2 /\ t[4][1] = 1 /\ t[5][1] = 3
  /\ t[6][1] = 2 /\ t[7][1] = 32 /\ t[8][1] = 1 /\ t[9][1] = S /\ t[10][1] = 2
  /\ t[11][1] = C /\ t[12][1] = 1 /\ t[13][1] = 1 /\ t[14][1] = 2

\* So they begin where Starts() says.
LEMMA RecordEnds ==
  ASSUME NEW t \in Seq(Fields), NEW S \in Nat, NEW C \in Nat, Len(t) >= 14, Widths(t, S, C)
  PROVE  Starts(Ends(t), S, C)
<1> DEFINE e == Ends(t)
<1>1. \A i \in 1 .. 14 : i \in 1 .. Len(t)
  BY SeqParts
<1>2. e[0] = 0
  BY EndsSteps
<1>3. e[1] = e[0] + 1
  <2>1. 1 \in 1 .. Len(t) /\ 0 = 1 - 1 /\ 0 \in Nat
    BY <1>1
  <2>2. t[1][1] = 1
    BY DEF Widths
  <2> QED BY <2>1, <2>2, EndsNext
<1>4. e[2] = e[1] + 2
  <2>1. 2 \in 1 .. Len(t) /\ 1 = 2 - 1 /\ 1 \in Nat
    BY <1>1
  <2>2. t[2][1] = 2
    BY DEF Widths
  <2> QED BY <2>1, <2>2, EndsNext
<1>5. e[3] = e[2] + 2
  <2>1. 3 \in 1 .. Len(t) /\ 2 = 3 - 1 /\ 2 \in Nat
    BY <1>1
  <2>2. t[3][1] = 2
    BY DEF Widths
  <2> QED BY <2>1, <2>2, EndsNext
<1>6. e[4] = e[3] + 1
  <2>1. 4 \in 1 .. Len(t) /\ 3 = 4 - 1 /\ 3 \in Nat
    BY <1>1
  <2>2. t[4][1] = 1
    BY DEF Widths
  <2> QED BY <2>1, <2>2, EndsNext
<1>7. e[5] = e[4] + 3
  <2>1. 5 \in 1 .. Len(t) /\ 4 = 5 - 1 /\ 4 \in Nat
    BY <1>1
  <2>2. t[5][1] = 3
    BY DEF Widths
  <2> QED BY <2>1, <2>2, EndsNext
<1>8. e[6] = e[5] + 2
  <2>1. 6 \in 1 .. Len(t) /\ 5 = 6 - 1 /\ 5 \in Nat
    BY <1>1
  <2>2. t[6][1] = 2
    BY DEF Widths
  <2> QED BY <2>1, <2>2, EndsNext
<1>9. e[7] = e[6] + 32
  <2>1. 7 \in 1 .. Len(t) /\ 6 = 7 - 1 /\ 6 \in Nat
    BY <1>1
  <2>2. t[7][1] = 32
    BY DEF Widths
  <2> QED BY <2>1, <2>2, EndsNext
<1>10. e[8] = e[7] + 1
  <2>1. 8 \in 1 .. Len(t) /\ 7 = 8 - 1 /\ 7 \in Nat
    BY <1>1
  <2>2. t[8][1] = 1
    BY DEF Widths
  <2> QED BY <2>1, <2>2, EndsNext
<1>11. e[9] = e[8] + S
  <2>1. 9 \in 1 .. Len(t) /\ 8 = 9 - 1 /\ 8 \in Nat
    BY <1>1
  <2>2. t[9][1] = S
    BY DEF Widths
  <2> QED BY <2>1, <2>2, EndsNext
<1>12. e[10] = e[9] + 2
  <2>1. 10 \in 1 .. Len(t) /\ 9 = 10 - 1 /\ 9 \in Nat
    BY <1>1
  <2>2. t[10][1] = 2
    BY DEF Widths
  <2> QED BY <2>1, <2>2, EndsNext
<1>13. e[11] = e[10] + C
  <2>1. 11 \in 1 .. Len(t) /\ 10 = 11 - 1 /\ 10 \in Nat
    BY <1>1
  <2>2. t[11][1] = C
    BY DEF Widths
  <2> QED BY <2>1, <2>2, EndsNext
<1>14. e[12] = e[11] + 1
  <2>1. 12 \in 1 .. Len(t) /\ 11 = 12 - 1 /\ 11 \in Nat
    BY <1>1
  <2>2. t[12][1] = 1
    BY DEF Widths
  <2> QED BY <2>1, <2>2, EndsNext
<1>15. e[13] = e[12] + 1
  <2>1. 13 \in 1 .. Len(t) /\ 12 = 13 - 1 /\ 12 \in Nat
    BY <1>1
  <2>2. t[13][1] = 1
    BY DEF Widths
  <2> QED BY <2>1, <2>2, EndsNext
<1>16. e[14] = e[13] + 2
  <2>1. 14 \in 1 .. Len(t) /\ 13 = 14 - 1 /\ 13 \in Nat
    BY <1>1
  <2>2. t[14][1] = 2
    BY DEF Widths
  <2> QED BY <2>1, <2>2, EndsNext
<1> HIDE DEF e
<1>17. e[1] = 1 /\ e[2] = 3 /\ e[3] = 5 /\ e[4] = 6 /\ e[5] = 9
  BY <1>2, <1>3, <1>4, <1>5, <1>6, <1>7
<1>18. e[7] = 43 /\ e[8] = 44 /\ e[9] = 44 + S
  BY <1>17, <1>8, <1>9, <1>10, <1>11
<1>19. e[10] = 46 + S /\ e[11] = 46 + S + C /\ e[12] = 47 + S + C
  BY <1>18, <1>12, <1>13, <1>14
<1>20. e[13] = 48 + S + C /\ e[14] = 50 + S + C
  BY <1>19, <1>15, <1>16
<1>21. Starts(e, S, C)
  BY <1>2, <1>17, <1>18, <1>19, <1>20 DEF Starts
<1> QED BY <1>21 DEF e

\* The record around such a body is a hello.
LEMMA RecordMade ==
  ASSUME NEW b \in Seq(Fields), NEW x \in Seq(Fields), NEW S \in Nat, NEW C \in Nat, NEW X \in Nat, X = Size(x),
         IsBodyHead(b, S, C, X), IsTail(b, 9, x), Size(b) = 41 + S + C + X
  PROVE  /\ IsHello(TlsRecord(b), S, C, x) /\ Starts(Ends(TlsRecord(b)), S, C)
         /\ Size(TlsRecord(b)) = 50 + S + C + X
<1> DEFINE B == Size(b)
           h == RecordHead(B)
           t == TlsRecord(b)
           e == Ends(t)
<1>1. B \in Nat /\ B = 41 + S + C + X
  OBVIOUS
<1>2. t = h \o b
  BY DEF TlsRecord, RecordHead
<1> HIDE DEF B
<1>3. h \in Seq(Fields) /\ Len(h) = 5 /\ IsRecordHead(h, B)
  BY <1>1, RecordHeadMade
<1> HIDE DEF h, t
<1>4. h \o b \in Seq(Fields) /\ IsHead(h \o b, h) /\ IsTail(h \o b, Len(h), b)
  <2>1. h \in Seq(Fields)
    BY <1>3
  <2> QED BY <2>1, HeadTail
<1>5. t \in Seq(Fields) /\ IsHead(t, h) /\ IsTail(t, 5, b)
  BY <1>2, <1>3, <1>4
<1>6. \A i \in 1 .. 5 : t[i] = h[i]
  BY <1>3, <1>5 DEF IsHead
<1>7. IsRecordHead(t, B)
  BY <1>3, <1>6 DEF IsRecordHead
<1>8. Len(x) \in Nat /\ Len(b) = 9 + Len(x) /\ Len(t) = 14 + Len(x)
  <2>1. Len(x) \in Nat
    BY SeqParts
  <2>2. 9 + Len(x) = Len(b)
    BY DEF IsTail
  <2>3. 5 + Len(b) = Len(t)
    BY <1>5 DEF IsTail
  <2> QED BY <2>1, <2>2, <2>3
<1>9. \A i \in 1 .. Len(b) : t[5 + i] = b[i]
  BY <1>5 DEF IsTail
<1>10. ASSUME NEW i \in 1 .. Len(x) PROVE t[14 + i] = x[i]
  <2>1. 9 + i \in 1 .. Len(b) /\ 5 + (9 + i) = 14 + i
    BY <1>8
  <2>2. t[5 + (9 + i)] = b[9 + i]
    BY <1>9, <2>1
  <2>3. b[9 + i] = x[i]
    BY DEF IsTail
  <2> QED BY <2>1, <2>2, <2>3
<1>11. IsTail(t, 14, x)
  BY <1>8, <1>10 DEF IsTail
<1>12. \A i \in 1 .. 9 : t[5 + i] = b[i]
  <2>1. \A i \in 1 .. 9 : i \in 1 .. Len(b)
    BY <1>8
  <2> QED BY <1>9, <2>1
<1>13. /\ t[8] = <<1, S>> /\ t[9] = <<S, 0>> /\ t[10] = <<2, C>> /\ t[11] = <<C, 0>>
       /\ t[12] = <<1, 1>> /\ t[13] = <<1, 0>> /\ t[14] = <<2, X>>
  <2>1. t[5 + 3] = b[3] /\ t[5 + 4] = b[4] /\ t[5 + 5] = b[5] /\ t[5 + 6] = b[6]
    BY <1>12
  <2>2. t[5 + 7] = b[7] /\ t[5 + 8] = b[8] /\ t[5 + 9] = b[9]
    BY <1>12
  <2>3. t[8] = b[3] /\ t[9] = b[4] /\ t[10] = b[5] /\ t[11] = b[6]
    BY <2>1
  <2>4. t[12] = b[7] /\ t[13] = b[8] /\ t[14] = b[9]
    BY <2>2
  <2> QED BY <2>3, <2>4 DEF IsBodyHead
<1>14. IsHello(t, S, C, x)
  BY <1>1, <1>5, <1>7, <1>11, <1>13 DEF IsHello
<1>15. t[6][1] = 2 /\ t[7][1] = 32
  <2>1. t[5 + 1] = b[1] /\ t[5 + 2] = b[2]
    BY <1>12
  <2>2. t[6] = b[1] /\ t[7] = b[2]
    BY <2>1
  <2> QED BY <2>2 DEF IsBodyHead
<1>16. \A i \in 1 .. 14 : i \in 1 .. Len(t)
  BY <1>8
<1>17. t[1][1] = 1 /\ t[2][1] = 2 /\ t[3][1] = 2 /\ t[4][1] = 1 /\ t[5][1] = 3
  BY <1>7 DEF IsRecordHead
<1>18. /\ t[8][1] = 1 /\ t[9][1] = S /\ t[10][1] = 2 /\ t[11][1] = C
       /\ t[12][1] = 1 /\ t[13][1] = 1 /\ t[14][1] = 2
  BY <1>13
<1>19. Widths(t, S, C)
  BY <1>15, <1>17, <1>18 DEF Widths
<1>39. Starts(e, S, C)
  <2>1. t \in Seq(Fields) /\ Len(t) >= 14
    BY <1>5, <1>8
  <2> QED BY <1>19, <2>1, RecordEnds
<1>40. Size(t) = 50 + S + C + X
  <2>1. Size(t) = Ends(t)[14] + Size(x)
    BY <1>5, <1>11, TailSize
  <2> QED BY <2>1, <1>39 DEF Starts, e
<1> QED BY <1>14, <1>39, <1>40 DEF t, e

-----------------------------------------------------------------------------
(* The hello that is read. *)

\* What is read is a number.
LEMMA FieldAtInt ==
  ASSUME NEW s \in Seq(Fields), NEW pos, NEW k
  PROVE  FieldAt(s, pos, k) \in Int
<1>1. CASE \E i \in DOMAIN s : Begins(s, i, pos, k)
  <2> DEFINE c == CHOOSE i \in DOMAIN s : Begins(s, i, pos, k)
  <2>1. c \in DOMAIN s
    BY <1>1
  <2>2. FieldAt(s, pos, k) = s[c][2]
    BY <1>1 DEF FieldAt
  <2> HIDE DEF c
  <2>3. s[c][2] \in Int
    BY <2>1, SeqParts, FieldParts
  <2> QED BY <2>2, <2>3
<1>2. CASE ~ \E i \in DOMAIN s : Begins(s, i, pos, k)
  BY <1>2 DEF FieldAt
<1> QED BY <1>1, <1>2

\* A turn of the loop in TypesFrom().
Turn(data, end, w) ==
  IF w.pos + 4 > end THEN w
  ELSE [pos |-> w.pos + 4 + FieldAt(data, w.pos + 2, 2), out |-> Append(w.out, FieldAt(data, w.pos, 2))]

\* Its recursion.
Walk(data, pos, end) ==
  LET walk[n \in 0 .. Len(data) \div 3] ==
        IF n = 0 THEN [pos |-> pos, out |-> <<>>] ELSE Turn(data, end, walk[n - 1])
  IN  walk

\* What the loop returns.
LEMMA WalkLast ==
  ASSUME NEW data, NEW pos, NEW end
  PROVE  TypesFrom(data, pos, end) = Walk(data, pos, end)[Len(data) \div 3].out
BY DEF TypesFrom, Walk, Turn

\* What the loop keeps: the place and the types so far.
Walks == [pos : Int, out : Seq(Int)]

\* A turn keeps it such.
LEMMA TurnTyped ==
  ASSUME NEW data \in Seq(Fields), NEW end \in Int, NEW w \in Walks
  PROVE  Turn(data, end, w) \in Walks
<1>1. w.pos \in Int /\ w.out \in Seq(Int)
  BY DEF Walks
<1> DEFINE a == FieldAt(data, w.pos + 2, 2)
           b == FieldAt(data, w.pos, 2)
<1>2. a \in Int /\ b \in Int
  BY FieldAtInt
<1>3. Turn(data, end, w) = IF w.pos + 4 > end THEN w ELSE [pos |-> w.pos + 4 + a, out |-> Append(w.out, b)]
  BY DEF Turn
<1> HIDE DEF a, b
<1>4. Append(w.out, b) \in Seq(Int) /\ w.pos + 4 + a \in Int
  BY <1>1, <1>2
<1>5. [pos |-> w.pos + 4 + a, out |-> Append(w.out, b)] \in Walks
  BY <1>4 DEF Walks
<1> QED BY <1>3, <1>5

\* Division by three.
LEMMA Thirds ==
  ASSUME NEW n \in Nat
  PROVE  n \div 3 \in Nat /\ 3 * (n \div 3) <= n /\ n < 3 * (n \div 3) + 3
OBVIOUS

\* f goes through the turns one by one.
IsWalk(f, data, pos, end, N) ==
  /\ f \in [0 .. N -> Walks] /\ f[0] = [pos |-> pos, out |-> <<>>]
  /\ \A n \in 1 .. N : f[n] = Turn(data, end, f[n - 1])

\* The values of the recursion in TypesFrom().
LEMMA WalkSteps ==
  ASSUME NEW data \in Seq(Fields), NEW pos \in Int, NEW end \in Int, NEW N \in Nat, N = Len(data) \div 3
  PROVE  IsWalk(Walk(data, pos, end), data, pos, end, N)
<1> DEFINE S == Walks
           start == [pos |-> pos, out |-> <<>>]
           T(w) == Turn(data, end, w)
           step == [p \in (1 .. N) \X S |-> T(p[2])]
           body(f) == [n \in 0 .. N |-> IF n = 0 THEN start ELSE T(f[n - 1])]
<1>1. start \in S
  BY SeqEmpty DEF Walks
<1>2. \A v \in S : T(v) \in S
  BY TurnTyped
<1> DEFINE k == CHOOSE h : h = body(h)
<1>9. Walk(data, pos, end) = k
  BY DEF Walk
<1> HIDE DEF S, T, start
<1>3. step \in [(1 .. N) \X S -> S]
  BY <1>2
<1>4. PICK f : FollowsTo(f, S, start, N, step)
  <2> HIDE DEF step
  <2> QED BY <1>1, <1>3, RecUpTo
<1>5. \A n \in 1 .. N, v \in S : step[<<n, v>>] = T(v)
  OBVIOUS
<1>6. \A n \in 1 .. N : f[n] = T(f[n - 1])
  <2>1. \A n \in 1 .. N : n - 1 \in 0 .. N
    OBVIOUS
  <2> HIDE DEF step
  <2> QED BY <1>4, <1>5, <2>1 DEF FollowsTo
<1>7. f = body(f)
  <2> HIDE DEF step
  <2>1. f = [n \in 0 .. N |-> f[n]]
    BY <1>4 DEF FollowsTo
  <2>2. \A n \in 0 .. N : f[n] = body(f)[n]
    BY <1>4, <1>6 DEF FollowsTo
  <2>3. body(f) = [n \in 0 .. N |-> body(f)[n]]
    OBVIOUS
  <2> HIDE DEF body
  <2> QED BY <2>1, <2>2, <2>3, ExtFun
<1>8. k = body(k)
  <2> HIDE DEF body
  <2> QED BY <1>7
<1> HIDE DEF k
<1>10. k = [n \in 0 .. N |-> k[n]] /\ k[0] = start /\ \A n \in 1 .. N : k[n] = T(k[n - 1])
  <2> HIDE DEF step
  <2>1. body(k) = [n \in 0 .. N |-> body(k)[n]]
    OBVIOUS
  <2>2. 0 \in 0 .. N /\ \A n \in 1 .. N : n \in 0 .. N /\ n # 0
    OBVIOUS
  <2>3. body(k)[0] = start /\ \A n \in 1 .. N : body(k)[n] = T(k[n - 1])
    BY <2>2
  <2> HIDE DEF body
  <2> QED BY <1>8, <2>1, <2>3
<1>11. \A n \in 1 .. N : k[n - 1] \in S => k[n] = step[<<n, k[n - 1]>>]
  <2> HIDE DEF step
  <2> QED BY <1>5, <1>10
<1>12. FollowsTo(k, S, start, N, step)
  <2> HIDE DEF step, body
  <2> QED BY <1>1, <1>3, <1>10, <1>11, RecTyped
<1>13. k \in [0 .. N -> S]
  <2> HIDE DEF step
  <2> QED BY <1>12 DEF FollowsTo
<1> QED BY <1>9, <1>10, <1>13 DEF S, T, start, IsWalk

\* At the place of an extension its type and its length are read, and the next place is
\* where it ends.
LEMMA ExtRead ==
  ASSUME NEW t \in Seq(Fields), NEW e \in Exts, NEW j \in Nat, j + 3 <= Len(t), IsExt(t, j, e),
         NEW p, Ends(t)[j] = p
  PROVE  /\ FieldAt(t, p, 2) = ExtTypes[e.ext] /\ FieldAt(t, p + 2, 2) = e.len
         /\ Ends(t)[j + 3] = (p + 4) + e.len /\ p \in Nat /\ e.len \in Nat
<1>1. t[j + 1] = <<2, ExtTypes[e.ext]>> /\ t[j + 2] = <<2, e.len>> /\ t[j + 3] = <<e.len, 0>>
  BY DEF IsExt
<1>2. /\ j + 1 \in 1 .. Len(t) /\ j + 2 \in 1 .. Len(t) /\ j + 3 \in 1 .. Len(t) /\ j \in 0 .. Len(t)
      /\ (j + 1) - 1 = j /\ (j + 2) - 1 = j + 1 /\ (j + 3) - 1 = j + 2
  BY SeqParts
<1>3. p \in Nat /\ e.len \in Nat
  <2>1. Ends(t) \in [0 .. Len(t) -> Nat]
    BY EndsSteps
  <2>2. e.len \in Nat
    BY DEF Exts
  <2> QED BY <2>1, <2>2, <1>2
<1>4. t[j + 1][1] = 2 /\ t[j + 2][1] = 2 /\ t[j + 3][1] = e.len
  BY <1>1
<1>5. t[j + 1][2] = ExtTypes[e.ext] /\ t[j + 2][2] = e.len
  BY <1>1
<1>6. Ends(t)[j + 1] = p + 2
  <2>1. j + 1 \in 1 .. Len(t) /\ j = (j + 1) - 1 /\ t[j + 1][1] = 2
    BY <1>2, <1>4
  <2>2. Ends(t)[j + 1] = Ends(t)[j] + 2
    BY <2>1, EndsNext
  <2> QED BY <2>2
<1>7. Ends(t)[j + 2] = p + 4
  <2>1. j + 2 \in 1 .. Len(t) /\ j + 1 = (j + 2) - 1 /\ t[j + 2][1] = 2 /\ j + 1 \in Nat
    BY <1>2, <1>4
  <2>2. Ends(t)[j + 2] = Ends(t)[j + 1] + 2
    BY <2>1, EndsNext
  <2> QED BY <2>2, <1>6, <1>3
<1>8. Ends(t)[j + 3] = (p + 4) + e.len
  <2>1. j + 3 \in 1 .. Len(t) /\ j + 2 = (j + 3) - 1 /\ t[j + 3][1] = e.len /\ j + 2 \in Nat
    BY <1>2, <1>4
  <2>2. Ends(t)[j + 3] = Ends(t)[j + 2] + e.len
    BY <2>1, EndsNext
  <2> QED BY <2>2, <1>7
<1>9. FieldAt(t, p, 2) = ExtTypes[e.ext]
  <2>1. j + 1 \in 1 .. Len(t) /\ Ends(t)[(j + 1) - 1] = p /\ t[j + 1][1] = 2 /\ 2 \in Nat \ {0}
    BY <1>2, <1>4
  <2>2. FieldAt(t, p, 2) = t[j + 1][2]
    BY <2>1, FieldThere
  <2> QED BY <2>2, <1>5
<1>10. FieldAt(t, p + 2, 2) = e.len
  <2>1. j + 2 \in 1 .. Len(t) /\ Ends(t)[(j + 2) - 1] = p + 2 /\ t[j + 2][1] = 2 /\ 2 \in Nat \ {0}
    BY <1>2, <1>4, <1>6
  <2>2. FieldAt(t, p + 2, 2) = t[j + 2][2]
    BY <2>1, FieldThere
  <2> QED BY <2>2, <1>5
<1> QED BY <1>3, <1>8, <1>9, <1>10

\* The extensions of list stand in t behind field b.
HasExts(t, b, list) == \A i \in 1 .. Len(list) : IsExt(t, b + 3 * (i - 1), list[i])

\* Their types.
TypesOf(list) == [i \in 1 .. Len(list) |-> ExtTypes[list[i].ext]]

\* The loop is at p and has read the first n types.
ReadUpto(w, n, p, list) ==
  w.pos = p /\ w.out \in Seq(Int) /\ Len(w.out) = n /\ \A i \in 1 .. n : w.out[i] = ExtTypes[list[i].ext]

\* One turn reads one more.
LEMMA ReadOne ==
  ASSUME NEW w, NEW n \in Nat, NEW p, NEW list, ReadUpto(w, n, p, list),
         NEW v \in Int, v = ExtTypes[list[n + 1].ext],
         NEW u, NEW q, u = [pos |-> q, out |-> Append(w.out, v)]
  PROVE  ReadUpto(u, n + 1, q, list)
<1> DEFINE o == w.out
           r == Append(o, v)
<1>1. o \in Seq(Int) /\ Len(o) = n
  BY DEF ReadUpto
<1>2. \A i \in 1 .. n : o[i] = ExtTypes[list[i].ext]
  BY DEF ReadUpto
<1>3. u.pos = q /\ u.out = r
  OBVIOUS
<1> HIDE DEF o
<1>4. r \in Seq(Int) /\ Len(r) = n + 1 /\ r[n + 1] = v /\ \A i \in 1 .. n : r[i] = o[i]
  BY <1>1
<1> HIDE DEF r
<1>5. ASSUME NEW i \in 1 .. n + 1 PROVE r[i] = ExtTypes[list[i].ext]
  <2>1. CASE i = n + 1
    BY <2>1, <1>4
  <2>2. CASE i # n + 1
    <3>1. i \in 1 .. n
      BY <2>2
    <3> QED BY <3>1, <1>2, <1>4
  <2> QED BY <2>1, <2>2
<1> QED BY <1>3, <1>4, <1>5 DEF ReadUpto

\* The loop reads the types of all extensions that stand at the end, and stops there.
LEMMA WalkRead ==
  ASSUME NEW t \in Seq(Fields), NEW list \in Seq(Exts), NEW b \in Nat, Len(t) = b + 3 * Len(list),
         HasExts(t, b, list)
  PROVE  TypesFrom(t, Ends(t)[b], Size(t)) = TypesOf(list)
<1> DEFINE m == Len(list)
           N == Len(t) \div 3
           end == Size(t)
           f == Walk(t, Ends(t)[b], end)
           q(n) == Ends(t)[b + 3 * n]
           P == {n \in Nat : n <= m => ReadUpto(f[n], n, q(n), list)}
           R == {n \in Nat : m <= n /\ n <= N => f[n] = f[m]}
<1>1. m \in Nat /\ Len(t) \in Nat /\ N \in Nat /\ m <= N
  <2>1. m \in Nat /\ Len(t) \in Nat
    BY SeqParts
  <2>2. N \in Nat /\ Len(t) < 3 * N + 3
    BY <2>1, Thirds
  <2> HIDE DEF N, m
  <2>3. Len(t) = b + 3 * m
    BY DEF m
  <2> QED BY <2>1, <2>2, <2>3
<1>2. /\ \A n \in 0 .. m : b + 3 * n \in 0 .. Len(t)
      /\ \A n \in 0 .. m : q(n) \in Nat
      /\ end \in Nat /\ end = q(m)
  <2>1. Ends(t) \in [0 .. Len(t) -> Nat]
    BY EndsSteps
  <2> HIDE DEF m
  <2>2. \A n \in 0 .. m : b + 3 * n \in 0 .. Len(t)
    BY <1>1 DEF m
  <2>3. \A n \in 0 .. m : q(n) \in Nat
    BY <2>1, <2>2
  <2>4. end = q(m)
    BY DEF Size, m
  <2>5. m \in 0 .. m
    BY <1>1
  <2> QED BY <2>2, <2>3, <2>4, <2>5
<1>3. Ends(t)[b] = q(0)
  OBVIOUS
<1>4. /\ f[0] = [pos |-> q(0), out |-> <<>>]
      /\ \A n \in 1 .. N : f[n] = Turn(t, end, f[n - 1])
  <2>1. q(0) \in Int /\ end \in Int
    BY <1>1, <1>2
  <2> HIDE DEF q, end
  <2> DEFINE s == q(0)
  <2>2. Ends(t)[b] = s /\ s \in Int
    BY <1>3, <2>1
  <2> HIDE DEF s
  <2>3. f = Walk(t, s, end)
    BY <2>2
  <2>5. N \in Nat /\ N = Len(t) \div 3
    BY <1>1
  <2> HIDE DEF N
  <2>4. IsWalk(Walk(t, s, end), t, s, end, N)
    BY <2>1, <2>2, <2>5, WalkSteps
  <2>6. IsWalk(f, t, s, end, N)
    BY <2>3, <2>4
  <2> HIDE DEF f
  <2> QED BY <2>6 DEF s, IsWalk
<1>5. \A n \in 1 .. m : IsExt(t, b + 3 * (n - 1), list[n]) /\ list[n] \in Exts
  BY SeqParts DEF HasExts
<1> HIDE DEF f, end, N
<1>6. ASSUME NEW n \in Nat, n + 1 <= m
      PROVE  /\ q(n) + 4 <= end /\ FieldAt(t, q(n), 2) = ExtTypes[list[n + 1].ext]
             /\ q(n + 1) = q(n) + 4 + FieldAt(t, q(n) + 2, 2)
  <2> DEFINE e == list[n + 1]
             j == b + 3 * n
             p == q(n)
  <2>1. /\ n + 1 \in 1 .. m /\ (n + 1) - 1 = n /\ j + 3 <= Len(t) /\ j + 3 = b + 3 * (n + 1)
        /\ j \in Nat /\ n \in 0 .. m /\ n + 1 \in 0 .. m
    BY <1>6, <1>1
  <2>2. IsExt(t, j, e) /\ e \in Exts
    <3>1. IsExt(t, b + 3 * ((n + 1) - 1), list[n + 1]) /\ list[n + 1] \in Exts
      BY <2>1, <1>5
    <3> QED BY <3>1, <2>1
  <2>3. Ends(t)[j] = p
    OBVIOUS
  <2>4. Ends(t)[j + 3] = q(n + 1)
    BY <2>1
  <2>5. q(n + 1) <= end
    <3>1. b + 3 * (n + 1) \in 0 .. Len(t) /\ Len(t) \in 0 .. Len(t) /\ b + 3 * (n + 1) <= Len(t)
      BY <2>1, <1>2, <1>1
    <3> QED BY <3>1, EndsRise DEF end, Size
  <2> HIDE DEF e, j, p, m
  <2>6. /\ FieldAt(t, p, 2) = ExtTypes[e.ext] /\ FieldAt(t, p + 2, 2) = e.len
        /\ Ends(t)[j + 3] = (p + 4) + e.len /\ p \in Nat /\ e.len \in Nat
    BY <2>1, <2>2, <2>3, ExtRead
  <2> DEFINE q1 == q(n + 1)
  <2>7. q1 = (p + 4) + e.len /\ q1 <= end
    BY <2>4, <2>5, <2>6
  <2> HIDE DEF q1
  <2>8. p + 4 <= end
    BY <2>6, <2>7, <1>2
  <2>9. q1 = p + 4 + FieldAt(t, p + 2, 2)
    BY <2>6, <2>7
  <2> QED BY <2>6, <2>8, <2>9 DEF p, q1, e
<1>7. 0 \in P
  <2>1. ReadUpto(f[0], 0, q(0), list)
    BY <1>4, SeqEmpty DEF ReadUpto
  <2> QED BY <2>1
<1>8. ASSUME NEW n \in P PROVE n + 1 \in P
  <2>1. SUFFICES ASSUME n + 1 <= m PROVE ReadUpto(f[n + 1], n + 1, q(n + 1), list)
    OBVIOUS
  <2>2. n \in Nat /\ n + 1 \in 1 .. N /\ (n + 1) - 1 = n /\ n \in 0 .. m
    BY <2>1, <1>1
  <2>3. ReadUpto(f[n], n, q(n), list)
    BY <2>1, <2>2
  <2> HIDE DEF P, m
  <2> DEFINE w == f[n]
             p == q(n)
             v == FieldAt(t, p, 2)
             r == q(n + 1)
  <2>4. p + 4 <= end /\ v = ExtTypes[list[n + 1].ext] /\ r = p + 4 + FieldAt(t, p + 2, 2) /\ p \in Nat
    BY <2>1, <2>2, <1>6, <1>2
  <2>5. f[n + 1] = Turn(t, end, w)
    BY <2>2, <1>4
  <2> HIDE DEF w, r
  <2>6. w.pos = p
    BY <2>3 DEF ReadUpto, w
  <2> HIDE DEF p
  <2>7. f[n + 1] = [pos |-> r, out |-> Append(w.out, v)]
    <3>1. ~(p + 4 > end)
      BY <2>4, <1>2
    <3> QED BY <2>4, <2>5, <2>6, <3>1 DEF Turn
  <2>8. v \in Int
    BY FieldAtInt
  <2> HIDE DEF v
  <2>9. ReadUpto(w, n, p, list)
    BY <2>3 DEF w, p
  <2>10. ReadUpto(f[n + 1], n + 1, r, list)
    BY <2>2, <2>4, <2>7, <2>8, <2>9, ReadOne
  <2> QED BY <2>10 DEF r
<1>9. P = Nat
  <2> HIDE DEF P
  <2>1. P \in SUBSET Nat
    BY DEF P
  <2> QED BY <1>7, <1>8, <2>1, NatSetInduction
<1>10. ReadUpto(f[m], m, end, list)
  <2>1. m \in P
    BY <1>1, <1>9
  <2> HIDE DEF m, q
  <2> QED BY <2>1, <1>1, <1>2
<1>11. 0 \in R
  <2>1. m <= 0 => m = 0
    BY <1>1
  <2> HIDE DEF m
  <2> QED BY <2>1
<1>12. ASSUME NEW n \in R PROVE n + 1 \in R
  <2>1. SUFFICES ASSUME m <= n + 1, n + 1 <= N PROVE f[n + 1] = f[m]
    OBVIOUS
  <2>2. n \in Nat /\ n + 1 \in 1 .. N /\ (n + 1) - 1 = n
    BY <2>1, <1>1
  <2>3. CASE m = n + 1
    <3> HIDE DEF m
    <3> QED BY <2>3
  <2>4. CASE m <= n
    <3>1. f[n] = f[m]
      BY <2>4, <2>1, <2>2, <1>1
    <3> HIDE DEF R, m
    <3>2. f[n + 1] = Turn(t, end, f[m])
      BY <3>1, <2>2, <1>4
    <3>3. f[m].pos = end
      BY <1>10 DEF ReadUpto
    <3>4. end + 4 > end
      BY <1>2
    <3> QED BY <3>2, <3>3, <3>4 DEF Turn
  <2>5. m <= n \/ m = n + 1
    BY <2>1, <2>2, <1>1
  <2> QED BY <2>3, <2>4, <2>5
<1>13. R = Nat
  <2> HIDE DEF R
  <2>1. R \in SUBSET Nat
    BY DEF R
  <2> QED BY <1>11, <1>12, <2>1, NatSetInduction
<1>14. f[N] = f[m]
  <2>1. N \in R
    BY <1>1, <1>13
  <2> QED BY <2>1, <1>1
<1>15. TypesFrom(t, Ends(t)[b], end) = f[m].out
  BY <1>14, WalkLast DEF f, N
<1>16. f[m].out = TypesOf(list)
  <2> DEFINE o == f[m].out
  <2>1. o \in Seq(Int) /\ Len(o) = m /\ \A i \in 1 .. m : o[i] = ExtTypes[list[i].ext]
    BY <1>10 DEF ReadUpto
  <2> HIDE DEF o
  <2>2. o = [i \in 1 .. m |-> o[i]]
    BY <2>1, SeqParts
  <2>3. o = [i \in 1 .. m |-> ExtTypes[list[i].ext]]
    BY <2>1, <2>2
  <2> QED BY <2>3 DEF o, TypesOf
<1> QED BY <1>15, <1>16 DEF end

\* The numbers the parser reads on its way to the extensions.
FieldsRead(t, S, C, X) ==
  /\ FieldAt(t, 0, 1) = 22 /\ FieldAt(t, 3, 2) = 45 + S + C + X /\ FieldAt(t, 5, 1) = 1
  /\ FieldAt(t, 6, 3) = 41 + S + C + X /\ FieldAt(t, 43, 1) = S /\ FieldAt(t, 44 + S, 2) = C
  /\ FieldAt(t, 46 + S + C, 1) = 1 /\ FieldAt(t, 48 + S + C, 2) = X

\* The field behind the first h is found where those end.
LEMMA FieldBehind ==
  ASSUME NEW s \in Seq(Fields), NEW i \in 1 .. Len(s), NEW h, h = i - 1, NEW pos, NEW k \in Nat \ {0}, NEW v,
         Ends(s)[h] = pos, s[i] = <<k, v>>
  PROVE  FieldAt(s, pos, k) = v
<1>1. s[i][1] = k /\ s[i][2] = v
  OBVIOUS
<1>2. Ends(s)[i - 1] = pos
  OBVIOUS
<1> QED BY <1>1, <1>2, FieldThere

\* They are the lengths that are written.
LEMMA HelloFields ==
  ASSUME NEW t, NEW S \in Nat, NEW C \in Nat, NEW x \in Seq(Fields), NEW X \in Nat, X = Size(x),
         IsHello(t, S, C, x), Starts(Ends(t), S, C)
  PROVE  FieldsRead(t, S, C, X)
<1>1. t \in Seq(Fields) /\ IsTail(t, 14, x) /\ IsRecordHead(t, 41 + S + C + X)
  BY DEF IsHello
<1>2. t[8] = <<1, S>> /\ t[10] = <<2, C>> /\ t[12] = <<1, 1>> /\ t[14] = <<2, X>>
  BY DEF IsHello
<1>3. /\ t[1] = <<1, 22>> /\ t[3] = <<2, 4 + (41 + S + C + X)>> /\ t[4] = <<1, 1>>
      /\ t[5] = <<3, 41 + S + C + X>>
  BY <1>1 DEF IsRecordHead
<1>4. \A i \in 1 .. 14 : i \in 1 .. Len(t)
  <2>1. Len(x) \in Nat
    BY SeqParts
  <2>2. 14 + Len(x) = Len(t)
    BY <1>1 DEF IsTail
  <2> QED BY <2>1, <2>2
<1> DEFINE e == Ends(t)
<1>5. /\ e[0] = 0 /\ e[2] = 3 /\ e[3] = 5 /\ e[4] = 6 /\ e[7] = 43 /\ e[9] = 44 + S
      /\ e[11] = 46 + S + C /\ e[13] = 48 + S + C
  BY DEF Starts
<1>6. t \in Seq(Fields)
  BY <1>1
<1>7. 1 \in Nat \ {0} /\ 2 \in Nat \ {0} /\ 3 \in Nat \ {0}
  OBVIOUS
<1>8. FieldAt(t, 0, 1) = 22
  <2>1. 1 \in 1 .. Len(t) /\ 0 = 1 - 1
    BY <1>4
  <2>2. e[0] = 0 /\ t[1] = <<1, 22>>
    BY <1>2, <1>3, <1>5
  <2> QED BY <1>6, <1>7, <2>1, <2>2, FieldBehind
<1>9. FieldAt(t, 3, 2) = 4 + (41 + S + C + X)
  <2>1. 3 \in 1 .. Len(t) /\ 2 = 3 - 1
    BY <1>4
  <2>2. e[2] = 3 /\ t[3] = <<2, 4 + (41 + S + C + X)>>
    BY <1>2, <1>3, <1>5
  <2> QED BY <1>6, <1>7, <2>1, <2>2, FieldBehind
<1>10. FieldAt(t, 5, 1) = 1
  <2>1. 4 \in 1 .. Len(t) /\ 3 = 4 - 1
    BY <1>4
  <2>2. e[3] = 5 /\ t[4] = <<1, 1>>
    BY <1>2, <1>3, <1>5
  <2> QED BY <1>6, <1>7, <2>1, <2>2, FieldBehind
<1>11. FieldAt(t, 6, 3) = 41 + S + C + X
  <2>1. 5 \in 1 .. Len(t) /\ 4 = 5 - 1
    BY <1>4
  <2>2. e[4] = 6 /\ t[5] = <<3, 41 + S + C + X>>
    BY <1>2, <1>3, <1>5
  <2> QED BY <1>6, <1>7, <2>1, <2>2, FieldBehind
<1>12. FieldAt(t, 43, 1) = S
  <2>1. 8 \in 1 .. Len(t) /\ 7 = 8 - 1
    BY <1>4
  <2>2. e[7] = 43 /\ t[8] = <<1, S>>
    BY <1>2, <1>3, <1>5
  <2> QED BY <1>6, <1>7, <2>1, <2>2, FieldBehind
<1>13. FieldAt(t, 44 + S, 2) = C
  <2>1. 10 \in 1 .. Len(t) /\ 9 = 10 - 1
    BY <1>4
  <2>2. e[9] = 44 + S /\ t[10] = <<2, C>>
    BY <1>2, <1>3, <1>5
  <2> QED BY <1>6, <1>7, <2>1, <2>2, FieldBehind
<1>14. FieldAt(t, 46 + S + C, 1) = 1
  <2>1. 12 \in 1 .. Len(t) /\ 11 = 12 - 1
    BY <1>4
  <2>2. e[11] = 46 + S + C /\ t[12] = <<1, 1>>
    BY <1>2, <1>3, <1>5
  <2> QED BY <1>6, <1>7, <2>1, <2>2, FieldBehind
<1>15. FieldAt(t, 48 + S + C, 2) = X
  <2>1. 14 \in 1 .. Len(t) /\ 13 = 14 - 1
    BY <1>4
  <2>2. e[13] = 48 + S + C /\ t[14] = <<2, X>>
    BY <1>2, <1>3, <1>5
  <2> QED BY <1>6, <1>7, <2>1, <2>2, FieldBehind
<1>16. 4 + (41 + S + C + X) = 45 + S + C + X
  OBVIOUS
<1> QED BY <1>8, <1>9, <1>10, <1>11, <1>12, <1>13, <1>14, <1>15, <1>16 DEF FieldsRead

\* What the parser finds in the first n bytes.
FoundIn(t, n, S, C, X) == IF n < 50 + S + C + X THEN <<>> ELSE TypesFrom(t, 50 + S + C, 50 + S + C + X)

\* With these numbers it gets to the extensions, unless bytes are missing.
LEMMA FindRead ==
  ASSUME NEW t, NEW n \in Nat, NEW S \in Nat, NEW C \in Nat, NEW X \in Nat, FieldsRead(t, S, C, X)
  PROVE  FindExtensions(t, n) = FoundIn(t, n, S, C, X)
<1> DEFINE rec_end == 5 + FieldAt(t, 3, 2)
           hs_end == 9 + FieldAt(t, 6, 3)
           sess == 9 + 2 + 32
           ciphers == sess + 1 + FieldAt(t, sess, 1)
           comp == ciphers + 2 + FieldAt(t, ciphers, 2)
           exts == comp + 1 + FieldAt(t, comp, 1)
           stop == exts + 2 + FieldAt(t, exts, 2)
           end == IF stop < hs_end THEN stop ELSE hs_end
           bad == \/ n < 5 \/ FieldAt(t, 0, 1) # 22 \/ n < rec_end
                  \/ rec_end < 9 \/ FieldAt(t, 5, 1) # 1 \/ rec_end < hs_end
                  \/ sess + 1 > hs_end \/ ciphers + 2 > hs_end \/ comp + 1 > hs_end \/ exts + 2 > hs_end
<1>1. FindExtensions(t, n) = IF bad THEN <<>> ELSE TypesFrom(t, exts + 2, end)
  BY DEF FindExtensions
<1>2. /\ FieldAt(t, 0, 1) = 22 /\ FieldAt(t, 3, 2) = 45 + S + C + X /\ FieldAt(t, 5, 1) = 1
      /\ FieldAt(t, 6, 3) = 41 + S + C + X
  BY DEF FieldsRead
<1>3. rec_end = 50 + S + C + X /\ hs_end = 50 + S + C + X
  BY <1>2
<1>4. sess = 43
  OBVIOUS
<1> HIDE DEF sess
<1>5. ciphers = 44 + S
  <2>1. FieldAt(t, sess, 1) = S
    BY <1>4 DEF FieldsRead
  <2> QED BY <1>4, <2>1
<1> HIDE DEF ciphers
<1>6. comp = 46 + S + C
  <2>1. FieldAt(t, ciphers, 2) = C
    BY <1>5 DEF FieldsRead
  <2> QED BY <1>5, <2>1
<1> HIDE DEF comp
<1>7. exts = 48 + S + C
  <2>1. FieldAt(t, comp, 1) = 1
    BY <1>6 DEF FieldsRead
  <2> QED BY <1>6, <2>1
<1> HIDE DEF exts
<1>8. stop = 50 + S + C + X
  <2>1. FieldAt(t, exts, 2) = X
    BY <1>7 DEF FieldsRead
  <2> QED BY <1>7, <2>1
<1> HIDE DEF stop, rec_end, hs_end
<1>9. exts + 2 = 50 + S + C /\ end = 50 + S + C + X
  BY <1>3, <1>7, <1>8
<1>10. bad <=> n < 50 + S + C + X
  BY <1>2, <1>3, <1>4, <1>5, <1>6, <1>7
<1> HIDE DEF bad, end
<1> QED BY <1>1, <1>9, <1>10 DEF FoundIn

\* The lengths of the session id and of the cipher suites.
HelloLengths(d, S, C) == S = d.session_len /\ C = 2 * d.ciphers

\* A hello is as long as its parts, and read back whole or not at all.
LEMMA HelloMade ==
  ASSUME NEW d \in ProfileDefs, NEW list \in Seq(Exts), NEW S, NEW C, HelloLengths(d, S, C),
         NEW X, X = Size(Extensions(list))
  PROVE  /\ Size(HelloRecord(d, list)) = 50 + S + C + X /\ S \in Nat /\ C \in Nat /\ X \in Nat
         /\ \A n \in Nat : FindExtensions(HelloRecord(d, list), n) =
                             IF n < 50 + S + C + X THEN <<>> ELSE TypesOf(list)
<1> DEFINE x == Extensions(list)
           b == Body(d, x)
           t == TlsRecord(b)
<1>1. x \in Seq(Fields) /\ Len(x) = 3 * Len(list) /\ HasExts(x, 0, list)
  <2>1. IsExtensions(x, list)
    BY ExtensionsMade
  <2> HIDE DEF x
  <2>2. \A i \in 1 .. Len(list) : 0 + 3 * (i - 1) = 3 * (i - 1)
    BY SeqParts
  <2> QED BY <2>1, <2>2 DEF IsExtensions, HasExts
<1>2. HelloRecord(d, list) = t
  BY DEF HelloRecord
<1>3. X = Size(x)
  OBVIOUS
<1> HIDE DEF x
<1>4. S \in Nat /\ C \in Nat
  BY DEF ProfileDefs, HelloLengths
<1>5. X \in Nat
  <2>1. Len(x) \in Nat
    BY <1>1, SeqParts
  <2>2. Ends(x) \in [0 .. Len(x) -> Nat]
    BY <1>1, EndsSteps
  <2> QED BY <2>1, <2>2, <1>3 DEF Size
<1>6. /\ b \in Seq(Fields) /\ IsBodyHead(b, S, C, X) /\ IsTail(b, 9, x) /\ Size(b) = 41 + S + C + X
  BY <1>1, <1>3, BodyMade DEF HelloLengths
<1> HIDE DEF b
<1>7. IsHello(t, S, C, x) /\ Starts(Ends(t), S, C) /\ Size(t) = 50 + S + C + X
  <2>1. b \in Seq(Fields) /\ x \in Seq(Fields)
    BY <1>1, <1>6
  <2> QED BY <2>1, <1>3, <1>4, <1>5, <1>6, RecordMade
<1> HIDE DEF t
<1>8. FieldsRead(t, S, C, X)
  BY <1>1, <1>3, <1>4, <1>5, <1>7, HelloFields
<1>9. t \in Seq(Fields) /\ Len(t) = 14 + 3 * Len(list)
  BY <1>1, <1>7 DEF IsHello, IsTail
<1>10. HasExts(t, 14, list)
  <2>1. SUFFICES ASSUME NEW i \in 1 .. Len(list) PROVE IsExt(t, 14 + 3 * (i - 1), list[i])
    BY DEF HasExts
  <2> DEFINE j == 3 * (i - 1)
             e == list[i]
  <2>2. Len(list) \in Nat
    BY SeqParts
  <2>3. /\ j + 1 \in 1 .. Len(x) /\ j + 2 \in 1 .. Len(x) /\ j + 3 \in 1 .. Len(x) /\ 0 + j = j
        /\ 14 + (j + 1) = (14 + j) + 1 /\ 14 + (j + 2) = (14 + j) + 2 /\ 14 + (j + 3) = (14 + j) + 3
    BY <2>2, <1>1
  <2>4. IsExt(x, 0 + j, e)
    BY <1>1 DEF HasExts
  <2> HIDE DEF j, e
  <2>5. IsExt(x, j, e)
    BY <2>3, <2>4
  <2>6. \A i_ \in 1 .. Len(x) : t[14 + i_] = x[i_]
    BY <1>7 DEF IsHello, IsTail
  <2>7. t[(14 + j) + 1] = x[j + 1] /\ t[(14 + j) + 2] = x[j + 2] /\ t[(14 + j) + 3] = x[j + 3]
    BY <2>3, <2>6
  <2>8. IsExt(t, 14 + j, e)
    BY <2>5, <2>7 DEF IsExt
  <2> QED BY <2>8 DEF j, e
<1>11. TypesFrom(t, 50 + S + C, 50 + S + C + X) = TypesOf(list)
  <2>1. TypesFrom(t, Ends(t)[14], Size(t)) = TypesOf(list)
    BY <1>9, <1>10, WalkRead
  <2>2. Ends(t)[14] = 50 + S + C
    BY <1>7 DEF Starts
  <2> QED BY <2>1, <2>2, <1>7
<1>12. ASSUME NEW n \in Nat
       PROVE  FindExtensions(t, n) = IF n < 50 + S + C + X THEN <<>> ELSE TypesOf(list)
  <2>1. FindExtensions(t, n) = FoundIn(t, n, S, C, X)
    BY <1>4, <1>5, <1>8, FindRead
  <2> QED BY <2>1, <1>11 DEF FoundIn
<1> QED BY <1>2, <1>4, <1>5, <1>7, <1>12

-----------------------------------------------------------------------------
(* A hello is read back. *)

\* One more extension makes the extensions longer by its header and its data.
LEMMA AppendedExt ==
  ASSUME NEW list \in Seq(Exts), NEW e \in Exts
  PROVE  Size(Extensions(Append(list, e))) = Size(Extensions(list)) + 4 + e.len
<1> DEFINE m == Len(list)
           more == Append(list, e)
           x == Extensions(list)
           y == Extensions(more)
<1>1. /\ more \in Seq(Exts) /\ Len(more) = m + 1 /\ more[m + 1] = e /\ m \in Nat
      /\ \A i \in 1 .. m : more[i] = list[i]
  OBVIOUS
<1> HIDE DEF more
<1>2. x \in Seq(Fields) /\ Len(x) = 3 * m /\ \A i \in 1 .. m : IsExt(x, 3 * (i - 1), list[i])
  BY ExtensionsMade DEF IsExtensions
<1>3. y \in Seq(Fields) /\ Len(y) = 3 * Len(more) /\ \A i \in 1 .. Len(more) : IsExt(y, 3 * (i - 1), more[i])
  BY <1>1, ExtensionsMade DEF IsExtensions
<1> HIDE DEF x, y
<1>4. Len(y) = 3 * m + 3 /\ IsExt(y, 3 * m, e)
  <2>1. m + 1 \in 1 .. Len(more) /\ 3 * ((m + 1) - 1) = 3 * m /\ 3 * (m + 1) = 3 * m + 3
    BY <1>1
  <2>2. IsExt(y, 3 * ((m + 1) - 1), more[m + 1])
    BY <1>3, <2>1
  <2> QED BY <1>1, <1>3, <2>1, <2>2
<1>5. ASSUME NEW i \in 1 .. Len(x) PROVE y[0 + i] = x[i]
  <2> DEFINE q == (i - 1) \div 3
  <2>1. i - 1 \in Nat /\ i <= 3 * m
    BY <1>1, <1>2
  <2>2. q \in Nat /\ 3 * q <= i - 1 /\ i - 1 < 3 * q + 3
    BY <2>1, Thirds
  <2> HIDE DEF q, m
  <2>3. q + 1 \in 1 .. m /\ (q + 1) - 1 = q /\ (i = 3 * q + 1 \/ i = 3 * q + 2 \/ i = 3 * q + 3)
    BY <2>1, <2>2, <1>1
  <2>4. q + 1 \in 1 .. Len(more)
    BY <2>3, <1>1
  <2>5. IsExt(x, 3 * q, list[q + 1])
    <3>1. IsExt(x, 3 * ((q + 1) - 1), list[q + 1])
      BY <1>2, <2>3
    <3> QED BY <3>1, <2>3
  <2>6. IsExt(y, 3 * q, list[q + 1])
    <3>1. IsExt(y, 3 * ((q + 1) - 1), more[q + 1])
      BY <1>3, <2>4
    <3> QED BY <3>1, <2>3, <1>1
  <2>7. y[i] = x[i]
    BY <2>3, <2>5, <2>6 DEF IsExt
  <2> QED BY <2>7, <2>1
<1>6. Ends(y)[3 * m] = Ends(x)[Len(x)]
  <2>1. Len(x) \in 0 .. Len(x) /\ 0 + Len(x) <= Len(y) /\ 0 \in Nat /\ 0 + Len(x) = 3 * m
    BY <1>1, <1>2, <1>4
  <2>2. Ends(y)[0 + Len(x)] = Ends(y)[0] + Ends(x)[Len(x)]
    <3>1. \A i \in 1 .. Len(x) : y[0 + i] = x[i]
      BY <1>5
    <3> QED BY <2>1, <3>1, <1>2, <1>3, EndsBehind
  <2>3. Ends(y)[0] = 0
    BY <1>3, EndsSteps
  <2>4. Ends(x)[Len(x)] \in Nat
    BY <2>1, <1>2, EndsSteps
  <2> QED BY <2>1, <2>2, <2>3, <2>4
<1>7. Ends(y)[3 * m + 3] = (Ends(x)[Len(x)] + 4) + e.len
  <2>1. 3 * m \in Nat /\ 3 * m + 3 <= Len(y) /\ y \in Seq(Fields)
    BY <1>1, <1>3, <1>4
  <2> QED BY <2>1, <1>4, <1>6, ExtRead
<1> QED BY <1>4, <1>7 DEF Size, x, y, more

\* The types of the list are those the profile asks for.
LEMMA TypesListed ==
  ASSUME NEW d \in ProfileDefs, NEW list, IsExtList(list, d)
  PROVE  TypesOf(list) = [i \in DOMAIN d.ext_order |-> ExtTypes[d.ext_order[i]]]
<1> DEFINE o == d.ext_order
<1>1. o \in Seq(ExtNames \ {"padding"})
  BY DEF ProfileDefs
<1> HIDE DEF o
<1>2. DOMAIN o = 1 .. Len(o)
  BY <1>1, SeqParts
<1>3. Len(list) = Len(o) /\ \A i \in 1 .. Len(list) : list[i].ext = o[i]
  BY DEF IsExtList, o
<1>4. TypesOf(list) = [i \in DOMAIN o |-> ExtTypes[o[i]]]
  BY <1>2, <1>3 DEF TypesOf
<1> QED BY <1>4 DEF o

\* One more extension is one more type.
LEMMA TypesAppended ==
  ASSUME NEW list \in Seq(Exts), NEW e \in Exts
  PROVE  TypesOf(Append(list, e)) = Append(TypesOf(list), ExtTypes[e.ext])
<1> DEFINE m == Len(list)
           more == Append(list, e)
           s == TypesOf(list)
           v == ExtTypes[e.ext]
           t == Append(s, v)
<1>1. /\ Len(more) = m + 1 /\ more[m + 1] = e /\ m \in Nat
      /\ \A i \in 1 .. m : more[i] = list[i] /\ list[i] \in Exts
  BY SeqParts
<1>2. \A f \in Exts : ExtTypes[f.ext] \in Int
  BY TypesTyped DEF Exts
<1> HIDE DEF more, v
<1>3. s \in Seq(Int) /\ Len(s) = m /\ \A i \in 1 .. m : s[i] = ExtTypes[list[i].ext]
  <2>1. s \in [1 .. m -> Int]
    BY <1>1, <1>2 DEF TypesOf
  <2>2. s \in Seq(Int) /\ Len(s) = m
    BY <2>1, <1>1, SeqMade
  <2> QED BY <2>2 DEF TypesOf
<1>4. v \in Int
  BY <1>2 DEF v
<1> HIDE DEF s
<1>5. t \in Seq(Int) /\ Len(t) = m + 1 /\ t[m + 1] = v /\ \A i \in 1 .. m : t[i] = s[i]
  BY <1>3, <1>4
<1> HIDE DEF t, m
<1>6. t = [i \in 1 .. m + 1 |-> t[i]]
  BY <1>5, SeqParts
<1>7. ASSUME NEW i \in 1 .. m + 1 PROVE t[i] = ExtTypes[more[i].ext]
  <2>1. CASE i = m + 1
    BY <2>1, <1>1, <1>5 DEF v
  <2>2. CASE i # m + 1
    <3>1. i \in 1 .. m
      BY <2>2, <1>1
    <3> QED BY <3>1, <1>1, <1>3, <1>5
  <2> QED BY <2>1, <2>2
<1>8. t = [i \in 1 .. m + 1 |-> ExtTypes[more[i].ext]]
  BY <1>6, <1>7
<1>9. TypesOf(more) = [i \in 1 .. m + 1 |-> ExtTypes[more[i].ext]]
  BY <1>1 DEF TypesOf
<1> QED BY <1>8, <1>9 DEF t, v, s, more

\* t has size bytes and is read as types, or as nothing when it is cut off.
IsReadBack(t, size, types) ==
  /\ Size(t) = size /\ size \in Nat
  /\ FindExtensions(t, size) = types /\ \A n \in 0 .. size - 1 : FindExtensions(t, n) = <<>>

\* So is every hello.
LEMMA HelloRead ==
  ASSUME NEW d \in ProfileDefs, NEW list \in Seq(Exts)
  PROVE  IsReadBack(HelloRecord(d, list), Size(HelloRecord(d, list)), TypesOf(list))
<1> DEFINE S == d.session_len
           C == 2 * d.ciphers
           X == Size(Extensions(list))
           t == HelloRecord(d, list)
           z == 50 + S + C + X
<1>1. HelloLengths(d, S, C)
  BY DEF HelloLengths
<1>2. X = Size(Extensions(list))
  OBVIOUS
<1> HIDE DEF S, C, X
<1>3. /\ Size(t) = z /\ S \in Nat /\ C \in Nat /\ X \in Nat
      /\ \A n \in Nat : FindExtensions(t, n) = IF n < z THEN <<>> ELSE TypesOf(list)
  BY <1>1, <1>2, HelloMade
<1> HIDE DEF t
<1>4. z \in Nat
  BY <1>3
<1> HIDE DEF z
<1>5. FindExtensions(t, z) = TypesOf(list)
  BY <1>3, <1>4
<1>6. \A n \in 0 .. z - 1 : FindExtensions(t, n) = <<>>
  BY <1>3, <1>4
<1> QED BY <1>3, <1>4, <1>5, <1>6 DEF IsReadBack, t

\* One more extension makes the hello longer by its header and its data.
LEMMA HelloGrown ==
  ASSUME NEW d \in ProfileDefs, NEW list \in Seq(Exts), NEW e \in Exts
  PROVE  Size(HelloRecord(d, Append(list, e))) = Size(HelloRecord(d, list)) + 4 + e.len
<1> DEFINE S == d.session_len
           C == 2 * d.ciphers
           X == Size(Extensions(list))
           more == Append(list, e)
           Y == Size(Extensions(more))
<1>1. HelloLengths(d, S, C)
  BY DEF HelloLengths
<1>2. X = Size(Extensions(list)) /\ Y = Size(Extensions(more))
  OBVIOUS
<1>3. more \in Seq(Exts)
  OBVIOUS
<1>4. Y = X + 4 + e.len /\ e.len \in Nat
  BY AppendedExt DEF Exts
<1> HIDE DEF S, C, X, Y, more
<1>5. Size(HelloRecord(d, list)) = 50 + S + C + X /\ S \in Nat /\ C \in Nat /\ X \in Nat
  BY <1>1, <1>2, HelloMade
<1>6. Size(HelloRecord(d, more)) = 50 + S + C + Y
  BY <1>1, <1>2, <1>3, HelloMade
<1> QED BY <1>4, <1>5, <1>6 DEF more

\* What BuildClientHello() makes is padded to its size or left as it is, and read back.
LEMMA BuiltRead ==
  ASSUME NEW d \in ProfileDefs, NEW sni \in Nat, NEW bare, bare = Size(HelloRecord(d, ExtList(d, sni))),
         NEW sent, sent = [i \in DOMAIN d.ext_order |-> ExtTypes[d.ext_order[i]]]
  PROVE  IsReadBack(BuildClientHello(d, sni), IF bare < d.pad_to - 4 THEN d.pad_to ELSE bare,
                    IF bare < d.pad_to - 4 THEN Append(sent, ExtTypes["padding"]) ELSE sent)
<1> DEFINE list == ExtList(d, sni)
           pad_to == d.pad_to
           need == pad_to - bare - 4
           e == Extension("padding", need)
<1>1. IsExtList(list, d)
  BY ExtListTyped
<1>2. bare = Size(HelloRecord(d, list))
  OBVIOUS
<1>3. BuildClientHello(d, sni) = HelloRecord(d, IF need > 0 THEN Append(list, e) ELSE list)
  BY DEF BuildClientHello
<1>4. TypesOf(list) = sent
  BY <1>1, TypesListed
<1>5. list \in Seq(Exts)
  BY <1>1 DEF IsExtList
<1>6. pad_to \in Nat
  BY DEF ProfileDefs
<1> HIDE DEF list, pad_to
<1>7. IsReadBack(HelloRecord(d, list), bare, sent)
  BY <1>2, <1>4, <1>5, HelloRead
<1>8. bare \in Nat
  BY <1>7 DEF IsReadBack
<1>9. CASE bare < pad_to - 4
  <2>1. need > 0 /\ need \in Nat /\ bare + 4 + need = pad_to
    BY <1>6, <1>8, <1>9
  <2> HIDE DEF need
  <2>2. "padding" \in ExtNames
    BY DEF ExtNames, ExtTypes
  <2>3. e = [ext |-> "padding", len |-> need]
    BY DEF Extension
  <2>4. e \in Exts /\ e.ext = "padding" /\ e.len = need
    BY <2>1, <2>2, <2>3 DEF Exts
  <2> HIDE DEF e
  <2>5. TypesOf(Append(list, e)) = Append(sent, ExtTypes["padding"])
    BY <1>4, <1>5, <2>4, TypesAppended
  <2>6. Size(HelloRecord(d, Append(list, e))) = pad_to
    <3>1. Size(HelloRecord(d, Append(list, e))) = Size(HelloRecord(d, list)) + 4 + e.len
      BY <1>5, <2>4, HelloGrown
    <3> QED BY <3>1, <2>1, <2>4, <1>2
  <2>7. Append(list, e) \in Seq(Exts)
    BY <1>5, <2>4
  <2>8. IsReadBack(HelloRecord(d, Append(list, e)), pad_to, Append(sent, ExtTypes["padding"]))
    BY <2>5, <2>6, <2>7, HelloRead
  <2>9. BuildClientHello(d, sni) = HelloRecord(d, Append(list, e))
    BY <1>3, <2>1
  <2> QED BY <2>8, <2>9, <1>9 DEF pad_to
<1>10. CASE ~ (bare < pad_to - 4)
  <2>1. ~ (need > 0)
    BY <1>6, <1>8, <1>10
  <2> HIDE DEF need
  <2>2. BuildClientHello(d, sni) = HelloRecord(d, list)
    BY <1>3, <2>1
  <2> QED BY <2>2, <1>7, <1>10 DEF pad_to
<1> QED BY <1>9, <1>10

\* What is asked for.
HelloInputs == [kind : {"built"}, def : PROFILES, sni : SNI_LENS]
               \cup [kind : {"template"}, sni : 0 .. MaxSni, app : APPS]

\* It stays the same.
LEMMA HelloTyped ==
  HSpec => [](hello \in HelloInputs)
<1>1. HInit => hello \in HelloInputs
  BY DEF HInit, HelloInputs
<1>2. hello \in HelloInputs /\ [UNCHANGED hello]_hello => (hello \in HelloInputs)'
  BY DEF HelloInputs
<1> QED BY <1>1, <1>2, PTL DEF HSpec

\* HelloReadBack holds of any of them.
LEMMA ReadBackHolds ==
  ASSUME hello \in HelloInputs
  PROVE  HelloReadBack
<1>1. SUFFICES ASSUME hello.kind = "built" PROVE HelloReadBack
  BY DEF HelloReadBack
<1> DEFINE d == hello.def
           sni == hello.sni
           data == BuildClientHello(d, sni)
           bare == Size(HelloRecord(d, ExtList(d, sni)))
           sent == [i \in DOMAIN d.ext_order |-> ExtTypes[d.ext_order[i]]]
           size == IF bare < d.pad_to - 4 THEN d.pad_to ELSE bare
           types == IF bare < d.pad_to - 4 THEN Append(sent, ExtTypes["padding"]) ELSE sent
<1>2. d \in PROFILES /\ sni \in SNI_LENS
  <2>1. hello \in [kind : {"built"}, def : PROFILES, sni : SNI_LENS] \/ hello.kind = "template"
    BY DEF HelloInputs
  <2> QED BY <1>1, <2>1
<1>3. d \in ProfileDefs /\ sni \in Nat
  <2> HIDE DEF d, sni
  <2>1. PROFILES \subseteq ProfileDefs /\ SNI_LENS \subseteq 1 .. MaxSni
    BY HelloAssumption DEF HelloAssumption
  <2>2. \A n \in 1 .. MaxSni : n \in Nat
    BY DEF MaxSni
  <2> QED BY <1>2, <2>1, <2>2
<1>4. IsReadBack(data, size, types)
  <2> HIDE DEF d, sni
  <2> QED BY <1>3, BuiltRead
<1>5. HelloReadBack <=> /\ FindExtensions(data, Size(data)) = types
                        /\ Size(data) = size
                        /\ \A n \in 0 .. Size(data) - 1 : FindExtensions(data, n) = <<>>
  BY <1>1 DEF HelloReadBack
<1> HIDE DEF data, size, types
<1> QED BY <1>4, <1>5 DEF IsReadBack

\* For any order of extensions and any lengths in the profile, and any SNI: the parser
\* reads a built hello back, padding included, and nothing of a part of it.
THEOREM HellosReadBack == HSpec => []HelloReadBack
BY HelloTyped, ReadBackHolds, PTL

-----------------------------------------------------------------------------
(* The hellos of the templates. *)

\* The fields of the client template, with l bytes of SNI and z of padding.
SniHello(rnd, sess, sni, l, key, z) ==
  <<<<11, 0>>, <<32, rnd>>, <<1, 32>>, <<32, sess>>, <<44, 0>>,
    <<2, l + 5>>, <<2, l + 3>>, <<1, 0>>, <<2, l>>, <<l, sni>>,
    <<135, 0>>, <<32, key>>, <<2, 21>>, <<2, z>>, <<z, 0>>>>

\* t is such a hello.
IsSniHello(t, rnd, sess, sni, l, key, z) ==
  /\ t[1] = <<11, 0>> /\ t[2] = <<32, rnd>> /\ t[3] = <<1, 32>> /\ t[4] = <<32, sess>> /\ t[5] = <<44, 0>>
  /\ t[6] = <<2, l + 5>> /\ t[7] = <<2, l + 3>> /\ t[8] = <<1, 0>> /\ t[9] = <<2, l>> /\ t[10] = <<l, sni>>
  /\ t[11] = <<135, 0>> /\ t[12] = <<32, key>> /\ t[13] = <<2, 21>> /\ t[14] = <<2, z>> /\ t[15] = <<z, 0>>

\* It is a sequence of fields.
LEMMA SniHelloMade ==
  ASSUME NEW rnd \in Int, NEW sess \in Int, NEW sni \in Int, NEW l \in Nat, NEW key \in Int, NEW z \in Nat,
         NEW t, t = SniHello(rnd, sess, sni, l, key, z)
  PROVE  t \in Seq(Fields) /\ Len(t) = 15 /\ IsSniHello(t, rnd, sess, sni, l, key, z)
<1>1. /\ <<11, 0>> \in Fields /\ <<32, rnd>> \in Fields /\ <<1, 32>> \in Fields
      /\ <<32, sess>> \in Fields /\ <<44, 0>> \in Fields
  BY DEF Fields
<1>2. /\ <<2, l + 5>> \in Fields /\ <<2, l + 3>> \in Fields /\ <<1, 0>> \in Fields
      /\ <<2, l>> \in Fields /\ <<l, sni>> \in Fields
  BY DEF Fields
<1>3. /\ <<135, 0>> \in Fields /\ <<32, key>> \in Fields /\ <<2, 21>> \in Fields
      /\ <<2, z>> \in Fields /\ <<z, 0>> \in Fields
  BY DEF Fields
<1>4. SniHello(rnd, sess, sni, l, key, z) \in Seq(Fields)
  BY <1>1, <1>2, <1>3 DEF SniHello
<1>5. Len(t) = 15
  BY DEF SniHello
<1>6. IsSniHello(t, rnd, sess, sni, l, key, z)
  BY DEF SniHello, IsSniHello
<1> QED BY <1>4, <1>5, <1>6

\* The fields of the server template, with l bytes of application data.
AppHello(rnd, sess, key, app, l) ==
  <<<<11, 0>>, <<32, rnd>>, <<1, 32>>, <<32, sess>>, <<19, 0>>, <<32, key>>,
    <<6, 0>>, <<3, 0>>, <<2, l>>, <<l, app>>>>

\* t is such a hello.
IsAppHello(t, rnd, sess, key, app, l) ==
  /\ t[1] = <<11, 0>> /\ t[2] = <<32, rnd>> /\ t[3] = <<1, 32>> /\ t[4] = <<32, sess>> /\ t[5] = <<19, 0>>
  /\ t[6] = <<32, key>> /\ t[7] = <<6, 0>> /\ t[8] = <<3, 0>> /\ t[9] = <<2, l>> /\ t[10] = <<l, app>>

\* It is a sequence of fields.
LEMMA AppHelloMade ==
  ASSUME NEW rnd \in Int, NEW sess \in Int, NEW app \in Int, NEW l \in Nat, NEW key \in Int,
         NEW t, t = AppHello(rnd, sess, key, app, l)
  PROVE  t \in Seq(Fields) /\ Len(t) = 10 /\ IsAppHello(t, rnd, sess, key, app, l)
<1>1. /\ <<11, 0>> \in Fields /\ <<32, rnd>> \in Fields /\ <<1, 32>> \in Fields
      /\ <<32, sess>> \in Fields /\ <<19, 0>> \in Fields
  BY DEF Fields
<1>2. /\ <<32, key>> \in Fields /\ <<6, 0>> \in Fields /\ <<3, 0>> \in Fields
      /\ <<2, l>> \in Fields /\ <<l, app>> \in Fields
  BY DEF Fields
<1>3. AppHello(rnd, sess, key, app, l) \in Seq(Fields)
  BY <1>1, <1>2 DEF AppHello
<1>4. Len(t) = 10
  BY DEF AppHello
<1>5. IsAppHello(t, rnd, sess, key, app, l)
  BY DEF AppHello, IsAppHello
<1> QED BY <1>3, <1>4, <1>5

\* Field i of s is one of k > 0 bytes at byte pos, with the value v.
IsField(s, i, pos, k, v) ==
  /\ s \in Seq(Fields) /\ i \in 1 .. Len(s) /\ k \in Nat \ {0}
  /\ Ends(s)[i - 1] = pos /\ s[i][1] = k /\ s[i][2] = v

\* It is found there.
LEMMA FieldFound ==
  ASSUME NEW s, NEW i, NEW pos, NEW k, NEW v, IsField(s, i, pos, k, v)
  PROVE  FieldAt(s, pos, k) = v
<1>1. /\ s \in Seq(Fields) /\ i \in 1 .. Len(s) /\ k \in Nat \ {0}
      /\ Ends(s)[i - 1] = pos /\ s[i][1] = k /\ s[i][2] = v
  BY DEF IsField
<1> QED BY <1>1, FieldThere

\* What is read at the fixed offsets of the client template, one field after the other.
LEMMA SniHelloRead ==
  ASSUME NEW t \in Seq(Fields), Len(t) = 15, NEW rnd, NEW sess, NEW sni, NEW l \in Nat, NEW key, NEW z \in Nat,
         IsSniHello(t, rnd, sess, sni, l, key, z)
  PROVE  /\ FieldAt(t, 11, 32) = rnd /\ FieldAt(t, 44, 32) = sess /\ FieldAt(t, 125, 2) = l
         /\ l > 0 => FieldAt(t, 127, l) = sni
         /\ FieldAt(t, 262 + l, 32) = key /\ Size(t) = 298 + l + z
<1> DEFINE e == Ends(t)
<1>1. \A i \in 1 .. 15 : i \in 1 .. Len(t)
  BY SeqParts
<1>2. e[0] = 0
  BY EndsSteps
<1>3. e[1] = e[0] + 11
  <2>1. 1 \in 1 .. Len(t) /\ 0 = 1 - 1 /\ 0 \in Nat
    BY <1>1
  <2>2. t[1][1] = 11
    BY DEF IsSniHello
  <2> QED BY <2>1, <2>2, EndsNext
<1>4. e[2] = e[1] + 32
  <2>1. 2 \in 1 .. Len(t) /\ 1 = 2 - 1 /\ 1 \in Nat
    BY <1>1
  <2>2. t[2][1] = 32
    BY DEF IsSniHello
  <2> QED BY <2>1, <2>2, EndsNext
<1>5. e[3] = e[2] + 1
  <2>1. 3 \in 1 .. Len(t) /\ 2 = 3 - 1 /\ 2 \in Nat
    BY <1>1
  <2>2. t[3][1] = 1
    BY DEF IsSniHello
  <2> QED BY <2>1, <2>2, EndsNext
<1>6. e[4] = e[3] + 32
  <2>1. 4 \in 1 .. Len(t) /\ 3 = 4 - 1 /\ 3 \in Nat
    BY <1>1
  <2>2. t[4][1] = 32
    BY DEF IsSniHello
  <2> QED BY <2>1, <2>2, EndsNext
<1>7. e[5] = e[4] + 44
  <2>1. 5 \in 1 .. Len(t) /\ 4 = 5 - 1 /\ 4 \in Nat
    BY <1>1
  <2>2. t[5][1] = 44
    BY DEF IsSniHello
  <2> QED BY <2>1, <2>2, EndsNext
<1>8. e[6] = e[5] + 2
  <2>1. 6 \in 1 .. Len(t) /\ 5 = 6 - 1 /\ 5 \in Nat
    BY <1>1
  <2>2. t[6][1] = 2
    BY DEF IsSniHello
  <2> QED BY <2>1, <2>2, EndsNext
<1>9. e[7] = e[6] + 2
  <2>1. 7 \in 1 .. Len(t) /\ 6 = 7 - 1 /\ 6 \in Nat
    BY <1>1
  <2>2. t[7][1] = 2
    BY DEF IsSniHello
  <2> QED BY <2>1, <2>2, EndsNext
<1>10. e[8] = e[7] + 1
  <2>1. 8 \in 1 .. Len(t) /\ 7 = 8 - 1 /\ 7 \in Nat
    BY <1>1
  <2>2. t[8][1] = 1
    BY DEF IsSniHello
  <2> QED BY <2>1, <2>2, EndsNext
<1>11. e[9] = e[8] + 2
  <2>1. 9 \in 1 .. Len(t) /\ 8 = 9 - 1 /\ 8 \in Nat
    BY <1>1
  <2>2. t[9][1] = 2
    BY DEF IsSniHello
  <2> QED BY <2>1, <2>2, EndsNext
<1>12. e[10] = e[9] + l
  <2>1. 10 \in 1 .. Len(t) /\ 9 = 10 - 1 /\ 9 \in Nat
    BY <1>1
  <2>2. t[10][1] = l
    BY DEF IsSniHello
  <2> QED BY <2>1, <2>2, EndsNext
<1>13. e[11] = e[10] + 135
  <2>1. 11 \in 1 .. Len(t) /\ 10 = 11 - 1 /\ 10 \in Nat
    BY <1>1
  <2>2. t[11][1] = 135
    BY DEF IsSniHello
  <2> QED BY <2>1, <2>2, EndsNext, SMTT(30)
<1>14. e[12] = e[11] + 32
  <2>1. 12 \in 1 .. Len(t) /\ 11 = 12 - 1 /\ 11 \in Nat
    BY <1>1
  <2>2. t[12][1] = 32
    BY DEF IsSniHello
  <2> QED BY <2>1, <2>2, EndsNext
<1>15. e[13] = e[12] + 2
  <2>1. 13 \in 1 .. Len(t) /\ 12 = 13 - 1 /\ 12 \in Nat
    BY <1>1
  <2>2. t[13][1] = 2
    BY DEF IsSniHello
  <2> QED BY <2>1, <2>2, EndsNext
<1>16. e[14] = e[13] + 2
  <2>1. 14 \in 1 .. Len(t) /\ 13 = 14 - 1 /\ 13 \in Nat
    BY <1>1
  <2>2. t[14][1] = 2
    BY DEF IsSniHello
  <2> QED BY <2>1, <2>2, EndsNext
<1>17. e[15] = e[14] + z
  <2>1. 15 \in 1 .. Len(t) /\ 14 = 15 - 1 /\ 14 \in Nat
    BY <1>1
  <2>2. t[15][1] = z
    BY DEF IsSniHello
  <2> QED BY <2>1, <2>2, EndsNext
<1>80. Size(t) = e[15]
  BY DEF Size
<1> HIDE DEF e
<1>81. e[1] = 11 /\ e[2] = 43 /\ e[3] = 44 /\ e[4] = 76 /\ e[5] = 120
  BY <1>2, <1>3, <1>4, <1>5, <1>6, <1>7
<1>82. e[6] = 122 /\ e[7] = 124 /\ e[8] = 125 /\ e[9] = 127 /\ e[10] = 127 + l
  BY <1>81, <1>8, <1>9, <1>10, <1>11, <1>12
<1>83. e[11] = 262 + l /\ e[12] = 294 + l /\ e[13] = 296 + l
  BY <1>82, <1>13, <1>14, <1>15
<1>84. e[14] = 298 + l /\ e[15] = 298 + l + z
  BY <1>83, <1>16, <1>17
<1>85. FieldAt(t, 11, 32) = rnd
  <2>1. 2 \in 1 .. Len(t) /\ 1 = 2 - 1 /\ 32 \in Nat \ {0}
    BY <1>1
  <2>2. t[2][1] = 32 /\ t[2][2] = rnd
    BY DEF IsSniHello
  <2>3. Ends(t)[2 - 1] = 11
    BY <1>81, <1>82, <1>83 DEF e
  <2>4. IsField(t, 2, 11, 32, rnd)
    BY <2>1, <2>2, <2>3 DEF IsField
  <2> QED BY <2>4, FieldFound
<1>86. FieldAt(t, 44, 32) = sess
  <2>1. 4 \in 1 .. Len(t) /\ 3 = 4 - 1 /\ 32 \in Nat \ {0}
    BY <1>1
  <2>2. t[4][1] = 32 /\ t[4][2] = sess
    BY DEF IsSniHello
  <2>3. Ends(t)[4 - 1] = 44
    BY <1>81, <1>82, <1>83 DEF e
  <2>4. IsField(t, 4, 44, 32, sess)
    BY <2>1, <2>2, <2>3 DEF IsField
  <2> QED BY <2>4, FieldFound
<1>87. FieldAt(t, 125, 2) = l
  <2>1. 9 \in 1 .. Len(t) /\ 8 = 9 - 1 /\ 2 \in Nat \ {0}
    BY <1>1
  <2>2. t[9][1] = 2 /\ t[9][2] = l
    BY DEF IsSniHello
  <2>3. Ends(t)[9 - 1] = 125
    BY <1>81, <1>82, <1>83 DEF e
  <2>4. IsField(t, 9, 125, 2, l)
    BY <2>1, <2>2, <2>3 DEF IsField
  <2> QED BY <2>4, FieldFound
<1>88. l > 0 => FieldAt(t, 127, l) = sni
  <2>1. SUFFICES ASSUME l > 0 PROVE FieldAt(t, 127, l) = sni
    OBVIOUS
  <2>2. 10 \in 1 .. Len(t) /\ 9 = 10 - 1 /\ l \in Nat \ {0}
    BY <1>1, <2>1
  <2>3. t[10][1] = l /\ t[10][2] = sni
    BY DEF IsSniHello
  <2>4. Ends(t)[10 - 1] = 127
    BY <1>82 DEF e
  <2>5. IsField(t, 10, 127, l, sni)
    BY <2>2, <2>3, <2>4 DEF IsField
  <2> QED BY <2>5, FieldFound
<1>89. FieldAt(t, 262 + l, 32) = key
  <2>1. 12 \in 1 .. Len(t) /\ 11 = 12 - 1 /\ 32 \in Nat \ {0}
    BY <1>1
  <2>2. t[12][1] = 32 /\ t[12][2] = key
    BY DEF IsSniHello
  <2>3. Ends(t)[12 - 1] = 262 + l
    BY <1>81, <1>82, <1>83 DEF e
  <2>4. IsField(t, 12, 262 + l, 32, key)
    BY <2>1, <2>2, <2>3 DEF IsField
  <2> QED BY <2>4, FieldFound
<1> QED BY <1>80, <1>84, <1>85, <1>86, <1>87, <1>88, <1>89

\* The same for the server template.
LEMMA AppHelloRead ==
  ASSUME NEW t \in Seq(Fields), Len(t) = 10, NEW rnd, NEW sess, NEW key, NEW app, NEW l \in Nat \ {0},
         IsAppHello(t, rnd, sess, key, app, l)
  PROVE  /\ FieldAt(t, 11, 32) = rnd /\ FieldAt(t, 44, 32) = sess /\ FieldAt(t, 95, 32) = key
         /\ FieldAt(t, 138, l) = app /\ Size(t) = 138 + l
<1> DEFINE e == Ends(t)
<1>1. \A i \in 1 .. 10 : i \in 1 .. Len(t)
  BY SeqParts
<1>2. e[0] = 0
  BY EndsSteps
<1>3. e[1] = e[0] + 11
  <2>1. 1 \in 1 .. Len(t) /\ 0 = 1 - 1 /\ 0 \in Nat
    BY <1>1
  <2>2. t[1][1] = 11
    BY DEF IsAppHello
  <2> QED BY <2>1, <2>2, EndsNext
<1>4. e[2] = e[1] + 32
  <2>1. 2 \in 1 .. Len(t) /\ 1 = 2 - 1 /\ 1 \in Nat
    BY <1>1
  <2>2. t[2][1] = 32
    BY DEF IsAppHello
  <2> QED BY <2>1, <2>2, EndsNext
<1>5. e[3] = e[2] + 1
  <2>1. 3 \in 1 .. Len(t) /\ 2 = 3 - 1 /\ 2 \in Nat
    BY <1>1
  <2>2. t[3][1] = 1
    BY DEF IsAppHello
  <2> QED BY <2>1, <2>2, EndsNext
<1>6. e[4] = e[3] + 32
  <2>1. 4 \in 1 .. Len(t) /\ 3 = 4 - 1 /\ 3 \in Nat
    BY <1>1
  <2>2. t[4][1] = 32
    BY DEF IsAppHello
  <2> QED BY <2>1, <2>2, EndsNext
<1>7. e[5] = e[4] + 19
  <2>1. 5 \in 1 .. Len(t) /\ 4 = 5 - 1 /\ 4 \in Nat
    BY <1>1
  <2>2. t[5][1] = 19
    BY DEF IsAppHello
  <2> QED BY <2>1, <2>2, EndsNext
<1>8. e[6] = e[5] + 32
  <2>1. 6 \in 1 .. Len(t) /\ 5 = 6 - 1 /\ 5 \in Nat
    BY <1>1
  <2>2. t[6][1] = 32
    BY DEF IsAppHello
  <2> QED BY <2>1, <2>2, EndsNext
<1>9. e[7] = e[6] + 6
  <2>1. 7 \in 1 .. Len(t) /\ 6 = 7 - 1 /\ 6 \in Nat
    BY <1>1
  <2>2. t[7][1] = 6
    BY DEF IsAppHello
  <2> QED BY <2>1, <2>2, EndsNext
<1>10. e[8] = e[7] + 3
  <2>1. 8 \in 1 .. Len(t) /\ 7 = 8 - 1 /\ 7 \in Nat
    BY <1>1
  <2>2. t[8][1] = 3
    BY DEF IsAppHello
  <2> QED BY <2>1, <2>2, EndsNext
<1>11. e[9] = e[8] + 2
  <2>1. 9 \in 1 .. Len(t) /\ 8 = 9 - 1 /\ 8 \in Nat
    BY <1>1
  <2>2. t[9][1] = 2
    BY DEF IsAppHello
  <2> QED BY <2>1, <2>2, EndsNext
<1>12. e[10] = e[9] + l
  <2>1. 10 \in 1 .. Len(t) /\ 9 = 10 - 1 /\ 9 \in Nat
    BY <1>1
  <2>2. t[10][1] = l
    BY DEF IsAppHello
  <2> QED BY <2>1, <2>2, EndsNext
<1>80. Size(t) = e[10]
  BY DEF Size
<1> HIDE DEF e
<1>81. e[1] = 11 /\ e[2] = 43 /\ e[3] = 44 /\ e[4] = 76 /\ e[5] = 95
  BY <1>2, <1>3, <1>4, <1>5, <1>6, <1>7
<1>82. e[6] = 127 /\ e[7] = 133 /\ e[8] = 136 /\ e[9] = 138 /\ e[10] = 138 + l
  BY <1>81, <1>8, <1>9, <1>10, <1>11, <1>12
<1>85. FieldAt(t, 11, 32) = rnd
  <2>1. 2 \in 1 .. Len(t) /\ 1 = 2 - 1 /\ 32 \in Nat \ {0}
    BY <1>1
  <2>2. t[2][1] = 32 /\ t[2][2] = rnd
    BY DEF IsAppHello
  <2>3. Ends(t)[2 - 1] = 11
    BY <1>81, <1>82 DEF e
  <2>4. IsField(t, 2, 11, 32, rnd)
    BY <2>1, <2>2, <2>3 DEF IsField
  <2> QED BY <2>4, FieldFound
<1>86. FieldAt(t, 44, 32) = sess
  <2>1. 4 \in 1 .. Len(t) /\ 3 = 4 - 1 /\ 32 \in Nat \ {0}
    BY <1>1
  <2>2. t[4][1] = 32 /\ t[4][2] = sess
    BY DEF IsAppHello
  <2>3. Ends(t)[4 - 1] = 44
    BY <1>81, <1>82 DEF e
  <2>4. IsField(t, 4, 44, 32, sess)
    BY <2>1, <2>2, <2>3 DEF IsField
  <2> QED BY <2>4, FieldFound
<1>87. FieldAt(t, 95, 32) = key
  <2>1. 6 \in 1 .. Len(t) /\ 5 = 6 - 1 /\ 32 \in Nat \ {0}
    BY <1>1
  <2>2. t[6][1] = 32 /\ t[6][2] = key
    BY DEF IsAppHello
  <2>3. Ends(t)[6 - 1] = 95
    BY <1>81, <1>82 DEF e
  <2>4. IsField(t, 6, 95, 32, key)
    BY <2>1, <2>2, <2>3 DEF IsField
  <2> QED BY <2>4, FieldFound
<1>88. FieldAt(t, 138, l) = app
  <2>1. 10 \in 1 .. Len(t) /\ 9 = 10 - 1 /\ l \in Nat \ {0}
    BY <1>1
  <2>2. t[10][1] = l /\ t[10][2] = app
    BY DEF IsAppHello
  <2>3. Ends(t)[10 - 1] = 138
    BY <1>81, <1>82 DEF e
  <2>4. IsField(t, 10, 138, l, app)
    BY <2>1, <2>2, <2>3 DEF IsField
  <2> QED BY <2>4, FieldFound
<1> QED BY <1>80, <1>82, <1>85, <1>86, <1>87, <1>88

\* Any contents of the client template are read back.
LEMMA ClientHelloRead ==
  ASSUME NEW rnd \in Int, NEW sess \in Int, NEW sni \in Int, NEW key \in Int, NEW l \in 0 .. MaxSni,
         NEW t, t = ClientHelloWith(rnd, sess, sni, l, key)
  PROVE  /\ Size(t) = 517
         /\ l > 0 => ParseClientHello(t) = [rnd |-> rnd, sess |-> sess, sni |-> sni, key |-> key]
<1> DEFINE z == MaxSni - l
<1>1. t = SniHello(rnd, sess, sni, l, key, z)
  BY DEF ClientHelloWith, SniHello
<1>2. l \in Nat /\ z \in Nat /\ l + z = 219
  BY DEF MaxSni
<1> HIDE DEF z
<1>3. t \in Seq(Fields) /\ Len(t) = 15 /\ IsSniHello(t, rnd, sess, sni, l, key, z)
  BY <1>1, <1>2, SniHelloMade
<1>4. /\ FieldAt(t, 11, 32) = rnd /\ FieldAt(t, 44, 32) = sess /\ FieldAt(t, 125, 2) = l
      /\ l > 0 => FieldAt(t, 127, l) = sni
      /\ FieldAt(t, 262 + l, 32) = key /\ Size(t) = 298 + l + z
  BY <1>2, <1>3, SniHelloRead
<1>5. Size(t) = 517
  BY <1>2, <1>4
<1>6. l > 0 => ParseClientHello(t) = [rnd |-> rnd, sess |-> sess, sni |-> sni, key |-> key]
  BY <1>4, <1>5 DEF ParseClientHello
<1> QED BY <1>5, <1>6

\* Any contents of the server template are read back, unless they are too short.
LEMMA ServerHelloRead ==
  ASSUME NEW rnd \in Int, NEW sess \in Int, NEW key \in Int, NEW app \in Int, NEW l \in Nat \ {0},
         NEW t, t = ServerHelloWith(rnd, sess, key, app, l)
  PROVE  ParseServerHello(t) = IF l < 21 THEN Rejected
                               ELSE [rnd |-> rnd, sess |-> sess, key |-> key, app |-> app]
<1>1. t = AppHello(rnd, sess, key, app, l)
  BY DEF ServerHelloWith, AppHello
<1>2. t \in Seq(Fields) /\ Len(t) = 10 /\ IsAppHello(t, rnd, sess, key, app, l)
  <2>1. l \in Nat
    OBVIOUS
  <2> QED BY <1>1, <2>1, AppHelloMade
<1>3. /\ FieldAt(t, 11, 32) = rnd /\ FieldAt(t, 44, 32) = sess /\ FieldAt(t, 95, 32) = key
      /\ FieldAt(t, 138, l) = app /\ Size(t) = 138 + l
  BY <1>2, AppHelloRead
<1>4. Size(t) - 138 = l /\ (Size(t) >= 159 <=> ~(l < 21))
  BY <1>3
<1>5. ServerHelloWith(rnd, sess, key, app, l) = t
  OBVIOUS
<1> QED BY <1>3, <1>4, <1>5 DEF ParseServerHello

\* TemplateRoundTrip holds of any lengths.
LEMMA TemplateHolds ==
  ASSUME hello \in HelloInputs
  PROVE  TemplateRoundTrip
<1>1. SUFFICES ASSUME hello.kind = "template" PROVE TemplateRoundTrip
  BY DEF TemplateRoundTrip
<1> DEFINE l == hello.sni
           m == hello.app
           t == ClientHelloWith(1, 2, 3, l, 4)
           r == ServerHelloWith(5, 6, 7, 8, m)
<1>2. l \in 0 .. MaxSni /\ m \in APPS
  <2>1. hello \in [kind : {"template"}, sni : 0 .. MaxSni, app : APPS] \/ hello.kind = "built"
    BY DEF HelloInputs
  <2> QED BY <1>1, <2>1
<1>3. TemplateRoundTrip <=>
        /\ Size(t) = 517
        /\ l > 0 => ParseClientHello(t) = [rnd |-> 1, sess |-> 2, sni |-> 3, key |-> 4]
        /\ ParseServerHello(r) = IF m < 21 THEN Rejected
                                ELSE [rnd |-> 5, sess |-> 6, key |-> 7, app |-> 8]
  BY <1>1 DEF TemplateRoundTrip
<1>4. m \in Nat \ {0}
  <2> HIDE DEF m
  <2>1. APPS \subseteq Nat \ {0}
    BY HelloAssumption DEF HelloAssumption
  <2> QED BY <1>2, <2>1
<1> HIDE DEF l, m
<1>5. Size(t) = 517 /\ (l > 0 => ParseClientHello(t) = [rnd |-> 1, sess |-> 2, sni |-> 3, key |-> 4])
  BY <1>2, ClientHelloRead
<1>6. ParseServerHello(r) = IF m < 21 THEN Rejected
                            ELSE [rnd |-> 5, sess |-> 6, key |-> 7, app |-> 8]
  BY <1>4, ServerHelloRead
<1> QED BY <1>3, <1>5, <1>6

\* For every length of the SNI the client hello has 517 bytes, and for every length of the
\* application data from 21 on the template parsers return what was put in; a shorter reply is
\* refused.
THEOREM TemplatesRead == HSpec => []TemplateRoundTrip
BY HelloTyped, TemplateHolds, PTL
=============================================================================
