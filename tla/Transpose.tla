----------------------------- MODULE Transpose -----------------------------
(***************************************************************************)
(* The matrix transposes of src/cachelab/trans.c, for the sizes they are   *)
(* written for, and the misses they cost in the cache they are rated on.   *)
(* A[i][j] is the pair <<i, j>>; a local variable or an element of B that  *)
(* has not been written is Unset.                                          *)
(*                                                                         *)
(* A step is one row of a block, or one element of trans: a sequence of    *)
(* moves between the matrices and the local variables.                     *)
(*                                                                         *)
(* The driver is not in the repository: its rows are taken to be of        *)
(* M integers of 4 bytes in A and N in B, and both matrices to start at    *)
(* the same offset of the cache, of which the comment on the conflict      *)
(* misses of (4,0), (12,8) speaks.                                         *)
(***************************************************************************)
EXTENDS Integers, SequencesExt

CONSTANT Unset

VARIABLES
  routine, size,     \* which transpose, of which matrices
  B, local,          \* the target, and the local variables
  ii, jj, inner,     \* the loops: the block, and the row in it
  lines, missed      \* the cache, and its misses so far

transVars == <<routine, size, B, local, ii, jj, inner, lines, missed>>

M == size[1]

N == size[2]

Locals == {"temp", "temp1", "temp2", "temp3", "temp4", "temp5", "temp6", "temp7",
           "j", "register"}

Start ==
  /\ B = [e \in (0 .. M - 1) \X (0 .. N - 1) |-> Unset]
  /\ local = [x \in Locals |-> Unset]
  /\ ii = 0 /\ jj = 0 /\ inner = 0
  /\ lines = [set \in 0 .. 31 |-> Unset]
  /\ missed = 0

TransInit ==
  /\ \/ routine = "transpose_submit" /\ size \in {<<32, 32>>, <<61, 67>>, <<64, 64>>}
     \/ routine = "trans" /\ size = <<32, 32>>
  /\ Start

NoMatrix == routine = "none" /\ size = <<0, 0>> /\ Start

-----------------------------------------------------------------------------
(* A load of A[row][col] and those after it, a store to B[col][row] ...    *)
Loads(names, row, col) ==
  [k \in DOMAIN names |->
     [op |-> "load", name |-> names[k], at |-> <<row, col + k - 1>>]]

Stores(names, row, col) ==
  [k \in DOMAIN names |->
     [op |-> "store", name |-> names[k], at |-> <<col + k - 1, row>>]]

Copy(names, row, col) == Loads(names, row, col) \o Stores(names, row, col)

(* 1KB direct mapped, 32 bytes a line.                                     *)
LineOf(m) ==
  LET width == IF m.op = "load" THEN M ELSE N
  IN  <<m.op, (m.at[1] * width + m.at[2]) \div 8>>

Moved(c, m) ==
  LET line == LineOf(m)
      set  == line[2] % 32
      d == IF m.op = "load" THEN [c EXCEPT !.local[m.name] = m.at]
                            ELSE [c EXCEPT !.B[m.at] = c.local[m.name]]
  IN  IF c.lines[set] = line THEN d
      ELSE [d EXCEPT !.lines[set] = line, !.missed = @ + 1]

Do(moves) ==
  LET c == FoldLeft(Moved, [B |-> B, local |-> local, lines |-> lines,
                            missed |-> missed], moves)
  IN  /\ B' = c.B /\ local' = c.local
      /\ lines' = c.lines /\ missed' = c.missed

(* The next row of the block, the next block of the row of blocks.         *)
Least(a, b) == IF a < b THEN a ELSE b

Advance(rows, block) ==
  /\ inner' = (inner + 1) % rows
  /\ jj' = IF inner' > 0 THEN jj ELSE IF jj + block < M THEN jj + block ELSE 0
  /\ ii' = IF inner' = 0 /\ jj' = 0 THEN ii + block ELSE ii
  /\ UNCHANGED <<routine, size>>

Done == ii >= N

-----------------------------------------------------------------------------
BlockSize_Same == 16

BlockSize == IF M = 32 THEN 8 ELSE 16

(* transpose_submit, 32 x 32 and 61 x 67.  The element on the diagonal is  *)
(* kept in temp, its place in temp3, until the row is done; a row below    *)
(* the last column has none and writes the last one again.                 *)
BlockRow ==
  LET row   == ii + inner
      temp3 == Least(row, M - 1)
      Column(col) == IF col = row THEN Loads(<<"temp">>, row, col)
                                  ELSE Copy(<<"register">>, row, col)
      kept  == IF ii = jj THEN Stores(<<"temp">>, temp3, temp3) ELSE <<>>
  IN  /\ routine = "transpose_submit" /\ M \in {32, 61} /\ ~Done
      /\ Do(FlattenSeq([k \in 1 .. Least(BlockSize, M - jj) |-> Column(jj + k - 1)])
              \o kept)
      /\ Advance(Least(BlockSize, N - ii), BlockSize)

(* 64 x 64, in blocks of 8: five elements of the right half are read       *)
(* first; then come the left half, the right half from the second row on,  *)
(* and the five.                                                           *)
First4 == <<"temp", "temp1", "temp2", "temp3">>

Second4 == <<"temp4", "temp5", "temp6", "temp7">>

Fill == Loads(First4, ii, jj + 4) \o Loads(<<"j">>, ii + 1, jj + 7)

Drain_Four == Stores(First4, ii, jj + 4)

Drain == Stores(First4, ii, jj + 4) \o Stores(<<"j">>, ii + 1, jj + 7)

Moves64 ==
  CASE inner = 0          -> Fill
    [] inner \in 1 .. 8   -> Copy(Second4, ii + inner - 1, jj)
    [] inner = 9          -> Copy(Front(Second4), ii + 1, jj + 4)
    [] inner \in 10 .. 15 -> Copy(Second4, ii + inner - 8, jj + 4)
    [] inner = 16         -> Drain

Rows64 ==
  /\ routine = "transpose_submit" /\ M = 64 /\ ~Done
  /\ Do(Moves64)
  /\ Advance(17, 8)

(* trans takes the matrix for a square one: row ii has N elements, not M.  *)
Element ==
  /\ routine = "trans" /\ ii < M
  /\ Do(Copy(<<"register">>, ii, jj))
  /\ jj' = (jj + 1) % N
  /\ ii' = IF jj' = 0 THEN ii + 1 ELSE ii
  /\ UNCHANGED <<routine, size, inner>>

TransNext == BlockRow \/ Rows64 \/ Element

-----------------------------------------------------------------------------
(* is_transpose, which both ENSURE, and after every block for those done:  *)
(* whatever was kept in a local variable meanwhile, and the diagonal       *)
(* written several times.                                                  *)
Height == IF routine = "trans" THEN 1 ELSE IF M = 61 THEN 16 ELSE 8

Transposed ==
  inner = 0 => \A e \in DOMAIN B :
    e[2] < ii \/ (e[2] < ii + Height /\ e[1] < jj) => B[e] = <<e[2], e[1]>>

(* "evaluated by counting the number of misses on a 1KB direct mapped      *)
(* cache with a block size of 32 bytes": transpose_submit fetches a line   *)
(* less than twice on average.                                             *)
FewMisses == routine = "transpose_submit" => missed < (M * N) \div 2
=============================================================================
