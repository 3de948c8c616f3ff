------------------------------- MODULE Trans -------------------------------
(***************************************************************************)
(* The transposes of cache/trans.c as the moves they make, in their order. *)
(* A place is <<"A", row, column>>, <<"B", row, column>> or <<"T", k>>, an *)
(* entry of tmp; a move <<from, to>> is one assignment, a load and a store.*)
(* A is N by M, B is M by N; the indices count from 0.                     *)
(***************************************************************************)
EXTENDS Naturals, Sequences, SequencesExt

CONSTANTS
  BlockSize,   (* block_size, 8                                             *)
  Small,       (* the size trans_32x32 is written for, 32                   *)
  Large,       (* the size trans_1024x1024 is written for, 1024             *)
  TMPCOUNT     (* the entries of tmp, 256                                   *)

ASSUME TransAssumption ==
  /\ BlockSize \in Nat \ {0} /\ Small \in Nat \ {0} /\ Large \in Nat \ {0}
  /\ BlockSize * BlockSize <= TMPCOUNT /\ 4 <= TMPCOUNT

A(r, c) == <<"A", r, c>>
B(r, c) == <<"B", r, c>>
T(k) == <<"T", k>>

(* The cells of a block with corner (i, j), row by row and column by       *)
(* column; ends are exclusive.                                             *)
RowMajor(i, row_end, j, col_end) ==
  [k \in 1 .. (row_end - i) * (col_end - j) |->
     <<i + (k - 1) \div (col_end - j), j + ((k - 1) % (col_end - j))>>]

ColumnMajor(i, row_end, j, col_end) ==
  [k \in 1 .. (row_end - i) * (col_end - j) |->
     <<i + ((k - 1) % (row_end - i)), j + (k - 1) \div (row_end - i)>>]

Straight(cell) == <<A(cell[1], cell[2]), B(cell[2], cell[1])>>

trans_basic(M, N) ==
  LET cells == RowMajor(0, N, 0, M) IN [k \in DOMAIN cells |-> Straight(cells[k])]

(* Through the first four entries of tmp, as a 2 by 2 array.               *)
trans_tmp(M, N) ==
  LET cells == RowMajor(0, N, 0, M)
      Via(cell) == T(2 * (cell[1] % 2) + (cell[2] % 2))
  IN  [k \in 1 .. 2 * Len(cells) |->
         LET cell == cells[(k + 1) \div 2]
         IN  IF k % 2 = 1 THEN <<A(cell[1], cell[2]), Via(cell)>>
                          ELSE <<Via(cell), B(cell[2], cell[1])>>]

-----------------------------------------------------------------------------
(* The blocked transposes                                                  *)

OffDiagonal(i, row_end, j, col_end) ==
  LET cells == RowMajor(i, row_end, j, col_end)
  IN  [k \in DOMAIN cells |-> Straight(cells[k])]

(* Mutated form: the block is read from tmp by its own column numbers.     *)
DiagonalByTmpOff(i, row_end, j, col_end) ==
  LET out == RowMajor(i, row_end, j, col_end)
      in == ColumnMajor(i, row_end, j, col_end)
  IN  [k \in DOMAIN out |-> <<A(out[k][1], out[k][2]), T(k - 1)>>]
      \o [k \in DOMAIN in |-> <<T(k - 1), B(in[k][2], in[k][1])>>]

(* trans_1024x1024: a diagonal block goes through tmp, all of it.          *)
DiagonalByTmp(i, row_end, j, col_end) ==
  LET out == RowMajor(i, row_end, j, col_end)
      in == ColumnMajor(i, row_end, j, col_end)
      width == col_end - j
  IN  [k \in DOMAIN out |-> <<A(out[k][1], out[k][2]), T(k - 1)>>]
      \o [k \in DOMAIN in |->
            <<T((in[k][1] - i) * width + in[k][2] - j), B(in[k][2], in[k][1])>>]

(* trans_32x32: the entry on the diagonal comes after the rest of its row. *)
DiagonalLast(i, row_end, j, col_end) ==
  LET cells == RowMajor(i, row_end, j, col_end)
      width == col_end - j
      Row(r) == SelectSeq(SubSeq(cells, (r - i) * width + 1, (r - i + 1) * width),
                          LAMBDA cell : cell[1] # cell[2])
                \o << <<r, r>> >>
      order == FlattenSeq([k \in 1 .. row_end - i |-> Row(i + k - 1)])
  IN  [k \in DOMAIN order |-> Straight(order[k])]

Least(a, b) == IF a < b THEN a ELSE b

(* The blocks row by row, cut at the edges of the matrix.                  *)
Blocked(M, N, Diagonal(_, _, _, _)) ==
  LET rows == (N + BlockSize - 1) \div BlockSize
      columns == (M + BlockSize - 1) \div BlockSize
      Block(i, j) ==
        LET row_end == Least(i + BlockSize, N)
            col_end == Least(j + BlockSize, M)
        IN  IF i # j THEN OffDiagonal(i, row_end, j, col_end)
                     ELSE Diagonal(i, row_end, j, col_end)
  IN  FlattenSeq([k \in 1 .. rows * columns |->
        Block(BlockSize * ((k - 1) \div columns), BlockSize * ((k - 1) % columns))])

trans_1024x1024(M, N) == Blocked(M, N, DiagonalByTmp)

(* Mutated form: no care taken of the diagonal.                            *)
BlockedPlain(M, N) == Blocked(M, N, OffDiagonal)

trans_32x32(M, N) == Blocked(M, N, DiagonalLast)

transpose_submit(M, N) ==
  IF M = Small /\ N = Small THEN trans_32x32(M, N)
  ELSE IF M = Large /\ N = Large THEN trans_1024x1024(M, N)
  ELSE trans_basic(M, N)

-----------------------------------------------------------------------------
(* registerFunctions: func_list, the submission first.                     *)
func_list == <<"Transpose submission", "Basic transpose",
               "Transpose using the temporary array">>

Moves(f, M, N) ==
  CASE func_list[f] = "Transpose submission" -> transpose_submit(M, N)
    [] func_list[f] = "Basic transpose" -> trans_basic(M, N)
    [] func_list[f] = "Transpose using the temporary array" -> trans_tmp(M, N)

=============================================================================
