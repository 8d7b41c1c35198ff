------------------------------ MODULE Transpose ------------------------------
(***************************************************************************)
(* The transpose functions of the cache lab (cachelab-handout/trans.c) on  *)
(* the memory they work on: int A[N][M] and int B[M][N] lie in two arrays  *)
(* that are larger (tracegen.c), so that an index past the end of a row is *)
(* the start of the next row.                                              *)
(*                                                                         *)
(* The contents of a cell of A are represented by its address.             *)
(***************************************************************************)
EXTENDS Integers, FiniteSetsExt

BLOCK == 8     \* side of a block of transpose_submit

\* A beyond the matrix is static memory that nothing writes.
Zero == -1

AtA(M, N, i, j) == IF i * M + j < N * M THEN i * M + j ELSE Zero

\* Where B[j][i] is.
AddressB(N, i, j) == j * N + i

\* The loops of transpose_submit run to the end of the block.
RoundUp(k) == ((k + BLOCK - 1) \div BLOCK) * BLOCK

\* In which iteration transpose_submit writes B[j][i]: rows of blocks, blocks,
\* rows in the block, and columns.
SubmitTime(M, i, j) ==
    ((i \div BLOCK) * (RoundUp(M) \div BLOCK) + (j \div BLOCK)) * BLOCK * BLOCK
        + ((i % BLOCK) * BLOCK + (j % BLOCK))

\* Who writes address a in loops over i < height and j < width.
Writers(N, height, width, a) ==
    {ij \in {<<a - j * N, j>> : j \in 0 .. width - 1} : ij[1] \in 0 .. height - 1}

\* The contents of address a after transpose_submit: that of the last write.
transpose_submit(M, N, a) ==
    LET writers == Writers(N, RoundUp(N), RoundUp(M), a)
        last == CHOOSE w \in writers :
                    \A v \in writers : SubmitTime(M, v[1], v[2]) <= SubmitTime(M, w[1], w[2])
    IN  AtA(M, N, last[1], last[2])

\* trans and correctTrans write row by row, and nothing twice.
trans(M, N, a) ==
    LET writer == CHOOSE w \in Writers(N, N, M, a) : TRUE
    IN  AtA(M, N, writer[1], writer[2])

\* validate compares B with the result of correctTrans, which is B[j][i] = A[i][j].
SubmitIsValid(M, N) ==
    \A i \in 0 .. N - 1, j \in 0 .. M - 1 :
        transpose_submit(M, N, AddressB(N, i, j)) = AtA(M, N, i, j)

TransIsValid(M, N) ==
    \A i \in 0 .. N - 1, j \in 0 .. M - 1 :
        trans(M, N, AddressB(N, i, j)) = AtA(M, N, i, j)

=============================================================================
