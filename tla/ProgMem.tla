------------------------------- MODULE ProgMem -------------------------------
(***************************************************************************)
(* The program memory, ram64_memory_v3.v: a block RAM with one write port  *)
(* and one read port, whose output register makes a word available one     *)
(* edge after its address.  cpu.v gives it addresses one bit wider than    *)
(* its own (VEBPF_PROG_ADDRESS_WIDTH and ..._REDUCED), which drop the top. *)
(***************************************************************************)
EXTENDS Integers

CONSTANT PgmBits    \* ADDRESS_SIZE, 9 in cpu.v

VARIABLES
  pgm,         \* the words
  pgm_dat_r    \* the output register

PgmIndex(a) == a % 2^PgmBits

\* One rising edge of clk; rd_enable is always 1.  A word written on the same edge
\* is not yet seen by the read.
Edge(rst, write_enable, wr_address, data_in, rd_address) ==
  /\ pgm' = IF ~rst /\ write_enable THEN [pgm EXCEPT ![PgmIndex(wr_address)] = data_in]
            ELSE pgm
  /\ pgm_dat_r' = IF rst THEN pgm_dat_r ELSE pgm[PgmIndex(rd_address)]
=============================================================================
