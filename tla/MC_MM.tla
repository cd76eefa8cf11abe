------------------------------- MODULE MC_MM -------------------------------
(* Model-checking instance of MM for x86-64: a 32-byte header, 8-byte     *)
(* alignment.  Requests of 600 and 1620 bytes make chunks of 632 and      *)
(* 1656 = 632 + MIN_GUARD: a freed 1656 chunk sits on pass 0's bound for *)
(* a 600-byte request, so pass 1 splits it and leaves a 1024 rest, which  *)
(* a later 600-byte request (and a freed 632 chunk) takes whole; a heap of *)
(* 3000 bytes holds one 1656 and two 632 chunks before mem_sbrk is        *)
(* refused.                                                                *)
EXTENDS MM
=============================================================================
