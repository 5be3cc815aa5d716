-------------------------------- MODULE Pages -------------------------------
(***************************************************************************)
(* Pages and addresses: PAGE_ROUND_UP and PAGE_ROUND_DOWN of               *)
(* loader/include/common/align.h, and u64 arithmetic.                      *)
(***************************************************************************)
EXTENDS Integers

CONSTANTS
    PAGE_SIZE,
    Wrap            \* 2^64: addresses are taken modulo Wrap

PAGE_ROUND_DOWN(bytes) == bytes - (bytes % PAGE_SIZE)
PAGE_ROUND_UP(bytes) == PAGE_ROUND_DOWN((bytes + PAGE_SIZE - 1) % Wrap)

Plus(a, b) == (a + b) % Wrap
Minus(a, b) == (a - b) % Wrap

Smaller(a, b) == IF a <= b THEN a ELSE b
Larger(a, b) == IF a >= b THEN a ELSE b
=============================================================================
