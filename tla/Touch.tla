-------------------------------- MODULE Touch --------------------------------
(***************************************************************************)
(* src/src/touch.cpp: is_addr_reachable tries to connect to a web port of  *)
(* an address, and waits for the answer in select.                         *)
(***************************************************************************)
EXTENDS Integers

CONSTANTS
    UINT_LIMIT, \* the numbers of uint32_t, 2^32
    NEVER

ASSUME LimitAssumption == UINT_LIMIT \in Nat \ {0}

\* The time-out handed to select, in microseconds: all of it as tv_usec, in
\* 32 bits, and its seconds once more as tv_sec.  Linux accepts a tv_usec of
\* more than a second and adds the two.
Wait(timeout_in_ms) ==
    (1000000 * (timeout_in_ms \div 1000)) + ((1000 * timeout_in_ms) % UINT_LIMIT)

\* The answer of the peer to connect: it accepts after some microseconds, 0 if
\* at once, or it refuses or is silent (NEVER).
is_addr_reachable(answer, timeout_in_ms) ==
    answer # NEVER /\ (answer = 0 \/ answer < Wait(timeout_in_ms))
=============================================================================
