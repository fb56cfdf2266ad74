--------------------------- MODULE MC_ConfMsgServer ---------------------------
(* Instantiates ConfMsgServer for TLC: two clients, two enclave threads.  *)
EXTENDS ConfMsgServer, TLC

CONSTANTS c1, c2, t1, t2, n0, sid0

MCClients == {c1, c2}
MCThreads == {t1, t2}

\* Two of the random initial dynamic IVs: c1's is all zeros; c2's ends in
\* 00 ff ff, so its first IncrementIV carries through two bytes into a
\* third (00 ff ff becomes 01 00 00).
MCIVStart ==
    (c1 :> [i \in 1 .. 12 |-> 0]) @@
    (c2 :> [i \in 1 .. 12 |-> IF i > 10 THEN 255 ELSE 0])

=============================================================================
