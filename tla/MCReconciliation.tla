-------------------------- MODULE MCReconciliation --------------------------
(***************************************************************************)
(* Model checking of Reconciliation: a pair of banks, with batches of      *)
(* every length from none to one too many, the zero hash among their       *)
(* commitments, and what other handlers may leave in their account.        *)
(***************************************************************************)
EXTENDS Reconciliation

MCReconcilers == {<<1, 2>>, <<2, 1>>}

MCBatches == {<<>>, <<7, 7, 7>>, <<7>>, <<0>>} \cup {<<g, h>> : g, h \in {0, 7}}

\* Both sides said to have submitted more trades than there is room for, and
\* flags that are no flags.
MCWritings ==
  {[bank_a |-> 2, bank_b |-> 1, curve_date |-> 1, num_trades |-> n,
    a_submitted |-> TRUE, b_submitted |-> TRUE, decodes |-> n # 1,
    front |-> <<7>>] : n \in {1, 2, 3}}

=============================================================================
