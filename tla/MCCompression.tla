---------------------------- MODULE MCCompression ----------------------------
(***************************************************************************)
(* Model checking of Compression: three banks, of which any two may be the *)
(* sides of a proposal in the one account, with two different terms.       *)
(***************************************************************************)
EXTENDS Compression

OneAccount == {<<"plain", 1>>}

=============================================================================
