------------------------------ MODULE Accounts ------------------------------
(***************************************************************************)
(* How the on-chain program reaches its accounts: the address an           *)
(* instruction must name, and what the helpers of processor.rs make of an  *)
(* account's owner and data length.                                        *)
(*                                                                         *)
(* Public keys are natural numbers, because two derivations order them.    *)
(* An address derived from seeds is the tuple of its seeds:                *)
(* find_program_address belongs to the runtime and is taken as injective.  *)
(***************************************************************************)
EXTENDS Integers

-----------------------------------------------------------------------------
(* Space.  The program never creates or resizes an account; whoever does   *)
(* picks the length of its data, compared here with the LEN of the type    *)
(* that the instruction stores in it.                                      *)

Spaces == {"none", "short", "exact", "long"}

\* verify_owner: the account exists and belongs to the program.  It is all
\* that three handlers check of the account they write to: InitializeConfig,
\* PublishAttestation and ProposeCompression store 97, 119 and 134 bytes of
\* the caller's choice over the front of an account of any type, for nothing
\* in the bytes tells the types apart.  Each module has them as one action.
VerifyOwner(space) == space # "none"

\* read_account: try_from_slice consumes the whole slice or fails.
Readable(space) == space = "exact"

\* write_account fails only when the encoded state does not fit.
Writable(space) == space \in {"exact", "long"}

-----------------------------------------------------------------------------
(* Addresses. *)

Lower(k1, k2) == IF k1 < k2 THEN k1 ELSE k2

Higher(k1, k2) == IF k1 < k2 THEN k2 ELSE k1

CurvePda(currency, business_date) == <<"curve", currency, business_date>>

\* The address process_create_swap verifies: keys in the order of the roles.
SwapPda(payer, receiver, settlement) == <<"swap", payer, receiver, settlement>>

\* The address process_submit_commitment verifies: keys in ascending order.
ReconPda(bank, counterparty, curve_date) ==
  <<"recon", Lower(bank, counterparty), Higher(bank, counterparty), curve_date>>

=============================================================================
