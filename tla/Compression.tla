----------------------------- MODULE Compression -----------------------------
(***************************************************************************)
(* Portfolio compression: one bank proposes terms in an account and        *)
(* thereby approves them, the other approves, and with the second approval *)
(* the proposal counts as executed.  A proposal may be replaced at any     *)
(* time, and an approval names the account but not the terms in it.        *)
(* Handlers that belong to other accounts may write over a proposal: see   *)
(* Overwrite.                                                              *)
(***************************************************************************)
EXTENDS Accounts, Sequences

CONSTANTS
  Banks,              \* keys of the banks
  ProposalTerms,      \* nonce, risk proof hash and the two reductions
  ProposalAccounts,   \* program-owned accounts, none of them checked further
  MaxRounds           \* bound on the proposals per account

ASSUME CompressionAssumption ==
  /\ Banks \subseteq Nat
  /\ 0 \notin Banks
  /\ ProposalTerms \subseteq Nat \ {0}
  /\ MaxRounds \in Nat

VARIABLES
  space,       \* space[x]: how the data length of x compares with CompressionProposal::LEN
  proposal,    \* proposal[x]: the CompressionProposal in account x
  round,       \* history: the number of proposals made in x
  signed,      \* history: the banks that signed for the present proposal of x
  executions,  \* history: executions[x], the round and the terms of each execution
  overwritten  \* history: the accounts written over since their last proposal

compressionVars == <<space, proposal, round, signed, executions, overwritten>>

-----------------------------------------------------------------------------
(* Data.  The timestamp is stored and never read: left out. *)

NoTerms == 0

\* Mutated: the terms of the call are not stored.
NewProposalWithoutTerms(proposer, counterparty, terms) ==
  [is_initialized |-> TRUE, bank_a |-> proposer, bank_b |-> counterparty,
   terms |-> NoTerms, a_approved |-> TRUE, b_approved |-> FALSE, executed |-> FALSE]

NewProposal(proposer, counterparty, terms) ==
  [is_initialized |-> TRUE, bank_a |-> proposer, bank_b |-> counterparty,
   terms |-> terms, a_approved |-> TRUE, b_approved |-> FALSE, executed |-> FALSE]

\* The zero bytes of an account nothing was written to.
BlankProposal ==
  [is_initialized |-> FALSE, bank_a |-> 0, bank_b |-> 0,
   terms |-> NoTerms, a_approved |-> FALSE, b_approved |-> FALSE, executed |-> FALSE]

Proposals ==
  [is_initialized : BOOLEAN, bank_a : Banks \cup {0}, bank_b : Banks \cup {0},
   terms : ProposalTerms \cup {NoTerms},
   a_approved : BOOLEAN, b_approved : BOOLEAN, executed : BOOLEAN]

-----------------------------------------------------------------------------
Init ==
  /\ space = [x \in ProposalAccounts |-> "none"]
  /\ proposal = [x \in ProposalAccounts |-> BlankProposal]
  /\ round = [x \in ProposalAccounts |-> 0]
  /\ signed = [x \in ProposalAccounts |-> {}]
  /\ executions = [x \in ProposalAccounts |-> <<>>]
  /\ overwritten = {}

\* An account is created for the program, zeroed, with a length of its creator's.
Allocate(x) ==
  /\ space[x] = "none"
  /\ \E size \in Spaces \ {"none"} : space' = [space EXCEPT ![x] = size]
  /\ UNCHANGED <<proposal, round, signed, executions, overwritten>>

\* process_propose_compression: whatever the account held is replaced, an
\* executed proposal included.  (A longer account is read as no proposal.)
Propose(x, proposer, counterparty, terms) ==
  /\ VerifyOwner(space[x])
  /\ Writable(space[x])
  /\ round[x] < MaxRounds
  /\ proposal' = [proposal EXCEPT ![x] = NewProposal(proposer, counterparty, terms)]
  /\ round' = [round EXCEPT ![x] = @ + 1]
  /\ signed' = [signed EXCEPT ![x] = {proposer}]
  /\ overwritten' = overwritten \ {x}
  /\ UNCHANGED <<space, executions>>

\* process_init_config and process_publish_attestation, handed a proposal: the
\* sides and the terms become anything, the approvals and whether it was
\* executed come after them and stay.
Overwrite(x) ==
  /\ VerifyOwner(space[x])
  /\ \E k, l \in Banks, terms \in ProposalTerms :
       proposal' = [proposal EXCEPT ![x] =
         [@ EXCEPT !.is_initialized = TRUE, !.bank_a = k, !.bank_b = l, !.terms = terms]]
  /\ overwritten' = overwritten \cup {x}
  /\ UNCHANGED <<space, round, signed, executions>>

\* Mutated: each approval takes the place of the other.
ApprovedByLast(p, approver) ==
  [p EXCEPT !.a_approved = approver = p.bank_a, !.b_approved = approver # p.bank_a]

\* The approval of a bank that is both sides counts for the first.
Approved(p, approver) ==
  IF approver = p.bank_a THEN [p EXCEPT !.a_approved = TRUE]
                         ELSE [p EXCEPT !.b_approved = TRUE]

\* Mutated: one approval is enough.
CompleteWithOne(p) == p.a_approved \/ p.b_approved

Complete(p) == p.a_approved /\ p.b_approved

\* Mutated: an executed proposal may be approved again.
OpenForever(p) == p.executed \in BOOLEAN

Open(p) == ~p.executed

\* process_approve_compression
Approve(x, approver) ==
  LET p == Approved(proposal[x], approver)
  IN
  /\ VerifyOwner(space[x])
  /\ Readable(space[x])
  /\ Open(proposal[x])
  /\ approver \in {proposal[x].bank_a, proposal[x].bank_b}
  /\ proposal' = [proposal EXCEPT ![x] = [p EXCEPT !.executed = Complete(p)]]
  /\ signed' = [signed EXCEPT ![x] = @ \cup {approver}]
  /\ executions' = [executions EXCEPT ![x] =
       IF Complete(p) THEN Append(@, [round |-> round[x], terms |-> p.terms]) ELSE @]
  /\ UNCHANGED <<space, round, overwritten>>

Next ==
  \E x \in ProposalAccounts :
    \/ Allocate(x)
    \/ Overwrite(x)
    \/ \E k \in Banks : Approve(x, k)
    \/ \E k, l \in Banks, t \in ProposalTerms : Propose(x, k, l, t)

Spec == Init /\ [][Next]_compressionVars

\* A party of a proposal that stays open sends its approval.
FairSpec ==
  /\ Spec
  /\ \A x \in ProposalAccounts, k \in Banks : WF_compressionVars(Approve(x, k))

-----------------------------------------------------------------------------
(* Properties. *)

\* The variables keep their types.
TypeOK ==
  /\ space \in [ProposalAccounts -> Spaces]
  /\ proposal \in [ProposalAccounts -> Proposals]
  /\ round \in [ProposalAccounts -> 0..MaxRounds]
  /\ signed \in [ProposalAccounts -> SUBSET Banks]
  /\ executions \in [ProposalAccounts -> Seq([round : Nat, terms : ProposalTerms])]
  /\ overwritten \subseteq ProposalAccounts

\* "Both parties must approve" (instruction.rs:153): a proposal is executed
\* only after two different banks, its two sides, signed for it since it was
\* made; approvals of a proposal it replaced do not count.  (Whoever writes
\* over the sides keeps the approvals: that proposal is excepted.)
ExecutedByBoth ==
  \A x \in ProposalAccounts \ overwritten :
    proposal[x].executed =>
      /\ proposal[x].bank_a # proposal[x].bank_b
      /\ {proposal[x].bank_a, proposal[x].bank_b} \subseteq signed[x]

\* No proposal is executed twice, whoever approves again and whatever is
\* written over it, and what was executed are the terms that stand in the
\* account while it says executed, unless they were written over.
ExecutedOnce ==
  \A x \in ProposalAccounts :
    LET done == executions[x]
    IN  /\ \A i, j \in 1..Len(done) : done[i].round = done[j].round => i = j
        /\ proposal[x].executed /\ x \notin overwritten =>
             /\ done # <<>>
             /\ done[Len(done)] = [round |-> round[x], terms |-> proposal[x].terms]

\* A proposal between two banks that is neither replaced nor written over is
\* eventually executed: no order of the approvals leaves it waiting.
EventuallyExecuted ==
  \A x \in ProposalAccounts :
    (/\ Readable(space[x]) /\ proposal[x].is_initialized
     /\ proposal[x].bank_a # proposal[x].bank_b)
      ~> \/ proposal[x].executed
         \/ proposal[x].bank_a = proposal[x].bank_b
         \/ x \in overwritten

=============================================================================
