-------------------------- MODULE Compression_proofs --------------------------
(***************************************************************************)
(* What Compression guarantees for every set of banks, terms and accounts: *)
(* its types, that a proposal is executed by its two sides and nobody      *)
(* less, and once.                                                         *)
(***************************************************************************)
EXTENDS Compression, TLAPS, SequenceTheorems

-----------------------------------------------------------------------------
(* The inductive invariant.  The program keeps two flags per proposal and  *)
(* the properties speak of signatures and executions; the conjuncts below  *)
(* tie the flags to both histories.  Writing over a proposal leaves its    *)
(* flags alone, so what they say of executions stands in any account.      *)

\* Nobody can approve what an account holds before anything was written to it.
BlankUntilWritten ==
  \A x \in ProposalAccounts :
    IF proposal[x].is_initialized
    THEN proposal[x].terms \in ProposalTerms
    ELSE proposal[x] = BlankProposal

\* A proposal counts as executed while both its flags are up.
ExecutedIsComplete ==
  \A x \in ProposalAccounts : proposal[x].executed <=> Complete(proposal[x])

\* A flag is up only when its side signed, and the second flag only between
\* two different banks.
FlagsAreSigned ==
  \A x \in ProposalAccounts \ overwritten :
    /\ proposal[x].a_approved => proposal[x].bank_a \in signed[x]
    /\ proposal[x].b_approved => /\ proposal[x].bank_b \in signed[x]
                                 /\ proposal[x].bank_a # proposal[x].bank_b

\* The executions of an account are of ever later proposals, and of the
\* present one only if it says so.
RoundsRise ==
  \A x \in ProposalAccounts :
    LET done == executions[x]
    IN  /\ \A i, j \in 1..Len(done) : i < j => done[i].round < done[j].round
        /\ \A i \in 1..Len(done) :
             IF proposal[x].executed THEN done[i].round <= round[x]
                                     ELSE done[i].round < round[x]

\* The present proposal, once executed, is the last execution.
LastIsPresent ==
  \A x \in ProposalAccounts \ overwritten :
    LET done == executions[x]
    IN  proposal[x].executed =>
          /\ done # <<>>
          /\ done[Len(done)] = [round |-> round[x], terms |-> proposal[x].terms]

IInv ==
  /\ TypeOK
  /\ BlankUntilWritten
  /\ ExecutedIsComplete
  /\ FlagsAreSigned
  /\ RoundsRise
  /\ LastIsPresent

-----------------------------------------------------------------------------
\* The initial state satisfies the inductive invariant.
LEMMA InitInv == Init => IInv
  <1> SUFFICES ASSUME Init PROVE IInv
    OBVIOUS
  <1>1. BlankProposal \in Proposals
    BY DEF BlankProposal, Proposals
  <1>2. TypeOK
    BY <1>1, CompressionAssumption DEF Init, TypeOK, Spaces
  <1>3. BlankUntilWritten /\ ExecutedIsComplete /\ FlagsAreSigned
    BY DEF Init, BlankProposal, BlankUntilWritten, ExecutedIsComplete, FlagsAreSigned, Complete
  <1>4. RoundsRise /\ LastIsPresent
    BY DEF Init, BlankProposal, RoundsRise, LastIsPresent
  <1> QED
    BY <1>2, <1>3, <1>4 DEF IInv

\* Giving an account data writes none of it.
LEMMA AllocateKeepsInv ==
  ASSUME IInv, NEW x \in ProposalAccounts, Allocate(x)
  PROVE  IInv'
  <1>1. UNCHANGED <<proposal, round, signed, executions, overwritten>>
    BY DEF Allocate
  <1>2. space' \in [ProposalAccounts -> Spaces]
    BY DEF IInv, TypeOK, Allocate
  <1> QED
    BY <1>1, <1>2 DEF IInv, TypeOK, BlankUntilWritten, ExecutedIsComplete, FlagsAreSigned,
       RoundsRise, LastIsPresent

\* A proposal opens a round that nothing was executed in yet, signed by its
\* proposer alone.
LEMMA ProposeKeepsInv ==
  ASSUME IInv, NEW x \in ProposalAccounts, NEW k \in Banks, NEW l \in Banks,
         NEW t \in ProposalTerms, Propose(x, k, l, t)
  PROVE  IInv'
  <1> DEFINE new == NewProposal(k, l, t)
  <1>1. /\ proposal' = [proposal EXCEPT ![x] = new]
        /\ round' = [round EXCEPT ![x] = @ + 1]
        /\ signed' = [signed EXCEPT ![x] = {k}]
        /\ overwritten' = overwritten \ {x}
        /\ UNCHANGED <<space, executions>>
        /\ round[x] < MaxRounds
    BY DEF Propose
  <1>2. /\ new \in Proposals /\ new.is_initialized /\ new.terms = t
        /\ new.bank_a = k /\ new.a_approved /\ ~new.b_approved /\ ~new.executed
    BY DEF NewProposal, Proposals
  <1>3. /\ proposal'[x] = new /\ round'[x] = round[x] + 1 /\ signed'[x] = {k}
        /\ \A y \in ProposalAccounts \ {x} :
             proposal'[y] = proposal[y] /\ round'[y] = round[y] /\ signed'[y] = signed[y]
        /\ round[x] \in Nat
    BY <1>1, CompressionAssumption DEF IInv, TypeOK
  <1> HIDE DEF new
  <1>4. TypeOK'
    <2>1. round[x] + 1 \in 0..MaxRounds
      BY <1>1, <1>3, CompressionAssumption DEF IInv, TypeOK
    <2> QED
      BY <1>1, <1>2, <2>1 DEF IInv, TypeOK
  <1>5. BlankUntilWritten'
    BY <1>1, <1>2, <1>3 DEF IInv, BlankUntilWritten
  <1>6. ExecutedIsComplete' /\ FlagsAreSigned'
    BY <1>1, <1>2, <1>3 DEF IInv, ExecutedIsComplete, FlagsAreSigned, Complete
  <1>7. RoundsRise'
    <2>1. ASSUME NEW i \in 1..Len(executions[x]) PROVE executions[x][i].round < round[x] + 1
      <3>1. executions[x][i].round \in Nat
        <4>1. executions[x] \in Seq([round : Nat, terms : ProposalTerms])
          BY DEF IInv, TypeOK
        <4>2. executions[x][i] \in [round : Nat, terms : ProposalTerms]
          BY <4>1, ElementOfSeq
        <4> QED
          BY <4>2
      <3> QED
        BY <1>3, <3>1 DEF IInv, RoundsRise
    <2> QED
      BY <1>1, <1>2, <1>3, <2>1 DEF IInv, RoundsRise
  <1>8. LastIsPresent'
    BY <1>1, <1>2, <1>3 DEF IInv, LastIsPresent
  <1> QED
    BY <1>4, <1>5, <1>6, <1>7, <1>8 DEF IInv

\* An approval raises the flag of a side together with its signature; the one
\* that raises the second flag executes the round, for the first time.
LEMMA ApproveKeepsInv ==
  ASSUME IInv, NEW x \in ProposalAccounts, NEW k \in Banks, Approve(x, k)
  PROVE  IInv'
  <1> DEFINE old == proposal[x]
             p == Approved(old, k)
             new == [p EXCEPT !.executed = Complete(p)]
             entry == [round |-> round[x], terms |-> old.terms]
  <1>1. /\ old \in Proposals /\ ~old.executed /\ k \in {old.bank_a, old.bank_b}
        /\ round[x] \in Nat
    BY CompressionAssumption DEF IInv, TypeOK, Approve, Open
  <1>2. old.is_initialized /\ old.terms \in ProposalTerms
    <2>1. old # BlankProposal
      BY <1>1, CompressionAssumption DEF BlankProposal
    <2> QED
      BY <2>1 DEF IInv, BlankUntilWritten
  <1>3. /\ p \in Proposals /\ p.terms = old.terms /\ p.is_initialized
        /\ p.bank_a = old.bank_a /\ p.bank_b = old.bank_b
        /\ p.a_approved <=> (old.a_approved \/ k = old.bank_a)
        /\ p.b_approved <=> (old.b_approved \/ k # old.bank_a)
    BY <1>1, <1>2 DEF Approved, Proposals
  <1>4. /\ new \in Proposals /\ new.terms = old.terms /\ new.is_initialized
        /\ new.bank_a = old.bank_a /\ new.bank_b = old.bank_b
        /\ new.a_approved <=> p.a_approved
        /\ new.b_approved <=> p.b_approved
        /\ new.executed <=> Complete(p)
    BY <1>3 DEF Proposals, Complete
  <1>5. /\ proposal' = [proposal EXCEPT ![x] = new]
        /\ signed' = [signed EXCEPT ![x] = @ \cup {k}]
        /\ executions' = [executions EXCEPT ![x] = IF Complete(p) THEN Append(@, entry) ELSE @]
        /\ UNCHANGED <<space, round, overwritten>>
    BY <1>3 DEF Approve
  <1>6. Complete(p) <=> p.a_approved /\ p.b_approved
    BY DEF Complete
  <1> HIDE DEF p, new
  <1>7. /\ proposal'[x] = new /\ signed'[x] = signed[x] \cup {k}
        /\ executions'[x] = IF new.executed THEN Append(executions[x], entry) ELSE executions[x]
        /\ \A y \in ProposalAccounts \ {x} :
             /\ proposal'[y] = proposal[y] /\ signed'[y] = signed[y]
             /\ executions'[y] = executions[y]
    BY <1>4, <1>5 DEF IInv, TypeOK
  <1>8. /\ entry \in [round : Nat, terms : ProposalTerms]
        /\ executions[x] \in Seq([round : Nat, terms : ProposalTerms])
    BY <1>1, <1>2 DEF IInv, TypeOK
  <1>9. LET longer == Append(executions[x], entry)
         IN  /\ longer \in Seq([round : Nat, terms : ProposalTerms])
             /\ longer # <<>>
             /\ Len(longer) = Len(executions[x]) + 1
             /\ Len(executions[x]) \in Nat
             /\ longer[Len(executions[x]) + 1] = entry
             /\ \A i \in 1..Len(executions[x]) : longer[i] = executions[x][i]
    <2> HIDE DEF entry
    <2> QED
      BY <1>8, AppendProperties, LenProperties
  <1>10. TypeOK'
    <2>1. executions'[x] \in Seq([round : Nat, terms : ProposalTerms])
      BY <1>7, <1>8, <1>9
    <2>2. executions' \in [ProposalAccounts -> Seq([round : Nat, terms : ProposalTerms])]
      BY <1>5, <1>7, <2>1 DEF IInv, TypeOK
    <2> QED
      BY <1>4, <1>5, <2>2 DEF IInv, TypeOK
  <1>11. BlankUntilWritten'
    BY <1>2, <1>4, <1>5, <1>7 DEF IInv, BlankUntilWritten
  <1>12. ExecutedIsComplete' /\ FlagsAreSigned'
    <2>1. ASSUME x \notin overwritten
          PROVE  /\ new.a_approved => new.bank_a \in signed'[x]
                 /\ new.b_approved => new.bank_b \in signed'[x] /\ new.bank_a # new.bank_b
      BY <1>1, <1>3, <1>4, <1>7, <2>1 DEF IInv, FlagsAreSigned
    <2>2. new.executed <=> Complete(new)
      BY <1>4, <1>6 DEF Complete
    <2> QED
      BY <1>5, <1>7, <2>1, <2>2 DEF IInv, ExecutedIsComplete, FlagsAreSigned
  <1>13. RoundsRise'
    <2>1. \A i \in 1..Len(executions[x]) : executions[x][i].round < round[x]
      BY <1>1 DEF IInv, RoundsRise
    <2>2. /\ \A i, j \in 1..Len(executions'[x]) :
               i < j => executions'[x][i].round < executions'[x][j].round
          /\ \A i \in 1..Len(executions'[x]) :
               IF new.executed THEN executions'[x][i].round <= round[x]
                               ELSE executions'[x][i].round < round[x]
      <3>1. CASE ~new.executed
        BY <1>7, <2>1, <3>1 DEF IInv, RoundsRise
      <3>2. CASE new.executed
        <4> DEFINE n == Len(executions[x])
        <4>1. /\ Len(executions'[x]) = n + 1 /\ n \in Nat
              /\ executions'[x][n + 1] = entry
              /\ \A i \in 1..n : executions'[x][i] = executions[x][i]
          BY <1>7, <1>9, <3>2
        <4>2. \A i \in 1..n : executions[x][i].round \in Nat
          <5>1. \A i \in 1..n : executions[x][i] \in [round : Nat, terms : ProposalTerms]
            BY <1>8, ElementOfSeq
          <5> QED
            BY <5>1
        <4>3. \A i, j \in 1..n : i < j => executions[x][i].round < executions[x][j].round
          BY DEF IInv, RoundsRise
        <4>4. entry.round = round[x]
          OBVIOUS
        <4> HIDE DEF n, entry
        <4>5. ASSUME NEW i \in 1..(n + 1), NEW j \in 1..(n + 1), i < j
              PROVE  executions'[x][i].round < executions'[x][j].round
          <5>1. i \in 1..n /\ (j \in 1..n \/ j = n + 1)
            BY <4>1, <4>5
          <5> QED
            BY <2>1, <4>1, <4>3, <4>4, <4>5, <5>1 DEF n
        <4>6. ASSUME NEW i \in 1..(n + 1) PROVE executions'[x][i].round <= round[x]
          <5>1. i \in 1..n \/ i = n + 1
            BY <4>1
          <5> QED
            BY <1>1, <2>1, <4>1, <4>2, <4>4, <5>1 DEF n
        <4> QED
          BY <3>2, <4>1, <4>5, <4>6
      <3> QED
        BY <3>1, <3>2
    <2> QED
      BY <1>5, <1>7, <2>2 DEF IInv, RoundsRise
  <1>14. LastIsPresent'
    <2>1. new.executed =>
            /\ executions'[x] # <<>>
            /\ executions'[x][Len(executions'[x])] = [round |-> round[x], terms |-> new.terms]
      BY <1>4, <1>7, <1>9
    <2> QED
      BY <1>5, <1>7, <2>1 DEF IInv, LastIsPresent
  <1> QED
    BY <1>10, <1>11, <1>12, <1>13, <1>14 DEF IInv

\* Writing over a proposal leaves its flags and the histories; of its sides and
\* terms nothing is promised until the account is proposed in again.
LEMMA OverwriteKeepsInv ==
  ASSUME IInv, NEW x \in ProposalAccounts, Overwrite(x)
  PROVE  IInv'
  <1>1. PICK k \in Banks, l \in Banks, terms \in ProposalTerms :
          proposal' = [proposal EXCEPT ![x] =
            [@ EXCEPT !.is_initialized = TRUE, !.bank_a = k, !.bank_b = l, !.terms = terms]]
    BY DEF Overwrite
  <1>2. /\ overwritten' = overwritten \cup {x}
        /\ UNCHANGED <<space, round, signed, executions>>
    BY DEF Overwrite
  <1> DEFINE new == [proposal[x] EXCEPT !.is_initialized = TRUE, !.bank_a = k, !.bank_b = l,
                                        !.terms = terms]
  <1>3. /\ new \in Proposals /\ new.is_initialized /\ new.terms \in ProposalTerms
        /\ new.a_approved = proposal[x].a_approved
        /\ new.b_approved = proposal[x].b_approved
        /\ new.executed = proposal[x].executed
    BY DEF IInv, TypeOK, Proposals
  <1>4. proposal' = [proposal EXCEPT ![x] = new]
    BY <1>1
  <1> HIDE DEF new
  <1>5. /\ proposal'[x] = new
        /\ \A y \in ProposalAccounts \ {x} : proposal'[y] = proposal[y]
        /\ proposal' \in [ProposalAccounts -> Proposals]
    BY <1>3, <1>4 DEF IInv, TypeOK
  <1>6. TypeOK'
    BY <1>2, <1>5 DEF IInv, TypeOK
  <1>7. BlankUntilWritten'
    BY <1>3, <1>5 DEF IInv, BlankUntilWritten
  <1>8. ExecutedIsComplete'
    BY <1>3, <1>5 DEF IInv, ExecutedIsComplete, Complete
  <1>9. FlagsAreSigned' /\ LastIsPresent'
    BY <1>2, <1>5 DEF IInv, FlagsAreSigned, LastIsPresent
  <1>10. RoundsRise'
    <2>1. \A y \in ProposalAccounts : proposal'[y].executed = proposal[y].executed
      BY <1>3, <1>5
    <2> QED
      BY <1>2, <2>1 DEF IInv, RoundsRise
  <1> QED
    BY <1>6, <1>7, <1>8, <1>9, <1>10 DEF IInv

\* Every step keeps the inductive invariant.
LEMMA NextKeepsInv == IInv /\ [Next]_compressionVars => IInv'
  <1> SUFFICES ASSUME IInv, [Next]_compressionVars PROVE IInv'
    OBVIOUS
  <1>1. ASSUME NEW x \in ProposalAccounts, Allocate(x) PROVE IInv'
    BY <1>1, AllocateKeepsInv
  <1>2. ASSUME NEW x \in ProposalAccounts, NEW k \in Banks, Approve(x, k) PROVE IInv'
    BY <1>2, ApproveKeepsInv
  <1>3. ASSUME NEW x \in ProposalAccounts, NEW k \in Banks, NEW l \in Banks,
               NEW t \in ProposalTerms, Propose(x, k, l, t)
        PROVE  IInv'
    BY <1>3, ProposeKeepsInv
  <1>4. ASSUME NEW x \in ProposalAccounts, Overwrite(x) PROVE IInv'
    BY <1>4, OverwriteKeepsInv
  <1>5. CASE UNCHANGED compressionVars
    BY <1>5 DEF compressionVars, IInv, TypeOK, BlankUntilWritten, ExecutedIsComplete,
       FlagsAreSigned, RoundsRise, LastIsPresent
  <1> QED
    BY <1>1, <1>2, <1>3, <1>4, <1>5 DEF Next

-----------------------------------------------------------------------------
\* The inductive invariant holds in every reachable state, whatever the banks,
\* the terms and the number of rounds are.
THEOREM Invariance == Spec => []IInv
  BY InitInv, NextKeepsInv, PTL DEF Spec

\* The variables of compression keep their types (the handlers' writes).
THEOREM TypeCorrect == Spec => []TypeOK
  <1>1. IInv => TypeOK
    BY DEF IInv
  <1> QED
    BY <1>1, Invariance, PTL

\* A proposal that no other handler wrote over is executed only by its two
\* sides, different banks that both signed since it was made
\* (process_propose_compression, process_approve_compression).
THEOREM BothSidesExecute == Spec => []ExecutedByBoth
  <1>1. IInv => ExecutedByBoth
    BY DEF IInv, ExecutedIsComplete, FlagsAreSigned, Complete, ExecutedByBoth
  <1> QED
    BY <1>1, Invariance, PTL

\* No proposal is executed twice, whatever is written over it, and the account
\* says executed only beside the terms that were, unless they were written
\* over (process_approve_compression).
THEOREM OneExecution == Spec => []ExecutedOnce
  <1>1. IInv => ExecutedOnce
    <2> SUFFICES ASSUME IInv, NEW x \in ProposalAccounts,
                        NEW i \in 1..Len(executions[x]), NEW j \in 1..Len(executions[x]),
                        executions[x][i].round = executions[x][j].round
                 PROVE  i = j
      BY DEF IInv, LastIsPresent, ExecutedOnce
    <2>1. executions[x][i].round \in Nat /\ executions[x][j].round \in Nat
      <3>1. executions[x] \in Seq([round : Nat, terms : ProposalTerms])
        BY DEF IInv, TypeOK
      <3>2. /\ executions[x][i] \in [round : Nat, terms : ProposalTerms]
            /\ executions[x][j] \in [round : Nat, terms : ProposalTerms]
        BY <3>1, ElementOfSeq
      <3> QED
        BY <3>2
    <2>2. ~(i < j) /\ ~(j < i)
      BY <2>1 DEF IInv, RoundsRise
    <2> QED
      BY <2>2
  <1> QED
    BY <1>1, Invariance, PTL

=============================================================================
