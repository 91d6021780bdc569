------------------------ MODULE Reconciliation_proofs ------------------------
(***************************************************************************)
(* What Reconciliation guarantees for every set of banks, dates, batches   *)
(* and foreign writes: its types, that no submission is lost, and what a   *)
(* comparison says of the two lists, in accounts not written over.         *)
(***************************************************************************)
EXTENDS Reconciliation, TLAPS, FiniteSetTheorems, SequenceTheorems

-----------------------------------------------------------------------------
(* The inductive invariant.  A comparison is about the last batches only   *)
(* because an account the program can read holds both of them at its front *)
(* and counts the trades of one of them.  All but the types is said of     *)
(* accounts that no other handler wrote over.                              *)

Recons ==
  [decodes : BOOLEAN, is_initialized : BOOLEAN,
   bank_a : Nat, bank_b : Nat, curve_date : Nat,
   num_trades : Nat, a_submitted : BOOLEAN, b_submitted : BOOLEAN,
   commitments_a : [Slots -> Nat], commitments_b : [Slots -> Nat],
   match_status : [Slots -> Statuses], num_matched : Nat, num_mismatched : Nat]

LastBatches == {b \in Batches \cup {<<>>} : Len(b) <= MAX_RECON_TRADES}

Commitments == {"A", "B"} \X Nat \X Nat

ReconTypes ==
  /\ space \in [ReconAccounts -> Spaces]
  /\ recon \in [ReconAccounts -> Recons]
  /\ lastA \in [ReconAccounts -> LastBatches]
  /\ lastB \in [ReconAccounts -> LastBatches]
  /\ checked \in [ReconAccounts -> BOOLEAN]
  /\ overwritten \subseteq ReconAccounts
  /\ committed \in [ReconAccounts -> SUBSET Commitments]

\* The arrays have room for the trades that are counted.
TradesFit ==
  \A x \in ReconAccounts \ overwritten : recon[x].num_trades \in 0..MAX_RECON_TRADES

\* The sides of an account are those of its address, in ascending order.
SidesOfAddress ==
  \A x \in ReconAccounts \ overwritten :
    recon[x].is_initialized =>
      /\ recon[x].bank_a <= recon[x].bank_b
      /\ x = ReconPda(recon[x].bank_a, recon[x].bank_b, recon[x].curve_date)

\* The array starts with the batch.
StartsWith(array, batch) == \A i \in 1..Len(batch) : array[i] = batch[i]

\* Only an account longer than its type loses a submission: it is decoded by
\* nobody, and the next submission starts it anew.
SubmissionsHeld ==
  \A x \in ReconAccounts \ overwritten :
    /\ recon[x].decodes
    /\ space[x] # "long" =>
         /\ recon[x].a_submitted <=> lastA[x] # <<>>
         /\ recon[x].b_submitted <=> lastB[x] # <<>>
         /\ StartsWith(recon[x].commitments_a, lastA[x])
         /\ StartsWith(recon[x].commitments_b, lastB[x])
         /\ recon[x].num_trades \in {Len(lastA[x]), Len(lastB[x])}

\* Every entry of an array that starts with the batch is zero or a commitment
\* of the side, and those of the batch are commitments.
HeldIsCommitted(array, batch, side, cs) ==
  /\ \A i \in Slots : array[i] = Zero \/ <<side, i, array[i]>> \in cs
  /\ \A i \in 1..Len(batch) : <<side, i, batch[i]>> \in cs

CommitmentsHeld ==
  \A x \in ReconAccounts \ overwritten :
    /\ HeldIsCommitted(recon[x].commitments_a, lastA[x], "A", committed[x])
    /\ HeldIsCommitted(recon[x].commitments_b, lastB[x], "B", committed[x])

\* MatchesWereCommitted of one account.
MatchIsOf(r, cs) ==
  \A i \in Slots :
    r.match_status[i] = MATCHED =>
      \/ <<"A", i, Zero>> \in cs \/ <<"B", i, Zero>> \in cs
      \/ \E c \in cs : <<"A", i, c[3]>> \in cs /\ <<"B", i, c[3]>> \in cs

MatchesStand ==
  \A x \in ReconAccounts \ overwritten : MatchIsOf(recon[x], committed[x])

\* Only accounts that can be read are compared.
CheckedIsReadable == \A x \in ReconAccounts : checked[x] => Readable(space[x])

\* VerdictOfLastBatches of one account: what a comparison of the batches a and
\* b left in it.
VerdictIs(r, a, b) ==
  Len(a) = Len(b) =>
    /\ r.num_trades = Len(a)
    /\ \A i \in 1..r.num_trades :
         r.match_status[i] = IF a[i] = b[i] THEN MATCHED ELSE MISMATCHED
    /\ r.num_matched = Cardinality({i \in 1..r.num_trades : a[i] = b[i]})
    /\ r.num_matched + r.num_mismatched = r.num_trades

VerdictsStand ==
  \A x \in ReconAccounts \ overwritten : checked[x] => VerdictIs(recon[x], lastA[x], lastB[x])

IInv ==
  /\ ReconTypes
  /\ TradesFit
  /\ SidesOfAddress
  /\ SubmissionsHeld
  /\ CheckedIsReadable
  /\ VerdictsStand
  /\ CommitmentsHeld
  /\ MatchesStand

-----------------------------------------------------------------------------
(* Operators. *)

\* A batch that was submitted consists of commitments and fits the array.
LEMMA BatchEntries ==
  ASSUME NEW b \in LastBatches
  PROVE  /\ b \in Seq(Nat)
         /\ Len(b) \in 0..MAX_RECON_TRADES
         /\ \A i \in 1..Len(b) : b[i] \in Nat
         /\ 1..Len(b) \subseteq Slots
         /\ Len(b) = 0 <=> b = <<>>
  <1>1. b \in Seq(Nat)
    <2>1. <<>> \in Seq(Nat)
      BY EmptySeq
    <2> QED
      BY <2>1, ReconciliationAssumption DEF LastBatches
  <1>2. Len(b) \in Nat /\ Len(b) <= MAX_RECON_TRADES /\ MAX_RECON_TRADES \in Nat
    BY <1>1, ReconciliationAssumption DEF LastBatches
  <1>3. \A i \in 1..Len(b) : b[i] \in Nat
    BY <1>1, ElementOfSeq
  <1>4. Len(b) = 0 <=> b = <<>>
    BY <1>1, EmptySeq
  <1> QED
    BY <1>1, <1>2, <1>3, <1>4 DEF Slots

\* A blank account, and what a submission starts from when there is nothing
\* to decode, are well typed.
LEMMA EmptyReconType ==
  ASSUME NEW a \in Nat, NEW b \in Nat, NEW d \in Nat
  PROVE  EmptyRecon(a, b, d) \in Recons
  BY ReconciliationAssumption DEF EmptyRecon, Recons, Statuses, Zero, Slots

\* Writing a batch over an array keeps the type of the array and what stands
\* behind the batch.
LEMMA WithFrontType ==
  ASSUME NEW array \in [Slots -> Nat], NEW b \in LastBatches
  PROVE  /\ WithFront(array, b) \in [Slots -> Nat]
         /\ StartsWith(WithFront(array, b), b)
         /\ \A i \in Slots :
              WithFront(array, b)[i] = IF i \in 1..Len(b) THEN b[i] ELSE array[i]
  <1>1. /\ Len(b) \in 0..MAX_RECON_TRADES
        /\ \A i \in 1..Len(b) : b[i] \in Nat
        /\ 1..Len(b) \subseteq Slots
    BY BatchEntries
  <1>2. \A i \in Slots : i <= Len(b) => i \in 1..Len(b)
    BY <1>1, ReconciliationAssumption DEF Slots
  <1>3. \A i \in 1..Len(b) : i <= Len(b)
    BY <1>1
  <1> QED
    BY <1>1, <1>2, <1>3 DEF WithFront, StartsWith

\* The counters of a comparison are those of the trades it looks at.
LEMMA CountersAddUp ==
  ASSUME NEW r \in Recons
  PROVE  /\ Agreeing(r) \subseteq Compared(r)
         /\ Cardinality(Agreeing(r)) \in Nat
         /\ Cardinality(Compared(r) \ Agreeing(r)) \in Nat
         /\ Cardinality(Agreeing(r)) + Cardinality(Compared(r) \ Agreeing(r)) = r.num_trades
  <1> DEFINE S == Agreeing(r)
             T == Compared(r) \ Agreeing(r)
  <1>1. r.num_trades \in Nat
    BY ReconciliationAssumption DEF Recons
  <1>2. S \subseteq Compared(r) /\ T \subseteq Compared(r)
    BY DEF Agreeing
  <1>3. IsFiniteSet(Compared(r)) /\ Cardinality(Compared(r)) = r.num_trades
    BY <1>1, FS_Interval DEF Compared
  <1>4. IsFiniteSet(S) /\ IsFiniteSet(T)
    BY <1>2, <1>3, FS_Subset
  <1>5. Cardinality(S) \in Nat /\ Cardinality(T) \in Nat
    BY <1>4, FS_CardinalityType
  <1>6. S \cup T = Compared(r) /\ S \cap T = {}
    BY <1>2
  <1>7. Cardinality(S \cup T) = Cardinality(S) + Cardinality(T) - Cardinality(S \cap T)
    BY <1>4, FS_Union
  <1>8. Cardinality(S \cap T) = 0
    BY <1>6, FS_EmptySet
  <1>9. Cardinality(S) + Cardinality(T) = r.num_trades
    <2> HIDE DEF S, T
    <2>1. Cardinality(S \cup T) = r.num_trades
      BY <1>3, <1>6
    <2> QED
      BY <1>1, <1>5, <1>7, <1>8, <2>1
  <1> QED
    BY <1>2, <1>5, <1>9

\* What a comparison writes is well typed, and it calls a trade matched
\* exactly when the two entries agree.
LEMMA VerdictType ==
  ASSUME NEW r \in Recons
  PROVE  /\ Verdict(r) \in Recons
         /\ \A i \in Slots :
              Verdict(r).match_status[i] =
                IF i \in Agreeing(r) THEN MATCHED
                ELSE IF i \in Compared(r) THEN MISMATCHED ELSE r.match_status[i]
         /\ Verdict(r).num_matched = Cardinality(Agreeing(r))
         /\ Verdict(r).num_mismatched = Cardinality(Compared(r) \ Agreeing(r))
         /\ Verdict(r).decodes = r.decodes
         /\ Verdict(r).is_initialized = r.is_initialized
         /\ Verdict(r).bank_a = r.bank_a /\ Verdict(r).bank_b = r.bank_b
         /\ Verdict(r).curve_date = r.curve_date /\ Verdict(r).num_trades = r.num_trades
         /\ Verdict(r).a_submitted = r.a_submitted /\ Verdict(r).b_submitted = r.b_submitted
         /\ Verdict(r).commitments_a = r.commitments_a
         /\ Verdict(r).commitments_b = r.commitments_b
  <1> DEFINE statuses == [i \in Slots |-> IF i \in Agreeing(r) THEN MATCHED
                                          ELSE IF i \in Compared(r) THEN MISMATCHED
                                          ELSE r.match_status[i]]
             m == Cardinality(Agreeing(r))
             n == Cardinality(Compared(r) \ Agreeing(r))
  <1>1. m \in Nat /\ n \in Nat
    BY CountersAddUp
  <1>2. statuses \in [Slots -> Statuses]
    BY DEF Recons, Statuses
  <1>3. Verdict(r) = [r EXCEPT !.match_status = statuses, !.num_matched = m,
                               !.num_mismatched = n]
    BY DEF Verdict
  <1>4. \A i \in Slots : statuses[i] = IF i \in Agreeing(r) THEN MATCHED
                                       ELSE IF i \in Compared(r) THEN MISMATCHED
                                       ELSE r.match_status[i]
    OBVIOUS
  <1> HIDE DEF statuses, m, n
  <1>5. /\ Verdict(r) \in Recons
        /\ Verdict(r).match_status = statuses
        /\ Verdict(r).num_matched = m /\ Verdict(r).num_mismatched = n
        /\ Verdict(r).decodes = r.decodes
        /\ Verdict(r).is_initialized = r.is_initialized
        /\ Verdict(r).bank_a = r.bank_a /\ Verdict(r).bank_b = r.bank_b
        /\ Verdict(r).curve_date = r.curve_date /\ Verdict(r).num_trades = r.num_trades
        /\ Verdict(r).a_submitted = r.a_submitted /\ Verdict(r).b_submitted = r.b_submitted
        /\ Verdict(r).commitments_a = r.commitments_a
        /\ Verdict(r).commitments_b = r.commitments_b
    BY <1>1, <1>2, <1>3 DEF Recons
  <1> QED
    BY <1>4, <1>5 DEF m, n

\* What is committed stays committed, and so does what was matched on it.
LEMMA CommitmentsGrow ==
  ASSUME NEW cs, NEW ds, cs \subseteq ds
  PROVE  /\ \A array, batch, side :
              HeldIsCommitted(array, batch, side, cs) => HeldIsCommitted(array, batch, side, ds)
         /\ \A r : MatchIsOf(r, cs) => MatchIsOf(r, ds)
  BY DEF HeldIsCommitted, MatchIsOf

\* A batch that is written over an array commits to what it writes.
LEMMA SubmissionIsHeld ==
  ASSUME NEW array \in [Slots -> Nat], NEW b \in LastBatches, NEW old, NEW side,
         NEW cs, HeldIsCommitted(array, old, side, cs)
  PROVE  HeldIsCommitted(WithFront(array, b), b, side, cs \cup Committing(side, b))
  <1>1. \A i \in 1..Len(b) : <<side, i, b[i]>> \in Committing(side, b)
    BY DEF Committing
  <1>2. \A i \in Slots : array[i] = Zero \/ <<side, i, array[i]>> \in cs
    BY DEF HeldIsCommitted
  <1>3. \A i \in Slots :
          WithFront(array, b)[i] = IF i \in 1..Len(b) THEN b[i] ELSE array[i]
    BY WithFrontType
  <1> QED
    BY <1>1, <1>2, <1>3 DEF HeldIsCommitted

-----------------------------------------------------------------------------
\* The initial state satisfies the inductive invariant.
LEMMA InitInv == Init => IInv
  <1> SUFFICES ASSUME Init PROVE IInv
    OBVIOUS
  <1>1. BlankRecon \in Recons
    BY EmptyReconType DEF BlankRecon
  <1>2. /\ BlankRecon.decodes
        /\ ~BlankRecon.is_initialized /\ ~BlankRecon.a_submitted /\ ~BlankRecon.b_submitted
        /\ BlankRecon.num_trades = 0
        /\ \A i \in Slots :
             /\ BlankRecon.match_status[i] = Zero
             /\ BlankRecon.commitments_a[i] = Zero /\ BlankRecon.commitments_b[i] = Zero
    BY DEF BlankRecon, EmptyRecon
  <1>3. <<>> \in LastBatches
    BY ReconciliationAssumption DEF LastBatches
  <1>4. ReconTypes
    BY <1>1, <1>3 DEF Init, ReconTypes, Spaces
  <1>5. SidesOfAddress /\ CheckedIsReadable /\ VerdictsStand /\ TradesFit
    BY <1>2, ReconciliationAssumption
       DEF Init, SidesOfAddress, CheckedIsReadable, VerdictsStand, TradesFit
  <1>6. SubmissionsHeld
    BY <1>2 DEF Init, SubmissionsHeld, StartsWith
  <1>7. MatchesStand
    BY <1>2 DEF Init, MatchesStand, MatchIsOf, Zero, MATCHED
  <1>8. CommitmentsHeld
    BY <1>2 DEF Init, CommitmentsHeld, HeldIsCommitted
  <1> QED
    BY <1>4, <1>5, <1>6, <1>7, <1>8 DEF IInv

\* Giving an account data writes none of it.
LEMMA AllocateKeepsInv ==
  ASSUME IInv, NEW x \in ReconAccounts, Allocate(x)
  PROVE  IInv'
  <1>1. /\ UNCHANGED <<recon, lastA, lastB, checked, committed, overwritten>>
        /\ space[x] = "none"
        /\ space' \in [ReconAccounts -> Spaces]
        /\ \A y \in ReconAccounts \ {x} : space'[y] = space[y]
    BY DEF Allocate, historyVars, IInv, ReconTypes
  <1>2. ReconTypes'
    BY <1>1 DEF IInv, ReconTypes
  <1>3. SubmissionsHeld' /\ CheckedIsReadable'
    BY <1>1 DEF IInv, SubmissionsHeld, CheckedIsReadable, Readable
  <1> QED
    BY <1>1, <1>2, <1>3 DEF IInv, TradesFit, SidesOfAddress, VerdictsStand, CommitmentsHeld,
       MatchesStand

\* A comparison is about the two last batches, because an account that can be
\* read holds both; what it matches was committed to, because the trades it
\* counts are those of one of the banks.
LEMMA CheckKeepsInv ==
  ASSUME IInv, NEW x \in ReconAccounts, CheckMatches(x)
  PROVE  IInv'
  <1> DEFINE old == recon[x]
             new == Verdict(old)
             n == old.num_trades
  <1>1. /\ Readable(space[x]) /\ space[x] # "long" /\ n <= MAX_RECON_TRADES
        /\ recon' = [recon EXCEPT ![x] = new]
        /\ checked' = [checked EXCEPT ![x] = TRUE]
        /\ UNCHANGED <<space, lastA, lastB, committed, overwritten>>
    BY DEF CheckMatches, Decodes, Readable
  <1>2. /\ old \in Recons /\ n \in Nat /\ 1..n \subseteq Slots
        /\ lastA[x] \in LastBatches /\ lastB[x] \in LastBatches
    <2>1. old \in Recons /\ lastA[x] \in LastBatches /\ lastB[x] \in LastBatches
      BY DEF IInv, ReconTypes
    <2>2. n \in Nat
      BY <2>1 DEF Recons
    <2> HIDE DEF n, old
    <2> QED
      BY <1>1, <2>1, <2>2, ReconciliationAssumption DEF Slots
  <1>3. x \notin overwritten =>
          /\ StartsWith(old.commitments_a, lastA[x])
          /\ StartsWith(old.commitments_b, lastB[x])
          /\ n \in {Len(lastA[x]), Len(lastB[x])}
    BY <1>1 DEF IInv, SubmissionsHeld
  <1>4. /\ new \in Recons
        /\ \A i \in Slots :
             new.match_status[i] = IF i \in Agreeing(old) THEN MATCHED
                                   ELSE IF i \in 1..n THEN MISMATCHED
                                   ELSE old.match_status[i]
        /\ new.num_matched = Cardinality(Agreeing(old))
        /\ new.num_mismatched = Cardinality((1..n) \ Agreeing(old))
        /\ new.decodes = old.decodes /\ new.is_initialized = old.is_initialized
        /\ new.bank_a = old.bank_a /\ new.bank_b = old.bank_b
        /\ new.curve_date = old.curve_date /\ new.num_trades = n
        /\ new.a_submitted = old.a_submitted /\ new.b_submitted = old.b_submitted
        /\ new.commitments_a = old.commitments_a /\ new.commitments_b = old.commitments_b
    BY <1>2, VerdictType DEF Compared
  <1>5. Agreeing(old) = {i \in 1..n : old.commitments_a[i] = old.commitments_b[i]}
    BY DEF Agreeing, Compared
  <1> HIDE DEF new
  <1>6. /\ recon'[x] = new /\ checked'[x]
        /\ \A y \in ReconAccounts \ {x} : recon'[y] = recon[y] /\ checked'[y] = checked[y]
    BY <1>1 DEF IInv, ReconTypes
  <1>7. ReconTypes'
    BY <1>1, <1>4 DEF IInv, ReconTypes
  <1>8. TradesFit' /\ SidesOfAddress' /\ CheckedIsReadable' /\ CommitmentsHeld'
    BY <1>1, <1>4, <1>6
       DEF IInv, TradesFit, SidesOfAddress, CheckedIsReadable, CommitmentsHeld
  <1>9. SubmissionsHeld'
    BY <1>1, <1>4, <1>6 DEF IInv, SubmissionsHeld
  <1>10. VerdictsStand'
    <2>1. ASSUME x \notin overwritten PROVE VerdictIs(new, lastA[x], lastB[x])
      <3> SUFFICES ASSUME Len(lastA[x]) = Len(lastB[x])
                   PROVE  /\ n = Len(lastA[x])
                          /\ \A i \in 1..n :
                               new.match_status[i] =
                                 IF lastA[x][i] = lastB[x][i] THEN MATCHED ELSE MISMATCHED
                          /\ new.num_matched =
                               Cardinality({i \in 1..n : lastA[x][i] = lastB[x][i]})
                          /\ new.num_matched + new.num_mismatched = n
        BY <1>4 DEF VerdictIs
      <3>1. n = Len(lastA[x]) /\ n = Len(lastB[x])
        BY <1>3, <2>1
      <3>2. \A i \in 1..n : old.commitments_a[i] = lastA[x][i] /\ old.commitments_b[i] = lastB[x][i]
        BY <1>3, <2>1, <3>1 DEF StartsWith
      <3>3. Agreeing(old) = {i \in 1..n : lastA[x][i] = lastB[x][i]}
        BY <1>5, <3>2
      <3>4. \A i \in 1..n : new.match_status[i] =
                              IF lastA[x][i] = lastB[x][i] THEN MATCHED ELSE MISMATCHED
        BY <1>2, <1>4, <3>3
      <3>5. new.num_matched + new.num_mismatched = n
        BY <1>2, <1>4, CountersAddUp DEF Compared
      <3> QED
        BY <1>4, <3>1, <3>3, <3>4, <3>5
    <2> QED
      BY <1>1, <1>6, <2>1 DEF IInv, VerdictsStand
  <1>11. MatchesStand'
    <2>1. ASSUME x \notin overwritten, NEW i \in Slots, new.match_status[i] = MATCHED
          PROVE  \/ <<"A", i, Zero>> \in committed[x] \/ <<"B", i, Zero>> \in committed[x]
                 \/ \E c \in committed[x] : /\ <<"A", i, c[3]>> \in committed[x]
                                           /\ <<"B", i, c[3]>> \in committed[x]
      <3>1. CASE i \in 1..n
        <4>1. i \in Agreeing(old)
          BY <1>4, <2>1, <3>1 DEF MATCHED, MISMATCHED
        <4>2. old.commitments_a[i] = old.commitments_b[i]
          BY <1>5, <4>1
        <4>3. /\ HeldIsCommitted(old.commitments_a, lastA[x], "A", committed[x])
              /\ HeldIsCommitted(old.commitments_b, lastB[x], "B", committed[x])
          BY <2>1 DEF IInv, CommitmentsHeld
        <4>4. CASE old.commitments_a[i] = Zero
          <5>1. CASE n = Len(lastA[x])
            BY <1>3, <2>1, <3>1, <4>3, <4>4, <5>1 DEF StartsWith, HeldIsCommitted
          <5>2. CASE n = Len(lastB[x])
            BY <1>3, <2>1, <3>1, <4>2, <4>3, <4>4, <5>2 DEF StartsWith, HeldIsCommitted
          <5> QED
            BY <1>3, <2>1, <5>1, <5>2
        <4>5. CASE old.commitments_a[i] # Zero
          <5> DEFINE h == old.commitments_a[i]
                     c == <<"A", i, h>>
          <5>1. c \in committed[x] /\ <<"B", i, h>> \in committed[x]
            BY <2>1, <4>2, <4>3, <4>5 DEF HeldIsCommitted
          <5>2. c[3] = h
            OBVIOUS
          <5> QED
            BY <5>1, <5>2
        <4> QED
          BY <4>4, <4>5
      <3>2. CASE i \notin 1..n
        <4>1. old.match_status[i] = MATCHED
          BY <1>4, <1>5, <2>1, <3>2
        <4> QED
          BY <2>1, <4>1 DEF IInv, MatchesStand, MatchIsOf
      <3> QED
        BY <3>1, <3>2
    <2>2. x \notin overwritten => MatchIsOf(new, committed[x])
      BY <2>1 DEF MatchIsOf
    <2> QED
      BY <1>1, <1>6, <2>2 DEF IInv, MatchesStand
  <1> QED
    BY <1>7, <1>8, <1>9, <1>10, <1>11 DEF IInv

\* A submission puts its batch in front of its own side and counts its trades;
\* of an account that can be read, the other side and the statuses stay.  Of
\* an account written over before only the types are kept.
LEMMA SubmitKeepsInv ==
  ASSUME IInv, NEW x \in ReconAccounts, NEW bank \in Nat, NEW counterparty \in Nat,
         NEW d \in Dates, NEW refs, NEW batch \in Batches,
         Submit(x, bank, counterparty, d, refs, batch)
  PROVE  IInv'
  <1> DEFINE first == Lower(bank, counterparty)
             second == Higher(bank, counterparty)
             base == Loaded(x, first, second, d)
             new == recon'[x]
             isA == bank = first
  <1>1. /\ space[x] \in {"exact", "long"}
        /\ refs = Len(batch) /\ refs # 0 /\ refs <= MAX_RECON_TRADES
        /\ x = ReconPda(bank, counterparty, d)
        /\ checked' = [checked EXCEPT ![x] = FALSE]
        /\ UNCHANGED <<space, overwritten>>
    BY DEF Submit, AcceptableBatch, Writable
  <1>2. /\ batch \in LastBatches /\ batch # <<>> /\ refs \in 0..MAX_RECON_TRADES
    <2>1. batch \in LastBatches
      BY <1>1 DEF LastBatches
    <2> QED
      BY <1>1, <2>1, BatchEntries
  <1>3. /\ d \in Nat /\ first \in Nat /\ second \in Nat /\ first <= second
        /\ ReconPda(first, second, d) = x
    BY <1>1, ReconciliationAssumption DEF Lower, Higher, ReconPda
  <1>4. base \in Recons
    BY <1>3, EmptyReconType DEF Loaded, IInv, ReconTypes
  <1>5. /\ recon \in [ReconAccounts -> Recons]
        /\ lastA \in [ReconAccounts -> LastBatches] /\ lastB \in [ReconAccounts -> LastBatches]
        /\ checked \in [ReconAccounts -> BOOLEAN]
        /\ committed \in [ReconAccounts -> SUBSET Commitments]
    BY DEF IInv, ReconTypes
  <1>6. /\ new \in Recons
        /\ new.decodes = base.decodes /\ new.is_initialized
        /\ new.bank_a = first /\ new.bank_b = second /\ new.curve_date = d
        /\ new.num_trades = refs
        /\ new.match_status = base.match_status
        /\ new.a_submitted = (base.a_submitted \/ isA)
        /\ new.b_submitted = (base.b_submitted \/ ~isA)
        /\ new.commitments_a = IF isA THEN WithFront(base.commitments_a, batch)
                                      ELSE base.commitments_a
        /\ new.commitments_b = IF isA THEN base.commitments_b
                                      ELSE WithFront(base.commitments_b, batch)
    <2> DEFINE head == [base EXCEPT !.is_initialized = TRUE, !.bank_a = first,
                          !.bank_b = second, !.curve_date = d, !.num_trades = refs]
    <2>1. /\ head \in Recons
          /\ head.decodes = base.decodes /\ head.is_initialized
          /\ head.bank_a = first /\ head.bank_b = second /\ head.curve_date = d
          /\ head.num_trades = refs
          /\ head.match_status = base.match_status
          /\ head.a_submitted = base.a_submitted /\ head.b_submitted = base.b_submitted
          /\ head.commitments_a = base.commitments_a
          /\ head.commitments_b = base.commitments_b
      <3>1. refs \in Nat
        BY <1>2, ReconciliationAssumption
      <3> HIDE DEF base, first, second
      <3> QED
        BY <1>3, <1>4, <3>1 DEF Recons
    <2>2. CASE isA
      <3>1. new = [head EXCEPT !.commitments_a = WithFront(head.commitments_a, batch),
                               !.a_submitted = TRUE]
        BY <1>5, <2>2 DEF Submit
      <3>2. WithFront(head.commitments_a, batch) \in [Slots -> Nat]
        BY <1>2, <2>1, WithFrontType DEF Recons
      <3> HIDE DEF head, new, base
      <3> QED
        BY <2>1, <2>2, <3>1, <3>2 DEF Recons
    <2>3. CASE ~isA
      <3>1. new = [head EXCEPT !.commitments_b = WithFront(head.commitments_b, batch),
                               !.b_submitted = TRUE]
        BY <1>5, <2>3 DEF Submit
      <3>2. WithFront(head.commitments_b, batch) \in [Slots -> Nat]
        BY <1>2, <2>1, WithFrontType DEF Recons
      <3> HIDE DEF head, new, base
      <3> QED
        BY <2>1, <2>3, <3>1, <3>2 DEF Recons
    <2> QED
      BY <2>2, <2>3
  <1>7. /\ \A y \in ReconAccounts \ {x} :
             /\ recon'[y] = recon[y] /\ checked'[y] = checked[y]
             /\ lastA'[y] = lastA[y] /\ lastB'[y] = lastB[y]
             /\ committed'[y] = committed[y]
        /\ ~checked'[x]
        /\ lastA'[x] = IF isA THEN batch ELSE lastA[x]
        /\ lastB'[x] = IF isA THEN lastB[x] ELSE batch
        /\ committed'[x] = committed[x] \cup Committing(IF isA THEN "A" ELSE "B", batch)
        /\ committed' \in [ReconAccounts -> SUBSET Commitments]
    <2>1. \A side \in {"A", "B"} : Committing(side, batch) \subseteq Commitments
      BY <1>2, BatchEntries DEF Committing, Commitments
    <2> QED
      BY <1>1, <1>5, <2>1 DEF Submit
  <1>8. ReconTypes'
    <2>1. /\ recon' = [recon EXCEPT ![x] = new]
          /\ lastA' \in [ReconAccounts -> LastBatches]
          /\ lastB' \in [ReconAccounts -> LastBatches]
      BY <1>2, <1>5, <1>7 DEF Submit
    <2>2. new \in Recons /\ overwritten \subseteq ReconAccounts
      BY <1>6 DEF IInv, ReconTypes
    <2> HIDE DEF new
    <2> QED
      BY <1>1, <1>5, <1>7, <2>1, <2>2 DEF IInv, ReconTypes
  <1> HIDE DEF new
  <1>9. /\ TradesFit' /\ SidesOfAddress' /\ CheckedIsReadable' /\ VerdictsStand'
    BY <1>1, <1>2, <1>3, <1>6, <1>7
       DEF IInv, TradesFit, SidesOfAddress, CheckedIsReadable, VerdictsStand, new
  <1>10. SubmissionsHeld'
    <2>1. ASSUME space[x] # "long", x \notin overwritten
          PROVE  /\ new.a_submitted <=> lastA'[x] # <<>>
                 /\ new.b_submitted <=> lastB'[x] # <<>>
                 /\ StartsWith(new.commitments_a, lastA'[x])
                 /\ StartsWith(new.commitments_b, lastB'[x])
                 /\ new.num_trades \in {Len(lastA'[x]), Len(lastB'[x])}
      <3>1. base = recon[x]
        BY <1>1, <2>1 DEF Loaded, Decodes, Readable, IInv, SubmissionsHeld
      <3>2. /\ recon[x].a_submitted <=> lastA[x] # <<>>
            /\ recon[x].b_submitted <=> lastB[x] # <<>>
            /\ StartsWith(recon[x].commitments_a, lastA[x])
            /\ StartsWith(recon[x].commitments_b, lastB[x])
        BY <2>1 DEF IInv, SubmissionsHeld
      <3>3. /\ StartsWith(WithFront(recon[x].commitments_a, batch), batch)
            /\ StartsWith(WithFront(recon[x].commitments_b, batch), batch)
        BY <1>2, <1>5, WithFrontType DEF Recons
      <3> HIDE DEF base
      <3> QED
        BY <1>1, <1>2, <1>6, <1>7, <3>1, <3>2, <3>3
    <2>2. x \notin overwritten => new.decodes
      BY <1>6 DEF IInv, SubmissionsHeld, Loaded, EmptyRecon
    <2> QED
      BY <1>1, <1>7, <2>1, <2>2 DEF IInv, SubmissionsHeld, new
  <1>11. CommitmentsHeld' /\ MatchesStand'
    <2> DEFINE side == IF isA THEN "A" ELSE "B"
               cs == committed[x]
               ds == cs \cup Committing(side, batch)
    <2>1. ASSUME x \notin overwritten
          PROVE  /\ HeldIsCommitted(base.commitments_a, lastA[x], "A", cs)
                 /\ HeldIsCommitted(base.commitments_b, lastB[x], "B", cs)
                 /\ MatchIsOf(base, cs)
      <3>1. /\ HeldIsCommitted(recon[x].commitments_a, lastA[x], "A", cs)
            /\ HeldIsCommitted(recon[x].commitments_b, lastB[x], "B", cs)
            /\ MatchIsOf(recon[x], cs)
        BY <2>1 DEF IInv, CommitmentsHeld, MatchesStand
      <3>2. CASE base = recon[x]
        <4>1. \A r : r = recon[x] =>
                 /\ HeldIsCommitted(r.commitments_a, lastA[x], "A", cs)
                 /\ HeldIsCommitted(r.commitments_b, lastB[x], "B", cs)
                 /\ MatchIsOf(r, cs)
          BY <3>1
        <4> HIDE DEF base
        <4> QED
          BY <3>2, <4>1
      <3>3. CASE base = EmptyRecon(first, second, d)
        <4>1. \A i \in Slots :
                 /\ base.commitments_a[i] = Zero /\ base.commitments_b[i] = Zero
                 /\ base.match_status[i] = Zero
          BY <3>3 DEF EmptyRecon
        <4> HIDE DEF base, cs
        <4>2. MatchIsOf(base, cs)
          <5>1. \A i \in Slots : base.match_status[i] # MATCHED
            BY <4>1 DEF Zero, MATCHED
          <5> QED
            BY <5>1, Zenon DEF MatchIsOf
        <4>3. HeldIsCommitted(base.commitments_a, lastA[x], "A", cs)
          BY <3>1, <4>1 DEF HeldIsCommitted
        <4>4. HeldIsCommitted(base.commitments_b, lastB[x], "B", cs)
          BY <3>1, <4>1 DEF HeldIsCommitted
        <4> QED
          BY <4>2, <4>3, <4>4
      <3> QED
        BY <3>2, <3>3 DEF Loaded
    <2>2. base.commitments_a \in [Slots -> Nat] /\ base.commitments_b \in [Slots -> Nat]
      BY <1>4 DEF Recons
    <2> HIDE DEF base
    <2>3. ASSUME x \notin overwritten
          PROVE  /\ HeldIsCommitted(new.commitments_a, lastA'[x], "A", ds)
                 /\ HeldIsCommitted(new.commitments_b, lastB'[x], "B", ds)
      <3>1. CASE isA
        <4>1. HeldIsCommitted(WithFront(base.commitments_a, batch), batch, "A", ds)
          BY <1>2, <2>1, <2>2, <2>3, <3>1, SubmissionIsHeld
        <4>2. HeldIsCommitted(base.commitments_b, lastB[x], "B", ds)
          BY <2>1, <2>3, CommitmentsGrow
        <4> QED
          BY <1>6, <1>7, <3>1, <4>1, <4>2
      <3>2. CASE ~isA
        <4>1. HeldIsCommitted(WithFront(base.commitments_b, batch), batch, "B", ds)
          BY <1>2, <2>1, <2>2, <2>3, <3>2, SubmissionIsHeld
        <4>2. HeldIsCommitted(base.commitments_a, lastA[x], "A", ds)
          BY <2>1, <2>3, CommitmentsGrow
        <4> QED
          BY <1>6, <1>7, <3>2, <4>1, <4>2
      <3> QED
        BY <3>1, <3>2
    <2>4. ASSUME x \notin overwritten PROVE MatchIsOf(new, ds)
      <3>1. MatchIsOf(base, ds)
        BY <2>1, <2>4, CommitmentsGrow
      <3> QED
        BY <1>6, <3>1 DEF MatchIsOf
    <2>5. committed'[x] = ds
      BY <1>7
    <2> HIDE DEF ds
    <2> QED
      BY <1>1, <1>7, <2>3, <2>4, <2>5 DEF IInv, CommitmentsHeld, MatchesStand, new
  <1> QED
    BY <1>8, <1>9, <1>10, <1>11 DEF IInv

\* What is written over is of the right types, and the histories stay.
LEMMA OverwriteKeepsInv ==
  ASSUME IInv, NEW x \in ReconAccounts, Overwrite(x)
  PROVE  IInv'
  <1>1. PICK w \in Writings :
          recon' = [recon EXCEPT ![x] =
            [@ EXCEPT !.decodes = w.decodes, !.is_initialized = TRUE,
                      !.bank_a = w.bank_a, !.bank_b = w.bank_b, !.curve_date = w.curve_date,
                      !.num_trades = w.num_trades,
                      !.a_submitted = w.a_submitted, !.b_submitted = w.b_submitted,
                      !.commitments_a = WithFront(recon[x].commitments_a, w.front)]]
    BY DEF Overwrite
  <1>2. /\ overwritten' = overwritten \cup {x}
        /\ UNCHANGED <<space, lastA, lastB, checked, committed>>
    BY DEF Overwrite
  <1> DEFINE array == WithFront(recon[x].commitments_a, w.front)
  <1>3. array \in [Slots -> Nat]
    <2>1. w.front \in Seq(Nat) /\ Len(w.front) \in Nat
      BY ReconciliationAssumption
    <2>2. recon[x].commitments_a \in [Slots -> Nat]
      BY DEF IInv, ReconTypes, Recons
    <2>3. \A i \in Slots : i <= Len(w.front) => w.front[i] \in Nat
      BY <2>1, ReconciliationAssumption DEF Slots
    <2> QED
      BY <2>2, <2>3 DEF WithFront
  <1> HIDE DEF array
  <1>4. recon' \in [ReconAccounts -> Recons]
    <2> DEFINE new == [recon[x] EXCEPT
                         !.decodes = w.decodes, !.is_initialized = TRUE,
                         !.bank_a = w.bank_a, !.bank_b = w.bank_b, !.curve_date = w.curve_date,
                         !.num_trades = w.num_trades,
                         !.a_submitted = w.a_submitted, !.b_submitted = w.b_submitted,
                         !.commitments_a = array]
    <2>1. new \in Recons
      <3>1. recon[x] \in Recons
        BY DEF IInv, ReconTypes
      <3>2. /\ w.decodes \in BOOLEAN /\ w.a_submitted \in BOOLEAN /\ w.b_submitted \in BOOLEAN
            /\ w.bank_a \in Nat /\ w.bank_b \in Nat /\ w.curve_date \in Nat
            /\ w.num_trades \in Nat
        BY ReconciliationAssumption
      <3> QED
        BY <1>3, <3>1, <3>2 DEF Recons
    <2>2. recon' = [recon EXCEPT ![x] = new]
      BY <1>1 DEF array, IInv, ReconTypes
    <2> HIDE DEF new
    <2> QED
      BY <2>1, <2>2 DEF IInv, ReconTypes
  <1>5. /\ \A y \in ReconAccounts \ {x} : recon'[y] = recon[y]
        /\ ReconAccounts \ overwritten' \subseteq (ReconAccounts \ overwritten) \ {x}
    BY <1>1, <1>2 DEF IInv, ReconTypes
  <1>6. ReconTypes'
    BY <1>2, <1>4 DEF IInv, ReconTypes
  <1>7. /\ TradesFit' /\ SidesOfAddress' /\ VerdictsStand'
        /\ CommitmentsHeld' /\ MatchesStand' /\ CheckedIsReadable'
    BY <1>2, <1>5 DEF IInv, TradesFit, SidesOfAddress, VerdictsStand, CommitmentsHeld,
       MatchesStand, CheckedIsReadable
  <1>8. SubmissionsHeld'
    BY <1>2, <1>5 DEF IInv, SubmissionsHeld
  <1> QED
    BY <1>6, <1>7, <1>8 DEF IInv

\* Every step keeps the inductive invariant.
LEMMA NextKeepsInv == IInv /\ [Next]_reconVars => IInv'
  <1> SUFFICES ASSUME IInv, [Next]_reconVars PROVE IInv'
    OBVIOUS
  <1>1. ASSUME NEW x \in ReconAccounts, Allocate(x) PROVE IInv'
    BY <1>1, AllocateKeepsInv
  <1>2. ASSUME NEW x \in ReconAccounts, SubmitSome(x) PROVE IInv'
    <2>1. PICK r \in Reconcilers, d \in Dates, n \in 0..(MAX_RECON_TRADES + 1),
               batch \in Batches : Submit(x, r[1], r[2], d, n, batch)
      BY <1>2 DEF SubmitSome
    <2>2. r[1] \in Nat /\ r[2] \in Nat
      BY ReconciliationAssumption
    <2> QED
      BY <2>1, <2>2, SubmitKeepsInv
  <1>3. ASSUME NEW x \in ReconAccounts, CheckMatches(x) PROVE IInv'
    BY <1>3, CheckKeepsInv
  <1>4. ASSUME NEW x \in ReconAccounts, Overwrite(x) PROVE IInv'
    BY <1>4, OverwriteKeepsInv
  <1>5. CASE UNCHANGED reconVars
    BY <1>5 DEF reconVars, historyVars, IInv, ReconTypes, TradesFit, SidesOfAddress,
       SubmissionsHeld, CheckedIsReadable, VerdictsStand, CommitmentsHeld, MatchesStand
  <1> QED
    BY <1>1, <1>2, <1>3, <1>4, <1>5 DEF Next

-----------------------------------------------------------------------------
\* The inductive invariant holds in every reachable state, whatever the banks,
\* the dates, the batches and the room of an account are.
THEOREM Invariance == Spec => []IInv
  BY InitInv, NextKeepsInv, PTL DEF Spec

\* The variables of reconciliation keep their types, and the sides of an
\* account that was not written over are those of its address
\* (process_submit_commitment).
THEOREM TypeCorrect == Spec => []TypeOK
  <1>1. IInv => TypeOK
    BY DEF IInv, ReconTypes, Recons, TradesFit, SidesOfAddress, TypeOK
  <1> QED
    BY <1>1, Invariance, PTL

\* In an account no other handler wrote over, no submission is lost to the
\* other bank's read, change and write of it (process_submit_commitment).
THEOREM NoSubmissionLost == Spec => []SubmissionsKept
  <1>1. IInv => SubmissionsKept
    BY DEF IInv, SubmissionsHeld, SubmissionsKept, StartsWith, Readable
  <1> QED
    BY <1>1, Invariance, PTL

\* A comparison of two equally long lists is about the last batches and
\* nothing older, unless the account was written over
\* (process_check_matches).
THEOREM VerdictIsOfLastBatches == Spec => []VerdictOfLastBatches
  <1>1. IInv => VerdictOfLastBatches
    BY DEF IInv, VerdictsStand, VerdictIs, VerdictOfLastBatches
  <1> QED
    BY <1>1, Invariance, PTL

\* What is matched was committed to by both banks, or is the zero hash that
\* one of them committed to, whatever the hashes are, unless the account was
\* written over (process_check_matches, process_submit_commitment).
THEOREM MatchesAreCommitted == Spec => []MatchesWereCommitted
  <1>1. IInv => MatchesWereCommitted
    BY DEF IInv, MatchesStand, MatchIsOf, MatchesWereCommitted
  <1> QED
    BY <1>1, Invariance, PTL

=============================================================================
