--------------------------- MODULE SwapBook_proofs ---------------------------
(***************************************************************************)
(* What CurveStore and SwapBook guarantee for every set of accounts, keys, *)
(* terms, rates and bounds.  Of the store: its types, its safety           *)
(* invariants, and that it implements the abstract challenge window.  Of   *)
(* the two together: pricing swaps leaves the store what it is, and every  *)
(* stored mark is of the stored terms and of rates that were settled.      *)
(***************************************************************************)
EXTENDS SwapBook, SequenceTheorems, TLAPS

-----------------------------------------------------------------------------
(* The inductive invariant.  ActivationWaited and DecidedOnce speak of the *)
(* histories; a step can only be seen to keep them when the stored         *)
(* snapshot is tied to the histories, which the other conjuncts do.  Of a  *)
(* snapshot that was written over they say nothing, and need not: what     *)
(* becomes of it is no decision on a publication.                          *)

\* Decisions are about publications that were made.
DecisionsCounted ==
  \A dec \in activated \cup vetoed :
    dec.edition \in 1..Len(published[dec.account])

\* A publication whose snapshot is still pending was not decided.
PendingIsUndecided ==
  \A dec \in activated \cup vetoed :
    dec.account \notin overwritten /\ curve[dec.account].status = "Pending" =>
      dec.edition # Edition(dec.account)

\* No snapshot was published in the future.
NoneFromTheFuture ==
  \A a \in CurveAccounts \ overwritten : curve[a].publish_timestamp \in 0..now

IInv ==
  /\ TypeOK
  /\ StoredIsLastPublished
  /\ DecisionsCounted
  /\ PendingIsUndecided
  /\ NoneFromTheFuture
  /\ ActivationWaited
  /\ DecidedOnce

-----------------------------------------------------------------------------
(* Operators. *)

\* A publication that PublishCurve lets through fits its account.
LEMMA AcceptedRatesFit ==
  ASSUME NEW n, NEW r \in Seq(Nat), AcceptableTenors(n, r)
  PROVE  Len(r) \in 1..MAX_TENORS
  BY CurveStoreAssumption DEF AcceptableTenors

\* PublishCurve stores a well-typed snapshot.
LEMMA SnapshotType ==
  ASSUME NEW c \in Currencies, NEW d \in BusinessDates, NEW t \in Nat,
         NEW r \in RateVectors
  PROVE  Snapshot(c, d, t, r) \in Snapshots
  <1>1. r \in Seq(Nat) /\ c \in Nat /\ d \in Nat /\ MAX_TENORS \in Nat
    BY CurveStoreAssumption
  <1>2. Padded(r) \in [1..MAX_TENORS -> Nat]
    BY <1>1 DEF Padded
  <1> QED
    BY <1>1, <1>2 DEF Snapshot, Snapshots, Statuses

\* What a snapshot was made of is what its reader takes out of it.
LEMMA RatesRoundTrip ==
  ASSUME NEW c, NEW d, NEW t, NEW r \in Seq(Nat), Len(r) \in 1..MAX_TENORS
  PROVE  RatesOf(Snapshot(c, d, t, r)) = r
  <1>1. /\ Snapshot(c, d, t, r).num_tenors = Len(r)
        /\ Snapshot(c, d, t, r).rates = Padded(r)
    BY DEF Snapshot
  <1>2. MAX_TENORS \in Nat /\ Len(r) \in Nat /\ Len(r) <= MAX_TENORS
    BY CurveStoreAssumption
  <1>3. \A i \in 1..Len(r) : Padded(r)[i] = r[i]
    BY <1>2 DEF Padded
  <1>4. RatesOf(Snapshot(c, d, t, r)) = [i \in 1..Len(r) |-> r[i]]
    BY <1>1, <1>2, <1>3 DEF RatesOf
  <1> QED
    BY <1>4

\* Nothing is taken out of a blank snapshot.
LEMMA BlankHasNoRates ==
  /\ BlankSnapshot \in Snapshots
  /\ BlankSnapshot.status \in Statuses
  /\ BlankSnapshot.num_tenors = 0
  /\ RatesOf(BlankSnapshot) = <<>>
  <1>1. MAX_TENORS \in Nat
    BY CurveStoreAssumption
  <1>2. Padded(<<>>) \in [1..MAX_TENORS -> Nat]
    BY <1>1 DEF Padded
  <1>3. BlankSnapshot.num_tenors = 0
    BY DEF BlankSnapshot
  <1>4. RatesOf(BlankSnapshot) = [i \in 1..0 |-> BlankSnapshot.rates[i]]
    BY <1>1, <1>3 DEF RatesOf
  <1>5. RatesOf(BlankSnapshot) = <<>>
    BY <1>4
  <1> QED
    BY <1>2, <1>3, <1>5 DEF BlankSnapshot, Snapshots, Statuses

\* What is read of any snapshot is a sequence of rates.
LEMMA RatesAreNumbers ==
  ASSUME NEW s \in Snapshots
  PROVE  RatesOf(s) \in Seq(Nat)
  <1>1. /\ s.num_tenors \in Nat /\ MAX_TENORS \in Nat
        /\ s.rates \in [1..MAX_TENORS -> Nat]
    BY CurveStoreAssumption DEF Snapshots
  <1>2. CASE s.num_tenors <= MAX_TENORS
    <2>1. \A i \in 1..s.num_tenors : s.rates[i] \in Nat
      BY <1>1, <1>2
    <2>2. [i \in 1..s.num_tenors |-> s.rates[i]] \in [1..s.num_tenors -> Nat]
      BY <2>1
    <2> QED
      BY <1>1, <1>2, <2>2 DEF RatesOf
  <1>3. CASE ~(s.num_tenors <= MAX_TENORS)
    BY <1>3 DEF RatesOf
  <1> QED
    BY <1>2, <1>3

\* A decision recorded now is well typed.
LEMMA DecisionType ==
  ASSUME NEW a \in CurveAccounts, TypeOK
  PROVE  DecisionOn(a) \subseteq Decisions
  <1>1. Edition(a) \in Nat
    BY DEF TypeOK, Edition
  <1> QED
    BY <1>1 DEF DecisionOn, Decisions, TypeOK

-----------------------------------------------------------------------------
\* The initial state satisfies the inductive invariant.
LEMMA InitInv == Init => IInv
  <1> SUFFICES ASSUME Init PROVE IInv
    OBVIOUS
  <1>1. \A a \in CurveAccounts : curve[a] = BlankSnapshot
    BY DEF Init
  <1>2. TypeOK
    BY BlankHasNoRates, CurveStoreAssumption DEF Init, TypeOK, Spaces
  <1>3. StoredIsLastPublished
    <2>1. ~BlankSnapshot.is_initialized
      BY DEF BlankSnapshot
    <2> QED
      BY <1>1, <2>1, BlankHasNoRates DEF Init, StoredIsLastPublished
  <1>4. DecisionsCounted /\ PendingIsUndecided /\ ActivationWaited /\ DecidedOnce
    BY DEF Init, DecisionsCounted, PendingIsUndecided, ActivationWaited, DecidedOnce
  <1>5. NoneFromTheFuture
    BY CurveStoreAssumption DEF Init, NoneFromTheFuture, BlankSnapshot
  <1> QED
    BY <1>2, <1>3, <1>4, <1>5 DEF IInv

\* The clock only moves forward.
LEMMA TickKeepsInv == ASSUME IInv, Tick PROVE IInv'
  <1>1. now' \in Nat /\ now' > now
    BY CurveStoreAssumption DEF IInv, TypeOK, Tick
  <1>2. UNCHANGED <<space, curve, published, activated, vetoed, overwritten>>
    BY DEF Tick, historyVars
  <1>3. TypeOK'
    BY <1>1, <1>2 DEF IInv, TypeOK
  <1>4. NoneFromTheFuture'
    <2>1. now \in Nat
      BY DEF IInv, TypeOK
    <2>2. 0..now \subseteq 0..now'
      BY <1>1, <2>1
    <2> QED
      BY <1>2, <2>2 DEF IInv, NoneFromTheFuture
  <1> QED
    BY <1>2, <1>3, <1>4 DEF IInv, StoredIsLastPublished, DecisionsCounted,
       PendingIsUndecided, ActivationWaited, DecidedOnce, Edition

\* Giving an account data writes none of it.
LEMMA AllocateKeepsInv ==
  ASSUME IInv, NEW a \in CurveAccounts, AllocateCurve(a)
  PROVE  IInv'
  <1>1. UNCHANGED <<now, curve, published, activated, vetoed, overwritten>>
    BY DEF AllocateCurve, historyVars
  <1>2. TypeOK'
    BY <1>1 DEF IInv, TypeOK, AllocateCurve, Spaces
  <1> QED
    BY <1>1, <1>2 DEF IInv, StoredIsLastPublished, DecisionsCounted,
       PendingIsUndecided, NoneFromTheFuture, ActivationWaited, DecidedOnce, Edition

\* A publication replaces the snapshot and opens a new edition, which nothing
\* was decided about yet.
LEMMA PublishKeepsInv ==
  ASSUME IInv, NEW a \in CurveAccounts,
         NEW c \in Currencies, NEW d \in BusinessDates, NEW n, NEW r \in RateVectors,
         PublishCurve(a, c, d, n, r)
  PROVE  IInv'
  <1> DEFINE p == [rates |-> r, at |-> now]
  <1>1. p \in Publications /\ now \in Nat
    BY DEF IInv, TypeOK, Publications
  <1>2. /\ a = CurvePda(c, d)
        /\ curve' = [curve EXCEPT ![a] = Snapshot(c, d, now, r)]
        /\ published' = [published EXCEPT ![a] = Append(@, p)]
        /\ overwritten' = overwritten \ {a}
        /\ UNCHANGED <<now, space, activated, vetoed>>
    BY DEF PublishCurve
  <1>3. Len(r) \in 1..MAX_TENORS
    BY AcceptedRatesFit, CurveStoreAssumption DEF PublishCurve
  <1>4. /\ published[a] \in Seq(Publications)
        /\ published'[a] = Append(published[a], p)
        /\ \A b \in CurveAccounts \ {a} : published'[b] = published[b] /\ curve'[b] = curve[b]
        /\ curve'[a] = Snapshot(c, d, now, r)
        /\ CurveAccounts \ overwritten' \subseteq (CurveAccounts \ overwritten) \cup {a}
    BY <1>2 DEF IInv, TypeOK
  <1>5. /\ Len(published'[a]) = Len(published[a]) + 1
        /\ published'[a][Len(published[a]) + 1] = p
        /\ \A i \in 1..Len(published[a]) : published'[a][i] = published[a][i]
        /\ Len(published[a]) \in Nat
    BY <1>1, <1>4
  <1>6. TypeOK'
    <2>1. curve' \in [CurveAccounts -> Snapshots]
      BY <1>1, <1>2, SnapshotType DEF IInv, TypeOK
    <2>2. \A b \in CurveAccounts \ overwritten' :
            curve'[b].status \in Statuses /\ curve'[b].num_tenors <= MAX_TENORS
      <3>1. curve'[a].num_tenors = Len(r) /\ curve'[a].status \in Statuses
        BY <1>4 DEF Snapshot, Statuses
      <3>2. \A b \in CurveAccounts \ (overwritten \cup {a}) :
              curve'[b].status \in Statuses /\ curve'[b].num_tenors <= MAX_TENORS
        BY <1>4 DEF IInv, TypeOK
      <3>3. Len(r) <= MAX_TENORS
        BY <1>3, CurveStoreAssumption
      <3> QED
        BY <1>4, <3>1, <3>2, <3>3
    <2>3. published' \in [CurveAccounts -> Seq(Publications)]
      BY <1>1, <1>2 DEF IInv, TypeOK
    <2> QED
      BY <1>2, <2>1, <2>2, <2>3 DEF IInv, TypeOK
  <1>7. StoredIsLastPublished'
    <2>1. /\ curve'[a].is_initialized
          /\ a = CurvePda(curve'[a].currency, curve'[a].business_date)
          /\ curve'[a].publish_timestamp = now
      BY <1>2, <1>4 DEF Snapshot
    <2>2. RatesOf(curve'[a]) = r
      BY <1>3, <1>4, RatesRoundTrip, CurveStoreAssumption
    <2>3. published'[a][Len(published'[a])] =
            [rates |-> RatesOf(curve'[a]), at |-> curve'[a].publish_timestamp]
      BY <1>5, <2>1, <2>2
    <2>4. ASSUME NEW b \in CurveAccounts \ overwritten', b # a
          PROVE  /\ b \in CurveAccounts \ overwritten
                 /\ curve'[b] = curve[b] /\ published'[b] = published[b]
      BY <1>4, <2>4
    <2> QED
      BY <1>5, <2>1, <2>3, <2>4 DEF IInv, StoredIsLastPublished, Edition
  <1>8. \A dec \in activated \cup vetoed :
          /\ dec.account \in CurveAccounts
          /\ dec.edition \in 1..Len(published[dec.account])
    BY DEF IInv, TypeOK, DecisionsCounted, Decisions
  <1>9. DecisionsCounted'
    <2> SUFFICES ASSUME NEW dec \in activated \cup vetoed
                 PROVE  dec.edition \in 1..Len(published'[dec.account])
      BY <1>2 DEF DecisionsCounted
    <2>1. CASE dec.account = a
      BY <2>1, <1>5, <1>8
    <2>2. CASE dec.account # a
      BY <2>2, <1>4, <1>8
    <2> QED
      BY <2>1, <2>2
  <1>10. PendingIsUndecided'
    <2> SUFFICES ASSUME NEW dec \in activated \cup vetoed, dec.account \notin overwritten',
                        curve'[dec.account].status = "Pending"
                 PROVE  dec.edition # Len(published'[dec.account])
      BY <1>2 DEF PendingIsUndecided, Edition
    <2>1. CASE dec.account = a
      BY <2>1, <1>5, <1>8
    <2>2. CASE dec.account # a
      BY <2>2, <1>4, <1>8 DEF IInv, PendingIsUndecided, Edition
    <2> QED
      BY <2>1, <2>2
  <1>11. NoneFromTheFuture'
    <2>1. curve'[a].publish_timestamp = now /\ now \in 0..now
      BY <1>1, <1>4 DEF Snapshot
    <2> QED
      BY <1>2, <1>4, <2>1 DEF IInv, NoneFromTheFuture
  <1>12. ActivationWaited'
    <2> SUFFICES ASSUME NEW dec \in activated
                 PROVE  /\ dec.edition \in 1..Len(published'[dec.account])
                        /\ dec.at >= published'[dec.account][dec.edition].at + CHALLENGE_PERIOD
      BY <1>2 DEF ActivationWaited
    <2>1. dec.at >= published[dec.account][dec.edition].at + CHALLENGE_PERIOD
      BY DEF IInv, ActivationWaited
    <2>2. published'[dec.account][dec.edition] = published[dec.account][dec.edition]
      BY <1>4, <1>5, <1>8
    <2> QED
      BY <1>2, <1>9, <2>1, <2>2 DEF DecisionsCounted
  <1>13. DecidedOnce'
    BY <1>2 DEF IInv, DecidedOnce
  <1> QED
    BY <1>6, <1>7, <1>9, <1>10, <1>11, <1>12, <1>13 DEF IInv

\* Deciding on an account changes its status and adds at most one decision,
\* about an edition that had none.
LEMMA DecideKeepsHistory ==
  ASSUME IInv, NEW a \in CurveAccounts, curve[a].status = "Pending",
         NEW verdict \in {"Active", "Vetoed"},
         curve' = [curve EXCEPT ![a].status = verdict],
         UNCHANGED <<now, space, published, overwritten>>,
         \/ activated' = activated \cup DecisionOn(a) /\ vetoed' = vetoed
         \/ activated' = activated /\ vetoed' = vetoed \cup DecisionOn(a)
  PROVE  /\ TypeOK'
         /\ StoredIsLastPublished'
         /\ DecisionsCounted'
         /\ PendingIsUndecided'
         /\ NoneFromTheFuture'
         /\ DecidedOnce'
  <1>1. /\ curve[a] \in Snapshots
        /\ curve'[a] = [curve[a] EXCEPT !.status = verdict]
        /\ \A b \in CurveAccounts \ {a} : curve'[b] = curve[b]
        /\ curve' \in [CurveAccounts -> Snapshots]
    BY DEF IInv, TypeOK, Snapshots, Statuses
  <1>2. \A b \in CurveAccounts :
          /\ curve'[b].is_initialized = curve[b].is_initialized
          /\ curve'[b].currency = curve[b].currency
          /\ curve'[b].business_date = curve[b].business_date
          /\ curve'[b].publish_timestamp = curve[b].publish_timestamp
          /\ curve'[b].num_tenors = curve[b].num_tenors
          /\ RatesOf(curve'[b]) = RatesOf(curve[b])
    BY <1>1 DEF Snapshots, RatesOf
  <1>3. DecisionOn(a) \subseteq Decisions
    BY DecisionType DEF IInv
  <1>4. TypeOK'
    <2>1. \A b \in CurveAccounts \ overwritten :
            curve'[b].status \in Statuses /\ curve'[b].num_tenors <= MAX_TENORS
      BY <1>1, <1>2 DEF IInv, TypeOK, Statuses, Snapshots
    <2> QED
      BY <1>1, <1>3, <2>1 DEF IInv, TypeOK
  <1>5. StoredIsLastPublished'
    BY <1>2 DEF IInv, StoredIsLastPublished, Edition
  <1>6. NoneFromTheFuture'
    BY <1>2 DEF IInv, NoneFromTheFuture
  <1>7. \A dec \in DecisionOn(a) :
          /\ dec.account = a
          /\ dec.edition = Edition(a)
          /\ dec.edition \in 1..Len(published[a])
    <2>1. CASE curve[a].is_initialized /\ a \notin overwritten
      <3>1. Edition(a) > 0
        BY <2>1 DEF IInv, StoredIsLastPublished
      <3>2. Edition(a) \in Nat
        BY DEF IInv, TypeOK, Edition
      <3> QED
        BY <2>1, <3>1, <3>2 DEF DecisionOn, Edition
    <2>2. CASE ~(curve[a].is_initialized /\ a \notin overwritten)
      BY <2>2 DEF DecisionOn
    <2> QED
      BY <2>1, <2>2
  <1>8. DecisionsCounted'
    BY <1>7 DEF IInv, DecisionsCounted
  <1>9. PendingIsUndecided'
    <2> SUFFICES ASSUME NEW dec \in activated \cup vetoed \cup DecisionOn(a),
                        dec.account \notin overwritten,
                        curve'[dec.account].status = "Pending"
                 PROVE  dec.edition # Edition(dec.account)
      BY DEF PendingIsUndecided, Edition
    <2>1. dec.account \in CurveAccounts
      BY <1>3 DEF IInv, TypeOK, Decisions
    <2>2. dec.account # a
      BY <1>1, <2>1 DEF Snapshots
    <2> QED
      BY <1>1, <1>7, <2>1, <2>2 DEF IInv, PendingIsUndecided
  <1>10. ASSUME NEW new \in DecisionOn(a), NEW dec \in activated \cup vetoed
         PROVE  <<new.account, new.edition>> # <<dec.account, dec.edition>>
    <2>1. a \notin overwritten
      BY <1>10 DEF DecisionOn
    <2> QED
      BY <1>7, <1>10, <2>1 DEF IInv, PendingIsUndecided
  <1>11. DecidedOnce'
    BY <1>10 DEF IInv, DecidedOnce
  <1> QED
    BY <1>4, <1>5, <1>6, <1>8, <1>9, <1>11

\* Activation waits for the period counted from the snapshot's own timestamp,
\* which is the time of its publication.
LEMMA ActivateKeepsInv ==
  ASSUME IInv, NEW a \in CurveAccounts, ActivateCurve(a)
  PROVE  IInv'
  <1>1. /\ curve[a].status = "Pending"
        /\ curve' = [curve EXCEPT ![a].status = "Active"]
        /\ activated' = activated \cup DecisionOn(a)
        /\ UNCHANGED <<now, space, published, vetoed, overwritten>>
    BY DEF ActivateCurve, CanActivate
  <1>2. /\ TypeOK' /\ StoredIsLastPublished' /\ DecisionsCounted'
        /\ PendingIsUndecided' /\ NoneFromTheFuture' /\ DecidedOnce'
    BY <1>1, DecideKeepsHistory
  <1>3. \A dec \in DecisionOn(a) :
          /\ dec.edition \in 1..Len(published[dec.account])
          /\ dec.at >= published[dec.account][dec.edition].at + CHALLENGE_PERIOD
    <2> SUFFICES ASSUME NEW dec \in DecisionOn(a)
                 PROVE  /\ dec.edition \in 1..Len(published[dec.account])
                        /\ dec.at >= published[dec.account][dec.edition].at + CHALLENGE_PERIOD
      OBVIOUS
    <2>1. /\ curve[a].is_initialized /\ a \notin overwritten
          /\ dec = [account |-> a, edition |-> Edition(a), at |-> now]
      BY DEF DecisionOn
    <2>2. /\ Edition(a) > 0
          /\ published[a][Edition(a)] =
               [rates |-> RatesOf(curve[a]), at |-> curve[a].publish_timestamp]
      BY <2>1 DEF IInv, StoredIsLastPublished
    <2>3. now >= curve[a].publish_timestamp + CHALLENGE_PERIOD
      BY DEF ActivateCurve, CanActivate, ChallengeElapsed
    <2> QED
      BY <2>1, <2>2, <2>3 DEF IInv, TypeOK, Edition
  <1>4. ActivationWaited'
    BY <1>1, <1>3 DEF IInv, ActivationWaited
  <1> QED
    BY <1>2, <1>4 DEF IInv

\* A veto records its own decision and activates nothing.
LEMMA VetoKeepsInv ==
  ASSUME IInv, NEW a \in CurveAccounts, VetoCurve(a)
  PROVE  IInv'
  <1>1. /\ curve[a].status = "Pending"
        /\ curve' = [curve EXCEPT ![a].status = "Vetoed"]
        /\ vetoed' = vetoed \cup DecisionOn(a)
        /\ UNCHANGED <<now, space, published, activated, overwritten>>
    BY DEF VetoCurve, CanVeto
  <1>2. /\ TypeOK' /\ StoredIsLastPublished' /\ DecisionsCounted'
        /\ PendingIsUndecided' /\ NoneFromTheFuture' /\ DecidedOnce'
    BY <1>1, DecideKeepsHistory
  <1>3. ActivationWaited'
    BY <1>1 DEF IInv, ActivationWaited
  <1> QED
    BY <1>2, <1>3 DEF IInv

\* What is written over is no longer a publication, and the histories stay.
LEMMA OverwriteKeepsInv ==
  ASSUME IInv, NEW a \in CurveAccounts, Overwrite(a)
  PROVE  IInv'
  <1>1. PICK w \in Writings,
             array \in {curve[a].rates} \cup {Padded(r) : r \in WrittenRates} :
          curve' = [curve EXCEPT ![a] =
            [is_initialized |-> TRUE, currency |-> w.currency,
             business_date |-> w.business_date, publish_timestamp |-> w.publish_timestamp,
             status |-> w.status, num_tenors |-> w.num_tenors, rates |-> array]]
    BY DEF Overwrite
  <1>2. /\ overwritten' = overwritten \cup {a}
        /\ UNCHANGED <<now, space, published, activated, vetoed>>
    BY DEF Overwrite
  <1>3. array \in [1..MAX_TENORS -> Nat]
    <2>1. curve[a].rates \in [1..MAX_TENORS -> Nat]
      BY DEF IInv, TypeOK, Snapshots
    <2>2. ASSUME NEW r \in WrittenRates PROVE Padded(r) \in [1..MAX_TENORS -> Nat]
      <3>1. r \in Seq(Nat) /\ MAX_TENORS \in Nat
        BY CurveStoreAssumption
      <3> QED
        BY <3>1 DEF Padded
    <2> QED
      BY <2>1, <2>2
  <1>4. /\ curve' \in [CurveAccounts -> Snapshots]
        /\ \A b \in CurveAccounts \ {a} : curve'[b] = curve[b]
    BY <1>1, <1>3, CurveStoreAssumption DEF IInv, TypeOK, Snapshots, Statuses
  <1>5. CurveAccounts \ overwritten' = (CurveAccounts \ overwritten) \ {a}
    BY <1>2
  <1>6. TypeOK'
    BY <1>2, <1>4, <1>5 DEF IInv, TypeOK
  <1>7. StoredIsLastPublished' /\ NoneFromTheFuture'
    BY <1>2, <1>4, <1>5 DEF IInv, StoredIsLastPublished, NoneFromTheFuture, Edition
  <1>8. DecisionsCounted' /\ ActivationWaited' /\ DecidedOnce'
    BY <1>2 DEF IInv, DecisionsCounted, ActivationWaited, DecidedOnce
  <1>9. PendingIsUndecided'
    <2>1. \A dec \in activated \cup vetoed : dec.account \in CurveAccounts
      BY DEF IInv, TypeOK, Decisions
    <2> QED
      BY <1>2, <1>4, <2>1 DEF IInv, PendingIsUndecided, Edition
  <1> QED
    BY <1>6, <1>7, <1>8, <1>9 DEF IInv

\* Every step keeps the inductive invariant.
LEMMA NextKeepsInv == IInv /\ [CurveNext]_curveVars => IInv'
  <1> SUFFICES ASSUME IInv, [CurveNext]_curveVars PROVE IInv'
    OBVIOUS
  <1>1. CASE Tick
    BY <1>1, TickKeepsInv
  <1>2. ASSUME NEW a \in CurveAccounts, AllocateCurve(a) PROVE IInv'
    BY <1>2, AllocateKeepsInv
  <1>3. ASSUME NEW a \in CurveAccounts, PublishSome(a) PROVE IInv'
    BY <1>3, PublishKeepsInv DEF PublishSome
  <1>4. ASSUME NEW a \in CurveAccounts, ActivateCurve(a) PROVE IInv'
    BY <1>4, ActivateKeepsInv
  <1>5. ASSUME NEW a \in CurveAccounts, VetoCurve(a) PROVE IInv'
    BY <1>5, VetoKeepsInv
  <1>6. ASSUME NEW a \in CurveAccounts, Overwrite(a) PROVE IInv'
    BY <1>6, OverwriteKeepsInv
  <1>7. CASE UNCHANGED curveVars
    BY <1>7 DEF curveVars, historyVars, IInv, TypeOK, StoredIsLastPublished,
       DecisionsCounted, PendingIsUndecided, NoneFromTheFuture, ActivationWaited,
       DecidedOnce, Edition
  <1> QED
    BY <1>1, <1>2, <1>3, <1>4, <1>5, <1>6, <1>7 DEF CurveNext

-----------------------------------------------------------------------------
\* The inductive invariant holds in every reachable state, whatever the
\* accounts, the rates and the challenge period are.
THEOREM Invariance == Spec => []IInv
  BY InitInv, NextKeepsInv, PTL DEF Spec

\* The variables of the curve store keep their types (the handlers' writes).
THEOREM TypeCorrect == Spec => []TypeOK
  <1>1. IInv => TypeOK
    BY DEF IInv
  <1> QED
    BY <1>1, Invariance, PTL

\* No publication that nobody wrote over is ever activated before its whole
\* challenge period, whatever other handlers wrote before it and beside it
\* (process_activate_curve, with the clock process_publish_curve restarts).
THEOREM NoEarlyActivation == Spec => []ActivationWaited
  <1>1. IInv => ActivationWaited
    BY DEF IInv
  <1> QED
    BY <1>1, Invariance, PTL

\* No publication is both activated and vetoed while it stands: once it is
\* written over it is decided no more (process_activate_curve,
\* process_veto_curve, and the handlers that write over it).
THEOREM OneDecision == Spec => []DecidedOnce
  <1>1. IInv => DecidedOnce
    BY DEF IInv
  <1> QED
    BY <1>1, Invariance, PTL

\* Unless it was written over since, a snapshot is the last publication in its
\* account, at its own address (process_publish_curve and verify_pda).
THEOREM StoredCurveIsPublished == Spec => []StoredIsLastPublished
  <1>1. IInv => StoredIsLastPublished
    BY DEF IInv
  <1> QED
    BY <1>1, Invariance, PTL

\* The deadlines of veto and activation meet without overlap or gap
\* (process_activate_curve, process_veto_curve).
THEOREM VerdictsExclusive == Spec => []OneVerdictOpen
  <1>1. IInv => OneVerdictOpen
    BY CurveStoreAssumption DEF IInv, TypeOK, Snapshots, OneVerdictOpen, CanVeto,
       CanActivate, ChallengeElapsed, VerifyOwner, Readable, Decodes, Statuses
  <1> QED
    BY <1>1, Invariance, PTL

-----------------------------------------------------------------------------
(* Refinement: each action of the store is an action of the challenge      *)
(* window, or a stutter of it when it moves no register.                   *)

phaseBar   == [a \in CurveAccounts |-> PhaseOf(a)]
contentBar == [a \in CurveAccounts |-> ContentOf(a)]
ageBar     == [a \in CurveAccounts |-> AgeOf(a)]

\* The account holds a publication that waits for its decision.
Awaits(a) == a \notin overwritten /\ curve[a].is_initialized /\ curve[a].status = "Pending"

\* A register is open exactly while its account holds a pending publication.
LEMMA OpenPhase ==
  ASSUME IInv, NEW a \in CurveAccounts
  PROVE  /\ (PhaseOf(a) = "open") <=> Awaits(a)
         /\ (PhaseOf(a) = "blank") <=> (a \notin overwritten /\ ~curve[a].is_initialized)
  <1>1. /\ curve[a].is_initialized \in BOOLEAN
        /\ a \notin overwritten => curve[a].status \in Statuses
    BY DEF IInv, TypeOK, Snapshots
  <1>2. CASE a \in overwritten
    BY <1>2 DEF PhaseOf, Awaits
  <1>3. CASE a \notin overwritten /\ ~curve[a].is_initialized
    BY <1>3 DEF PhaseOf, Awaits
  <1>4. CASE a \notin overwritten /\ curve[a].is_initialized
    <2>1. PhaseOf(a) = CASE curve[a].status = "Pending" -> "open"
                         [] curve[a].status = "Active"  -> "accepted"
                         [] curve[a].status = "Vetoed"  -> "rejected"
      BY <1>4 DEF PhaseOf
    <2> QED
      BY <1>1, <1>4, <2>1 DEF Awaits, Statuses
  <1> QED
    BY <1>2, <1>3, <1>4

\* A move of the clock is a wait of at least one and at most the window.
LEMMA WaitLength ==
  \A t, u \in Nat, w \in Nat \ {0} :
    t < u => (IF u - t < w THEN u - t ELSE w) \in 1..w
  OBVIOUS

\* The age of what was published at p, cut off at the window, grows by the
\* length of the wait, cut off too.
LEMMA AgeGrows ==
  \A p, t, u, w \in Nat :
    p <= t /\ t < u =>
      (IF u < p + w THEN u - p ELSE w) =
        LET age == IF t < p + w THEN t - p ELSE w
            wait == IF u - t < w THEN u - t ELSE w
        IN IF age + wait < w THEN age + wait ELSE w
  OBVIOUS

\* A tick makes every open register older by the same amount, up to the window.
LEMMA TickMaps ==
  ASSUME IInv, Tick
  PROVE  [Challenge!Next]_(Challenge!windowVars)
  <1> DEFINE P == CHALLENGE_PERIOD
             d == IF now' - now < P THEN now' - now ELSE P
  <1>1. /\ now \in Nat /\ now' \in Nat /\ now' > now /\ P \in Nat
        /\ curve' = curve /\ overwritten' = overwritten
    BY CurveStoreAssumption DEF IInv, TypeOK, Tick, historyVars
  <1>2. phaseBar' = phaseBar /\ contentBar' = contentBar
    BY <1>1 DEF phaseBar, contentBar, PhaseOf, ContentOf, RatesOf
  <1>3. CASE P = 0
    <2>1. ASSUME NEW a \in CurveAccounts PROVE AgeOf(a)' = 0 /\ AgeOf(a) = 0
      <3>1. CASE Awaits(a)
        <4>1. curve[a].publish_timestamp \in 0..now
          BY <3>1 DEF Awaits, IInv, NoneFromTheFuture
        <4> QED
          BY <1>1, <1>3, <4>1 DEF AgeOf
      <3>2. CASE ~Awaits(a)
        <4>1. PhaseOf(a) # "open" /\ PhaseOf(a)' # "open"
          BY <1>1, <3>2, OpenPhase DEF PhaseOf
        <4> QED
          BY <4>1 DEF AgeOf
      <3> QED
        BY <3>1, <3>2
    <2>2. ageBar' = ageBar
      BY <2>1 DEF ageBar
    <2> QED
      BY <1>2, <2>2 DEF Challenge!windowVars, phaseBar, contentBar, ageBar
  <1>4. CASE P # 0
    <2>1. d \in 1..P
      BY <1>1, <1>4, WaitLength
    <2>2. ASSUME NEW a \in CurveAccounts
          PROVE  AgeOf(a)' =
                   IF phaseBar[a] = "open"
                   THEN IF ageBar[a] + d < P THEN ageBar[a] + d ELSE P
                   ELSE ageBar[a]
      <3>2. /\ phaseBar[a] = PhaseOf(a) /\ ageBar[a] = AgeOf(a)
            /\ PhaseOf(a)' = PhaseOf(a)
        BY <1>1 DEF phaseBar, ageBar, PhaseOf
      <3>3. CASE Awaits(a)
        <4>0. curve[a].publish_timestamp \in 0..now
          BY <3>3 DEF Awaits, IInv, NoneFromTheFuture
        <4>1. phaseBar[a] = "open" /\ PhaseOf(a)' = "open" /\ PhaseOf(a) = "open"
          BY <3>2, <3>3, OpenPhase
        <4>2. AgeOf(a)' = IF now' < curve[a].publish_timestamp + P
                          THEN now' - curve[a].publish_timestamp ELSE P
          BY <1>1, <4>1 DEF AgeOf
        <4>3. ageBar[a] = IF now < curve[a].publish_timestamp + P
                          THEN now - curve[a].publish_timestamp ELSE P
          BY <3>2, <4>1 DEF AgeOf
        <4>4. PICK p : p = curve[a].publish_timestamp
          OBVIOUS
        <4>5. PICK t, u : t = now /\ u = now'
          OBVIOUS
        <4>6. p \in Nat /\ t \in Nat /\ u \in Nat /\ P \in Nat /\ p <= t /\ t < u
          BY <1>1, <4>0, <4>4, <4>5
        <4>7. /\ AgeOf(a)' = IF u < p + P THEN u - p ELSE P
              /\ ageBar[a] = IF t < p + P THEN t - p ELSE P
              /\ d = IF u - t < P THEN u - t ELSE P
          BY <4>2, <4>3, <4>4, <4>5
        <4>8. AgeOf(a)' = IF ageBar[a] + d < P THEN ageBar[a] + d ELSE P
          BY ONLY <4>6, <4>7, AgeGrows
        <4> QED
          BY <4>1, <4>8
      <3>4. CASE ~Awaits(a)
        <4>1. PhaseOf(a) # "open"
          BY <3>4, OpenPhase
        <4> QED
          BY <3>2, <4>1 DEF AgeOf
      <3> QED
        BY <3>3, <3>4
    <2>3. Challenge!Wait(d)
      BY <1>1, <1>2, <2>2 DEF Challenge!Wait, Challenge!Older, phaseBar, contentBar, ageBar
    <2> QED
      BY <2>1, <2>3 DEF Challenge!Next
  <1> QED
    BY <1>3, <1>4

\* An account that a step leaves alone keeps its register.
LEMMA OthersStay ==
  ASSUME NEW b \in CurveAccounts, curve'[b] = curve[b], now' = now,
         b \in overwritten' <=> b \in overwritten
  PROVE  PhaseOf(b)' = PhaseOf(b) /\ ContentOf(b)' = ContentOf(b) /\ AgeOf(b)' = AgeOf(b)
  <1>1. PhaseOf(b)' = PhaseOf(b)
    <2>1. CASE b \in overwritten
      BY <2>1 DEF PhaseOf
    <2>2. CASE b \notin overwritten /\ ~curve[b].is_initialized
      BY <2>2 DEF PhaseOf
    <2>3. CASE b \notin overwritten /\ curve[b].is_initialized
      <3>1. PhaseOf(b) = CASE curve[b].status = "Pending" -> "open"
                           [] curve[b].status = "Active"  -> "accepted"
                           [] curve[b].status = "Vetoed"  -> "rejected"
        BY <2>3 DEF PhaseOf
      <3>2. PhaseOf(b)' = CASE curve'[b].status = "Pending" -> "open"
                            [] curve'[b].status = "Active"  -> "accepted"
                            [] curve'[b].status = "Vetoed"  -> "rejected"
        BY <2>3 DEF PhaseOf
      <3> QED
        BY <3>1, <3>2
    <2> QED
      BY <2>1, <2>2, <2>3
  <1>2. ContentOf(b)' = ContentOf(b)
    BY DEF ContentOf, RatesOf
  <1> QED
    BY <1>1, <1>2 DEF AgeOf

\* A publication opens its register, whatever phase it was in.
LEMMA PublishMaps ==
  ASSUME IInv, NEW a \in CurveAccounts,
         NEW c \in Currencies, NEW d \in BusinessDates, NEW n, NEW r \in RateVectors,
         PublishCurve(a, c, d, n, r)
  PROVE  Challenge!Open(a, r)
  <1>1. /\ curve'[a] = Snapshot(c, d, now, r)
        /\ now' = now /\ now \in Nat
        /\ overwritten' = overwritten \ {a}
        /\ Len(r) \in 1..MAX_TENORS
    BY AcceptedRatesFit, CurveStoreAssumption DEF PublishCurve, IInv, TypeOK
  <1>2. PhaseOf(a)' = "open" /\ ContentOf(a)' = r
    <2>1. RatesOf(curve'[a]) = r
      BY <1>1, RatesRoundTrip, CurveStoreAssumption
    <2>2. curve'[a].is_initialized /\ curve'[a].status = "Pending" /\ a \notin overwritten'
      BY <1>1 DEF Snapshot
    <2>3. PhaseOf(a)' = CASE curve'[a].status = "Pending" -> "open"
                          [] curve'[a].status = "Active"  -> "accepted"
                          [] curve'[a].status = "Vetoed"  -> "rejected"
      BY <2>2 DEF PhaseOf
    <2>4. ContentOf(a)' = RatesOf(curve[a])'
      BY <2>2 DEF ContentOf
    <2>5. RatesOf(curve[a])' = RatesOf(curve'[a])
      BY DEF RatesOf
    <2> QED
      BY <2>1, <2>2, <2>3, <2>4, <2>5
  <1>3. AgeOf(a)' = 0
    <2>1. AgeOf(a)' = IF now < now + CHALLENGE_PERIOD
                      THEN now - now ELSE CHALLENGE_PERIOD
      BY <1>1, <1>2 DEF AgeOf, Snapshot
    <2> QED
      BY <1>1, <2>1, CurveStoreAssumption
  <1>4. \A b \in CurveAccounts \ {a} :
          PhaseOf(b)' = PhaseOf(b) /\ ContentOf(b)' = ContentOf(b) /\ AgeOf(b)' = AgeOf(b)
    <2>1. \A b \in CurveAccounts \ {a} :
            /\ curve'[b] = curve[b]
            /\ b \in overwritten' <=> b \in overwritten
      BY <1>1 DEF PublishCurve, IInv, TypeOK
    <2> QED
      BY <1>1, <2>1, OthersStay
  <1>5. /\ phaseBar' = [phaseBar EXCEPT ![a] = "open"]
        /\ contentBar' = [contentBar EXCEPT ![a] = r]
        /\ ageBar' = [ageBar EXCEPT ![a] = 0]
    BY <1>2, <1>3, <1>4 DEF phaseBar, contentBar, ageBar
  <1> QED
    BY <1>5 DEF Challenge!Open, phaseBar, contentBar, ageBar

\* A decision on a pending publication closes its register; one on an account
\* that is blank or was written over moves no register.
LEMMA DecideMaps ==
  ASSUME IInv, NEW a \in CurveAccounts, curve[a].status = "Pending",
         NEW verdict \in {"Active", "Vetoed"},
         curve' = [curve EXCEPT ![a].status = verdict], now' = now,
         overwritten' = overwritten
  PROVE  /\ contentBar' = contentBar
         /\ IF Awaits(a)
            THEN /\ phaseBar[a] = "open"
                 /\ phaseBar' = [phaseBar EXCEPT ![a] =
                                   IF verdict = "Active" THEN "accepted" ELSE "rejected"]
                 /\ ageBar' = [ageBar EXCEPT ![a] = 0]
            ELSE phaseBar' = phaseBar /\ ageBar' = ageBar
  <1>1. /\ curve[a] \in Snapshots
        /\ curve'[a] = [curve[a] EXCEPT !.status = verdict]
        /\ \A b \in CurveAccounts \ {a} : curve'[b] = curve[b]
    BY DEF IInv, TypeOK
  <1>2. /\ RatesOf(curve[a])' = RatesOf(curve[a])
        /\ curve'[a].is_initialized = curve[a].is_initialized
        /\ curve'[a].status = verdict
    BY <1>1 DEF Snapshots, RatesOf
  <1>3. \A b \in CurveAccounts \ {a} :
          PhaseOf(b)' = PhaseOf(b) /\ ContentOf(b)' = ContentOf(b) /\ AgeOf(b)' = AgeOf(b)
    BY <1>1, OthersStay
  <1>4. ContentOf(a)' = ContentOf(a)
    BY <1>2 DEF ContentOf
  <1>5. contentBar' = contentBar
    BY <1>3, <1>4 DEF contentBar
  <1>6. CASE Awaits(a)
    <2>1. phaseBar[a] = "open"
      BY <1>6, OpenPhase DEF phaseBar
    <2>2. PhaseOf(a)' = IF verdict = "Active" THEN "accepted" ELSE "rejected"
      <3>1. a \notin overwritten /\ curve'[a].is_initialized
        BY <1>2, <1>6 DEF Awaits
      <3>2. PhaseOf(a)' = CASE curve'[a].status = "Pending" -> "open"
                            [] curve'[a].status = "Active"  -> "accepted"
                            [] curve'[a].status = "Vetoed"  -> "rejected"
        BY <3>1 DEF PhaseOf
      <3> QED
        BY <1>2, <3>2
    <2>3. AgeOf(a)' = 0
      BY <2>2 DEF AgeOf
    <2>4. /\ phaseBar' = [phaseBar EXCEPT ![a] =
                            IF verdict = "Active" THEN "accepted" ELSE "rejected"]
          /\ ageBar' = [ageBar EXCEPT ![a] = 0]
      BY <1>3, <2>2, <2>3 DEF phaseBar, ageBar
    <2> QED
      BY <1>5, <1>6, <2>1, <2>4
  <1>7. CASE ~Awaits(a)
    <2>1. a \in overwritten \/ ~curve[a].is_initialized
      BY <1>7 DEF Awaits
    <2>2. PhaseOf(a)' = PhaseOf(a)
      BY <1>2, <2>1 DEF PhaseOf
    <2>3. PhaseOf(a) # "open"
      BY <1>7, OpenPhase
    <2>4. AgeOf(a)' = AgeOf(a)
      BY <2>2, <2>3 DEF AgeOf
    <2>5. phaseBar' = phaseBar /\ ageBar' = ageBar
      BY <1>3, <2>2, <2>4 DEF phaseBar, ageBar
    <2> QED
      BY <1>5, <1>7, <2>5
  <1> QED
    BY <1>6, <1>7

\* An activation accepts a register whose window has passed.
LEMMA ActivateMaps ==
  ASSUME IInv, NEW a \in CurveAccounts, ActivateCurve(a)
  PROVE  [Challenge!Next]_(Challenge!windowVars)
  <1>1. /\ curve[a].status = "Pending"
        /\ curve' = [curve EXCEPT ![a].status = "Active"]
        /\ now' = now /\ overwritten' = overwritten
        /\ now >= curve[a].publish_timestamp + CHALLENGE_PERIOD
    BY DEF ActivateCurve, CanActivate, ChallengeElapsed
  <1>2. CASE Awaits(a)
    <2>1. ageBar[a] = CHALLENGE_PERIOD
      <3>1. ~(now < curve[a].publish_timestamp + CHALLENGE_PERIOD)
        BY <1>1, CurveStoreAssumption DEF IInv, TypeOK, Snapshots
      <3> QED
        BY <1>2, <3>1, OpenPhase DEF ageBar, AgeOf
    <2>2. Challenge!Accept(a)
      BY <1>1, <1>2, <2>1, DecideMaps DEF Challenge!Accept, phaseBar, contentBar, ageBar
    <2> QED
      BY <2>2 DEF Challenge!Next
  <1>3. CASE ~Awaits(a)
    BY <1>1, <1>3, DecideMaps DEF Challenge!windowVars, phaseBar, contentBar, ageBar
  <1> QED
    BY <1>2, <1>3

\* A veto rejects a register whose window is still open.
LEMMA VetoMaps ==
  ASSUME IInv, NEW a \in CurveAccounts, VetoCurve(a)
  PROVE  [Challenge!Next]_(Challenge!windowVars)
  <1>1. /\ curve[a].status = "Pending"
        /\ curve' = [curve EXCEPT ![a].status = "Vetoed"]
        /\ now' = now /\ overwritten' = overwritten
        /\ now < curve[a].publish_timestamp + CHALLENGE_PERIOD
    BY DEF VetoCurve, CanVeto
  <1>2. CASE Awaits(a)
    <2>1. ageBar[a] < CHALLENGE_PERIOD
      <3>1. ageBar[a] = now - curve[a].publish_timestamp
        BY <1>1, <1>2, OpenPhase DEF ageBar, AgeOf
      <3>2. now \in Nat /\ curve[a].publish_timestamp \in Int
        BY DEF IInv, TypeOK, Snapshots
      <3> QED
        BY <1>1, <3>1, <3>2, CurveStoreAssumption
    <2>2. Challenge!Reject(a)
      BY <1>1, <1>2, <2>1, DecideMaps DEF Challenge!Reject, phaseBar, contentBar, ageBar
    <2> QED
      BY <2>2 DEF Challenge!Next
  <1>3. CASE ~Awaits(a)
    BY <1>1, <1>3, DecideMaps DEF Challenge!windowVars, phaseBar, contentBar, ageBar
  <1> QED
    BY <1>2, <1>3

\* Writing over an account voids its register.
LEMMA OverwriteMaps ==
  ASSUME IInv, NEW a \in CurveAccounts, Overwrite(a)
  PROVE  Challenge!Void(a)
  <1>1. overwritten' = overwritten \cup {a} /\ now' = now
    BY DEF Overwrite
  <1>2. \A b \in CurveAccounts \ {a} :
          PhaseOf(b)' = PhaseOf(b) /\ ContentOf(b)' = ContentOf(b) /\ AgeOf(b)' = AgeOf(b)
    <2>1. \A b \in CurveAccounts \ {a} :
            /\ curve'[b] = curve[b]
            /\ b \in overwritten' <=> b \in overwritten
      BY <1>1 DEF Overwrite, IInv, TypeOK
    <2> QED
      BY <1>1, <2>1, OthersStay
  <1>3. PhaseOf(a)' = "void"
    BY <1>1 DEF PhaseOf
  <1>4. ContentOf(a)' = <<>> /\ AgeOf(a)' = 0
    BY <1>1, <1>3 DEF ContentOf, AgeOf
  <1>5. /\ phaseBar' = [phaseBar EXCEPT ![a] = "void"]
        /\ contentBar' = [contentBar EXCEPT ![a] = <<>>]
        /\ ageBar' = [ageBar EXCEPT ![a] = 0]
    BY <1>2, <1>3, <1>4 DEF phaseBar, contentBar, ageBar
  <1> QED
    BY <1>5 DEF Challenge!Void, phaseBar, contentBar, ageBar

\* A step that moves neither the clock nor a snapshot moves no register.
LEMMA StillMaps ==
  ASSUME UNCHANGED <<now, curve, overwritten>>
  PROVE  [Challenge!Next]_(Challenge!windowVars)
  <1>1. \A b \in CurveAccounts :
          PhaseOf(b)' = PhaseOf(b) /\ ContentOf(b)' = ContentOf(b) /\ AgeOf(b)' = AgeOf(b)
    BY OthersStay
  <1>2. phaseBar' = phaseBar /\ contentBar' = contentBar /\ ageBar' = ageBar
    BY <1>1 DEF phaseBar, contentBar, ageBar
  <1> QED
    BY <1>2 DEF Challenge!windowVars, phaseBar, contentBar, ageBar

\* Whatever the oracle, the guardian and the clock do, the store behaves as a
\* challenge window: no content is accepted that was not open to rejection for
\* the whole period, and what other handlers write over is void until it is
\* published again (process_publish_curve, process_activate_curve,
\* process_veto_curve and the handlers that check no address together).
THEOREM Refinement == Spec => ImplementsChallengeWindow
  <1>1. Init => Challenge!Init
    <2> SUFFICES ASSUME Init PROVE Challenge!Init
      OBVIOUS
    <2>1. ASSUME NEW a \in CurveAccounts
          PROVE  PhaseOf(a) = "blank" /\ ContentOf(a) = <<>> /\ AgeOf(a) = 0
      <3>1. a \notin overwritten /\ curve[a] = BlankSnapshot /\ ~curve[a].is_initialized
        BY DEF Init, BlankSnapshot
      <3>2. PhaseOf(a) = "blank"
        BY <3>1 DEF PhaseOf
      <3> QED
        BY <3>1, <3>2, BlankHasNoRates DEF ContentOf, AgeOf
    <2>2. /\ phaseBar = [a \in CurveAccounts |-> "blank"]
          /\ contentBar = [a \in CurveAccounts |-> <<>>]
          /\ ageBar = [a \in CurveAccounts |-> 0]
      BY <2>1 DEF phaseBar, contentBar, ageBar
    <2> QED
      BY <2>2 DEF Challenge!Init, phaseBar, contentBar, ageBar
  <1>2. IInv /\ [CurveNext]_curveVars => [Challenge!Next]_(Challenge!windowVars)
    <2> SUFFICES ASSUME IInv, [CurveNext]_curveVars
                 PROVE  [Challenge!Next]_(Challenge!windowVars)
      OBVIOUS
    <2>1. CASE Tick
      BY <2>1, TickMaps
    <2>2. ASSUME NEW a \in CurveAccounts, AllocateCurve(a)
          PROVE  [Challenge!Next]_(Challenge!windowVars)
      <3>1. UNCHANGED <<now, curve, overwritten>>
        BY <2>2 DEF AllocateCurve, historyVars
      <3> QED
        BY <3>1, StillMaps
    <2>3. ASSUME NEW a \in CurveAccounts, PublishSome(a)
          PROVE  [Challenge!Next]_(Challenge!windowVars)
      BY <2>3, PublishMaps DEF PublishSome, Challenge!Next
    <2>4. ASSUME NEW a \in CurveAccounts, ActivateCurve(a)
          PROVE  [Challenge!Next]_(Challenge!windowVars)
      BY <2>4, ActivateMaps
    <2>5. ASSUME NEW a \in CurveAccounts, VetoCurve(a)
          PROVE  [Challenge!Next]_(Challenge!windowVars)
      BY <2>5, VetoMaps
    <2>6. ASSUME NEW a \in CurveAccounts, Overwrite(a)
          PROVE  [Challenge!Next]_(Challenge!windowVars)
      BY <2>6, OverwriteMaps DEF Challenge!Next
    <2>7. CASE UNCHANGED curveVars
      BY <2>7, StillMaps DEF curveVars, historyVars
    <2> QED
      BY <2>1, <2>2, <2>3, <2>4, <2>5, <2>6, <2>7 DEF CurveNext
  <1> QED
    BY <1>1, <1>2, Invariance, PTL DEF Spec, ImplementsChallengeWindow, Challenge!Spec

-----------------------------------------------------------------------------
\* The swap book only reads the curve store: each of its steps is a step of
\* the store or leaves the store alone, so whatever is proved of the store
\* holds of the two together (process_create_swap and process_revalue_swap
\* write the swap account only).
THEOREM SwapsOnlyReadCurves == SwapSpec => Spec
  <1>1. SwapInit => Init
    BY DEF SwapInit
  <1>2. [SwapNext]_allVars => [CurveNext]_curveVars
    <2>1. ASSUME NEW s \in SwapAccounts, AllocateSwap(s) PROVE UNCHANGED curveVars
      BY <2>1 DEF AllocateSwap
    <2>2. ASSUME NEW s \in SwapAccounts, RevalueSome(s) PROVE UNCHANGED curveVars
      BY <2>2 DEF RevalueSome, RevalueSwap
    <2>3. ASSUME NEW s \in SwapAccounts, CreateSome(s) PROVE UNCHANGED curveVars
      BY <2>3 DEF CreateSome, CreateSwap
    <2>4. ASSUME NEW s \in SwapAccounts, OverwriteSwap(s) PROVE UNCHANGED curveVars
      BY <2>4 DEF OverwriteSwap
    <2>5. CASE UNCHANGED allVars
      BY <2>5 DEF allVars
    <2> QED
      BY <2>1, <2>2, <2>3, <2>4, <2>5 DEF SwapNext
  <1> QED
    BY <1>1, <1>2, PTL DEF SwapSpec, Spec

\* The curve store of the two together keeps its inductive invariant.
LEMMA StoreInvariance == SwapSpec => []IInv
  BY SwapsOnlyReadCurves, Invariance, PTL

-----------------------------------------------------------------------------
(* The inductive invariant.  MarkedOffSettledRates looks at the histories  *)
(* of the store; a swap call establishes it because an active snapshot is  *)
(* tied to the decision that activated it, and a step of the store keeps   *)
(* it because histories only grow and no publication is decided twice.     *)

TermsRecords ==
  [economics : Nat, currency : Nat, settlement : Nat, payment_dates : Seq(Nat)]

Swaps ==
  [is_initialized : BOOLEAN, payer : Nat, receiver : Nat, economics : Nat,
   currency : Nat, settlement : Nat, payment_dates : Seq(Nat), active : BOOLEAN,
   last_mtm : [terms : TermsRecords, rates : Seq(Nat)], last_reval_time : Nat]

Bases ==
  [account : CurveAccounts \cup {NoBasis.account}, edition : Nat, overwritten : BOOLEAN]

SwapTypes ==
  /\ swapSpace \in [SwapAccounts -> Spaces]
  /\ swap \in [SwapAccounts -> Swaps]
  /\ basis \in [SwapAccounts -> Bases]
  /\ rewritten \subseteq SwapAccounts
  /\ \A s \in SwapAccounts : Len(swap[s].payment_dates) <= MAX_PAYMENTS

\* The publication that an active snapshot holds was activated.
ActiveWasActivated ==
  \A a \in CurveAccounts \ overwritten :
    curve[a].is_initialized /\ curve[a].status = "Active" =>
      \E dec \in activated :
        dec.account = a /\ dec.edition = Edition(a) /\ dec.at <= now

\* An active swap has its basis in a curve account.
BasisIsCurve ==
  \A s \in SwapAccounts : swap[s].active => basis[s].account \in CurveAccounts

SwapInv ==
  /\ SwapTypes
  /\ ActiveWasActivated
  /\ BasisIsCurve
  /\ MarkedOffSettledRates
  /\ MarkIsOfStoredTerms

-----------------------------------------------------------------------------
\* The initial state satisfies the invariant.
LEMMA InitSwapInv == SwapInit => SwapInv
  <1> SUFFICES ASSUME SwapInit PROVE SwapInv
    OBVIOUS
  <1>1. /\ swapSpace = [s \in SwapAccounts |-> "none"]
        /\ swap = [s \in SwapAccounts |-> BlankSwap]
        /\ basis = [s \in SwapAccounts |-> NoBasis]
        /\ rewritten = {}
    BY DEF SwapInit
  <1>2. BlankSwap \in Swaps /\ NoBasis \in Bases /\ Len(BlankSwap.payment_dates) <= MAX_PAYMENTS
    BY SwapBookAssumption
       DEF BlankSwap, Swaps, Mtm, Terms, TermsRecords, NoBasis, Bases
  <1>3. SwapTypes
    BY <1>1, <1>2 DEF SwapTypes, Spaces
  <1>4. \A s \in SwapAccounts : ~swap[s].is_initialized /\ ~swap[s].active
    BY <1>1 DEF BlankSwap
  <1>5. ActiveWasActivated
    BY DEF SwapInit, Init, BlankSnapshot, ActiveWasActivated
  <1> QED
    BY <1>3, <1>4, <1>5 DEF SwapInv, BasisIsCurve, MarkedOffSettledRates, MarkIsOfStoredTerms

\* What a step of the store does to its histories: they only grow.
LEMMA HistoriesGrow ==
  ASSUME IInv, CurveNext
  PROVE  /\ activated \subseteq activated'
         /\ \A a \in CurveAccounts :
              /\ Len(published'[a]) >= Len(published[a])
              /\ \A i \in 1..Len(published[a]) : published'[a][i] = published[a][i]
  <1>1. ASSUME UNCHANGED published, activated \subseteq activated'
        PROVE  /\ activated \subseteq activated'
               /\ \A a \in CurveAccounts :
                    /\ Len(published'[a]) >= Len(published[a])
                    /\ \A i \in 1..Len(published[a]) : published'[a][i] = published[a][i]
    BY <1>1 DEF IInv, TypeOK
  <1>2. CASE Tick
    BY <1>1, <1>2 DEF Tick, historyVars
  <1>3. ASSUME NEW a \in CurveAccounts, AllocateCurve(a)
        PROVE  UNCHANGED published /\ activated \subseteq activated'
    BY <1>3 DEF AllocateCurve, historyVars
  <1>4. ASSUME NEW a \in CurveAccounts, ActivateCurve(a)
        PROVE  UNCHANGED published /\ activated \subseteq activated'
    BY <1>4 DEF ActivateCurve
  <1>5. ASSUME NEW a \in CurveAccounts, VetoCurve(a)
        PROVE  UNCHANGED published /\ activated \subseteq activated'
    BY <1>5 DEF VetoCurve
  <1>6. ASSUME NEW a \in CurveAccounts, PublishSome(a)
        PROVE  /\ activated \subseteq activated'
               /\ \A b \in CurveAccounts :
                    /\ Len(published'[b]) >= Len(published[b])
                    /\ \A i \in 1..Len(published[b]) : published'[b][i] = published[b][i]
    <2>1. PICK r \in RateVectors :
             published' = [published EXCEPT ![a] = Append(@, [rates |-> r, at |-> now])]
      BY <1>6 DEF PublishSome, PublishCurve
    <2>2. activated' = activated
      BY <1>6 DEF PublishSome, PublishCurve
    <2>3. [rates |-> r, at |-> now] \in Publications
      BY DEF IInv, TypeOK, Publications
    <2>4. ASSUME NEW b \in CurveAccounts
          PROVE  /\ Len(published'[b]) >= Len(published[b])
                 /\ \A i \in 1..Len(published[b]) : published'[b][i] = published[b][i]
      <3>1. published[b] \in Seq(Publications) /\ Len(published[b]) \in Nat
        BY DEF IInv, TypeOK
      <3>2. published'[b] = IF b = a THEN Append(published[b], [rates |-> r, at |-> now])
                                     ELSE published[b]
        BY <2>1 DEF IInv, TypeOK
      <3> QED
        BY <2>3, <3>1, <3>2, AppendProperties
    <2> QED
      BY <2>2, <2>4
  <1>7. ASSUME NEW a \in CurveAccounts, Overwrite(a)
        PROVE  UNCHANGED published /\ activated \subseteq activated'
    BY <1>7 DEF Overwrite
  <1> QED
    BY <1>1, <1>2, <1>3, <1>4, <1>5, <1>6, <1>7 DEF CurveNext

\* A snapshot only becomes active with a decision, and the next publication
\* makes it pending again.
LEMMA StoreKeepsActive ==
  ASSUME IInv, ActiveWasActivated, CurveNext
  PROVE  ActiveWasActivated'
  <1>1. CASE Tick
    <2>1. /\ now \in Nat /\ now' \in Nat /\ now < now'
          /\ UNCHANGED <<curve, published, activated, overwritten>>
      BY <1>1, CurveStoreAssumption DEF Tick, historyVars, IInv, TypeOK
    <2>2. \A dec \in activated : dec.at \in Nat
      BY DEF IInv, TypeOK, Decisions
    <2>3. \A dec \in activated : dec.at <= now => dec.at <= now'
      BY <2>1, <2>2
    <2> QED
      BY <2>1, <2>3 DEF ActiveWasActivated, Edition
  <1>2. ASSUME NEW a \in CurveAccounts, AllocateCurve(a)
        PROVE  ActiveWasActivated'
    BY <1>2 DEF AllocateCurve, historyVars, ActiveWasActivated, Edition
  <1>3. ASSUME NEW a \in CurveAccounts, PublishSome(a)
        PROVE  ActiveWasActivated'
    <2>1. /\ UNCHANGED <<now, activated>>
          /\ curve'[a].status = "Pending"
          /\ \A b \in CurveAccounts \ {a} : curve'[b] = curve[b] /\ published'[b] = published[b]
          /\ overwritten' = overwritten \ {a}
      BY <1>3 DEF PublishSome, PublishCurve, Snapshot, IInv, TypeOK
    <2> QED
      BY <2>1 DEF ActiveWasActivated, Edition
  <1>4. ASSUME NEW a \in CurveAccounts, ActivateCurve(a)
        PROVE  ActiveWasActivated'
    <2>1. /\ UNCHANGED <<now, published, overwritten>>
          /\ activated' = activated \cup DecisionOn(a)
          /\ curve'[a].is_initialized = curve[a].is_initialized
          /\ \A b \in CurveAccounts \ {a} : curve'[b] = curve[b]
          /\ now \in Nat
      BY <1>4 DEF ActivateCurve, IInv, TypeOK, Snapshots
    <2>2. curve[a].is_initialized /\ a \notin overwritten =>
            [account |-> a, edition |-> Edition(a), at |-> now] \in activated'
      BY <2>1 DEF DecisionOn
    <2> QED
      BY <2>1, <2>2 DEF ActiveWasActivated, Edition
  <1>5. ASSUME NEW a \in CurveAccounts, VetoCurve(a)
        PROVE  ActiveWasActivated'
    <2>1. /\ UNCHANGED <<now, published, activated, overwritten>>
          /\ curve'[a].status = "Vetoed"
          /\ \A b \in CurveAccounts \ {a} : curve'[b] = curve[b]
      BY <1>5 DEF VetoCurve, IInv, TypeOK, Snapshots
    <2> QED
      BY <2>1 DEF ActiveWasActivated, Edition
  <1>6. ASSUME NEW a \in CurveAccounts, Overwrite(a)
        PROVE  ActiveWasActivated'
    <2>1. /\ UNCHANGED <<now, published, activated>>
          /\ overwritten' = overwritten \cup {a}
          /\ \A b \in CurveAccounts \ {a} : curve'[b] = curve[b]
      BY <1>6 DEF Overwrite, IInv, TypeOK
    <2> QED
      BY <2>1 DEF ActiveWasActivated, Edition
  <1> QED
    BY <1>1, <1>2, <1>3, <1>4, <1>5, <1>6 DEF CurveNext

\* A step of the store takes nothing from under a stored mark: its publication
\* stays, it stays activated, and so it is not vetoed either.
LEMMA StoreKeepsMarks ==
  ASSUME IInv, IInv', SwapInv, CurveNext, UNCHANGED swapVars
  PROVE  SwapInv'
  <1>1. UNCHANGED <<swapSpace, swap, basis, rewritten>>
    BY DEF swapVars
  <1>2. SwapTypes' /\ BasisIsCurve' /\ MarkIsOfStoredTerms'
    BY <1>1 DEF SwapInv, SwapTypes, BasisIsCurve, MarkIsOfStoredTerms
  <1>3. ActiveWasActivated'
    BY StoreKeepsActive DEF SwapInv
  <1>4. MarkedOffSettledRates'
    <2> SUFFICES ASSUME NEW s \in SwapAccounts, swap[s].active, ~basis[s].overwritten
                 PROVE  LET b == basis[s]
                            publication == published'[b.account][b.edition]
                        IN  /\ b.edition \in 1..Len(published'[b.account])
                            /\ swap[s].last_mtm.rates = publication.rates
                            /\ swap[s].last_reval_time >= publication.at + CHALLENGE_PERIOD
                            /\ \E dec \in activated' :
                                 /\ dec.account = b.account /\ dec.edition = b.edition
                                 /\ dec.at <= swap[s].last_reval_time
                            /\ \A dec \in vetoed' :
                                 <<dec.account, dec.edition>> # <<b.account, b.edition>>
      BY <1>1 DEF MarkedOffSettledRates
    <2> DEFINE b == basis[s]
    <2>1. b.account \in CurveAccounts
      BY DEF SwapInv, BasisIsCurve
    <2>2. /\ b.edition \in 1..Len(published[b.account])
          /\ swap[s].last_mtm.rates = published[b.account][b.edition].rates
          /\ swap[s].last_reval_time >=
               published[b.account][b.edition].at + CHALLENGE_PERIOD
          /\ \E dec \in activated :
               /\ dec.account = b.account /\ dec.edition = b.edition
               /\ dec.at <= swap[s].last_reval_time
      BY DEF SwapInv, MarkedOffSettledRates
    <2>3. /\ Len(published'[b.account]) >= Len(published[b.account])
          /\ published'[b.account][b.edition] = published[b.account][b.edition]
      BY <2>1, <2>2, HistoriesGrow
    <2>4. Len(published[b.account]) \in Nat /\ Len(published'[b.account]) \in Nat
      BY <2>1 DEF IInv, TypeOK
    <2>5. b.edition \in 1..Len(published'[b.account])
      BY <2>2, <2>3, <2>4
    <2>6. PICK yes \in activated' :
             /\ yes.account = b.account /\ yes.edition = b.edition
             /\ yes.at <= swap[s].last_reval_time
      BY <2>2, HistoriesGrow
    <2>7. \A dec \in vetoed' : <<dec.account, dec.edition>> # <<b.account, b.edition>>
      BY <2>6 DEF IInv, DecidedOnce
    <2> QED
      BY <2>2, <2>3, <2>5, <2>6, <2>7
  <1> QED
    BY <1>2, <1>3, <1>4 DEF SwapInv

-----------------------------------------------------------------------------
\* Giving an account data writes none of it.
LEMMA AllocateKeepsMarks ==
  ASSUME SwapInv, NEW s \in SwapAccounts, AllocateSwap(s)
  PROVE  SwapInv'
  <1>1. /\ UNCHANGED <<now, curve, published, activated, vetoed, overwritten>>
        /\ UNCHANGED <<swap, basis, rewritten>>
        /\ swapSpace' \in [SwapAccounts -> Spaces]
    BY DEF AllocateSwap, SwapInv, SwapTypes, curveVars, historyVars, Spaces
  <1> QED
    BY <1>1 DEF SwapInv, SwapTypes, ActiveWasActivated, BasisIsCurve,
       MarkedOffSettledRates, MarkIsOfStoredTerms, Edition

\* Rates that a swap can be priced off are those of the last publication of
\* their account; it was activated after its challenge period, by now, and
\* never vetoed.
LEMMA PricedOffSettled ==
  ASSUME IInv, ActiveWasActivated, NEW a \in CurveAccounts \ overwritten, NEW terms,
         PricesOff(a, terms)
  PROVE  LET publication == published[a][Edition(a)]
         IN  /\ Edition(a) \in 1..Len(published[a])
             /\ RatesOf(curve[a]) = publication.rates
             /\ now >= publication.at + CHALLENGE_PERIOD
             /\ \E dec \in activated :
                  dec.account = a /\ dec.edition = Edition(a) /\ dec.at <= now
             /\ \A dec \in vetoed : <<dec.account, dec.edition>> # <<a, Edition(a)>>
  <1>1. RatesOf(curve[a]) # <<>> /\ curve[a].status = "Active"
    BY DEF PricesOff, Bootstraps
  <1>2. curve[a].is_initialized
    BY <1>1 DEF IInv, StoredIsLastPublished
  <1>3. PICK yes \in activated :
           yes.account = a /\ yes.edition = Edition(a) /\ yes.at <= now
    BY <1>1, <1>2 DEF ActiveWasActivated
  <1>4. yes.edition \in 1..Len(published[a])
        /\ yes.at >= published[a][Edition(a)].at + CHALLENGE_PERIOD
    BY <1>3 DEF IInv, ActivationWaited
  <1>5. RatesOf(curve[a]) = published[a][Edition(a)].rates
    <2>1. published[a][Edition(a)] =
            [rates |-> RatesOf(curve[a]), at |-> curve[a].publish_timestamp]
      BY <1>2 DEF IInv, StoredIsLastPublished
    <2> QED
      BY <2>1
  <1>6. \A dec \in vetoed : <<dec.account, dec.edition>> # <<a, Edition(a)>>
    BY <1>3 DEF IInv, DecidedOnce
  <1>7. now >= published[a][Edition(a)].at + CHALLENGE_PERIOD
    <2>1. yes.at \in Nat /\ now \in Nat /\ CHALLENGE_PERIOD \in Nat
      BY CurveStoreAssumption DEF IInv, TypeOK, Decisions
    <2>2. published[a][Edition(a)] \in Publications
      BY <1>3, <1>4 DEF IInv, TypeOK
    <2> QED
      BY <1>3, <1>4, <2>1, <2>2 DEF Publications
  <1> QED
    BY <1>3, <1>4, <1>5, <1>6, <1>7

\* A new mark belongs to the rates it was computed from.
LEMMA MarkKeepsInv ==
  ASSUME IInv, SwapInv, NEW s \in SwapAccounts, NEW a \in CurveAccounts, NEW terms,
         PricesOff(a, terms), NEW new \in Swaps,
         Len(new.payment_dates) <= MAX_PAYMENTS,
         swap' = [swap EXCEPT ![s] = new], basis' = [basis EXCEPT ![s] = BasisIn(a)],
         UNCHANGED <<curveVars, swapSpace>>,
         rewritten' \in {rewritten, rewritten \ {s}},
         new.last_mtm = Mtm(TermsOf(new), RatesOf(curve[a])), new.last_reval_time = now,
         s \notin rewritten' /\ new.is_initialized =>
           s = SwapPda(new.payer, new.receiver, new.settlement)
  PROVE  SwapInv'
  <1>1. UNCHANGED <<now, curve, published, activated, vetoed, overwritten>>
    BY DEF curveVars, historyVars
  <1>2. /\ swap'[s] = new /\ basis'[s] = BasisIn(a)
        /\ \A t \in SwapAccounts \ {s} : swap'[t] = swap[t] /\ basis'[t] = basis[t]
    BY DEF SwapInv, SwapTypes
  <1>3. /\ BasisIn(a) \in Bases
        /\ BasisIn(a).account = a /\ BasisIn(a).edition = Edition(a)
        /\ BasisIn(a).overwritten <=> a \in overwritten
    <2>1. Edition(a) \in Nat
      BY DEF Edition, IInv, TypeOK
    <2>2. PICK yes : yes = (a \in overwritten)
      OBVIOUS
    <2>3. BasisIn(a) = [account |-> a, edition |-> Edition(a), overwritten |-> yes]
      BY <2>2 DEF BasisIn
    <2>4. yes \in BOOLEAN
      BY <2>2
    <2>5. /\ BasisIn(a) \in Bases
          /\ BasisIn(a).account = a /\ BasisIn(a).edition = Edition(a)
          /\ BasisIn(a).overwritten = yes
      BY <2>1, <2>3, <2>4 DEF Bases
    <2> QED
      BY <2>2, <2>5
  <1>4. SwapTypes'
    BY <1>2, <1>3 DEF SwapInv, SwapTypes
  <1>5. ActiveWasActivated' /\ BasisIsCurve'
    BY <1>1, <1>2, <1>3 DEF SwapInv, ActiveWasActivated, BasisIsCurve, Edition
  <1>6. MarkedOffSettledRates'
    <2>1. new.last_mtm.rates = RatesOf(curve[a]) /\ new.last_reval_time = now
      BY DEF Mtm
    <2>2. ActiveWasActivated
      BY DEF SwapInv
    <2> QED
      BY <1>1, <1>2, <1>3, <2>1, <2>2, PricedOffSettled DEF SwapInv, MarkedOffSettledRates
  <1>7. MarkIsOfStoredTerms'
    <2>1. new.last_mtm.terms = TermsOf(new)
      BY DEF Mtm
    <2> QED
      BY <1>2, <2>1 DEF SwapInv, MarkIsOfStoredTerms
  <1> QED
    BY <1>4, <1>5, <1>6, <1>7 DEF SwapInv

\* process_create_swap keeps the invariant, whatever the account held.
LEMMA CreateKeepsInv ==
  ASSUME IInv, SwapInv, NEW s \in SwapAccounts, CreateSome(s)
  PROVE  SwapInv'
  <1>1. PICK deal \in Deals, a \in CurveAccounts, economics \in Economics,
             currency \in SwapCurrencies, settlement \in Settlements, dates \in Schedules :
               CreateSwap(s, a, deal[1], deal[2],
                          Terms(economics, currency, settlement, dates))
    BY DEF CreateSome
  <1> DEFINE terms == Terms(economics, currency, settlement, dates)
             new == NewSwap(deal[1], deal[2], terms, RatesOf(curve[a]))
  <1>2. /\ terms \in TermsRecords
        /\ terms.economics = economics /\ terms.currency = currency
        /\ terms.settlement = settlement /\ terms.payment_dates = dates
    BY SwapBookAssumption DEF Terms, TermsRecords
  <1>3. deal[1] \in Nat /\ deal[2] \in Nat
    BY SwapBookAssumption
  <1>4. RatesOf(curve[a]) \in Seq(Nat) /\ now \in Nat
    BY RatesAreNumbers DEF IInv, TypeOK
  <1>5. TermsOf(new) = terms
    BY <1>2 DEF TermsOf, NewSwap, Terms
  <1>6. new \in Swaps
    BY <1>2, <1>3, <1>4 DEF NewSwap, Swaps, Mtm, TermsRecords
  <1>7. /\ s = SwapPda(deal[1], deal[2], settlement)
        /\ Len(dates) <= MAX_PAYMENTS
        /\ PricesOff(a, terms)
        /\ swap' = [swap EXCEPT ![s] = new]
        /\ basis' = [basis EXCEPT ![s] = BasisIn(a)]
        /\ rewritten' = rewritten \ {s}
        /\ UNCHANGED <<curveVars, swapSpace>>
    BY <1>1, <1>2 DEF CreateSwap, FitsSwap
  <1>8. /\ new.last_mtm = Mtm(TermsOf(new), RatesOf(curve[a]))
        /\ new.last_reval_time = now
        /\ new.payment_dates = dates
        /\ SwapPda(new.payer, new.receiver, new.settlement) = SwapPda(deal[1], deal[2], settlement)
    BY <1>2, <1>5 DEF NewSwap
  <1> HIDE DEF terms, new
  <1> QED
    BY <1>6, <1>7, <1>8, MarkKeepsInv

\* process_revalue_swap keeps the invariant: the terms stay, and the mark is
\* computed from them.
LEMMA RevalueKeepsInv ==
  ASSUME IInv, SwapInv, NEW s \in SwapAccounts, RevalueSome(s)
  PROVE  SwapInv'
  <1>1. PICK deal \in Deals, i \in {1, 2}, a \in CurveAccounts : RevalueSwap(deal[i], s, a)
    BY DEF RevalueSome
  <1> DEFINE mark == Mtm(TermsOf(swap[s]), RatesOf(curve[a]))
             new == [swap[s] EXCEPT !.last_mtm = mark, !.last_reval_time = now]
  <1>2. swap[s] \in Swaps
    BY DEF SwapInv, SwapTypes
  <1>3. TermsOf(swap[s]) \in TermsRecords
    BY <1>2 DEF TermsOf, Terms, TermsRecords, Swaps
  <1>4. mark \in [terms : TermsRecords, rates : Seq(Nat)] /\ now \in Nat
    BY <1>3, RatesAreNumbers DEF Mtm, IInv, TypeOK
  <1>5. /\ new \in Swaps
        /\ new.last_mtm = mark /\ new.last_reval_time = now
        /\ new.is_initialized = swap[s].is_initialized
        /\ new.payer = swap[s].payer /\ new.receiver = swap[s].receiver
        /\ new.economics = swap[s].economics /\ new.currency = swap[s].currency
        /\ new.settlement = swap[s].settlement
        /\ new.payment_dates = swap[s].payment_dates
    BY <1>2, <1>4 DEF Swaps
  <1>6. TermsOf(new) = TermsOf(swap[s])
    BY <1>5 DEF TermsOf
  <1>7. /\ PricesOff(a, TermsOf(swap[s]))
        /\ swap' = [swap EXCEPT ![s] = new]
        /\ basis' = [basis EXCEPT ![s] = BasisIn(a)]
        /\ UNCHANGED <<curveVars, swapSpace, rewritten>>
    BY <1>1 DEF RevalueSwap
  <1>8. /\ s \notin rewritten' /\ new.is_initialized =>
             s = SwapPda(new.payer, new.receiver, new.settlement)
        /\ Len(new.payment_dates) <= MAX_PAYMENTS
    BY <1>5, <1>7 DEF SwapInv, SwapTypes, MarkIsOfStoredTerms
  <1> HIDE DEF new
  <1> QED
    BY <1>5, <1>6, <1>7, <1>8, MarkKeepsInv

\* Writing over a swap leaves its mark and its basis; only of its terms nothing
\* is promised until it is created again.
LEMMA OverwriteSwapKeepsInv ==
  ASSUME SwapInv, NEW s \in SwapAccounts, OverwriteSwap(s)
  PROVE  SwapInv'
  <1> DEFINE Made(w) == {w.terms, [TermsOf(swap[s]) EXCEPT !.economics = w.terms.economics]}
  <1>0. PICK w \in SwapWritings : \E terms \in Made(w) :
          swap' = [swap EXCEPT ![s] =
            [@ EXCEPT !.is_initialized = TRUE, !.payer = w.payer, !.receiver = w.receiver,
                      !.economics = terms.economics, !.currency = terms.currency,
                      !.settlement = terms.settlement,
                      !.payment_dates = terms.payment_dates]]
    BY DEF OverwriteSwap
  <1>1. PICK terms \in Made(w) :
          swap' = [swap EXCEPT ![s] =
            [@ EXCEPT !.is_initialized = TRUE, !.payer = w.payer, !.receiver = w.receiver,
                      !.economics = terms.economics, !.currency = terms.currency,
                      !.settlement = terms.settlement,
                      !.payment_dates = terms.payment_dates]]
    BY <1>0
  <1>2. /\ rewritten' = rewritten \cup {s}
        /\ UNCHANGED <<swapSpace, basis>>
        /\ UNCHANGED <<now, curve, published, activated, vetoed, overwritten>>
    BY DEF OverwriteSwap, curveVars, historyVars
  <1>3. swap[s] \in Swaps /\ Len(swap[s].payment_dates) <= MAX_PAYMENTS
    BY DEF SwapInv, SwapTypes
  <1>4. /\ w.payer \in Nat /\ w.receiver \in Nat /\ w.terms \in TermsRecords
        /\ Len(w.terms.payment_dates) <= MAX_PAYMENTS
    BY SwapBookAssumption DEF TermsRecords
  <1>5. terms \in TermsRecords /\ Len(terms.payment_dates) <= MAX_PAYMENTS
    <2>1. /\ TermsOf(swap[s]) \in TermsRecords
          /\ TermsOf(swap[s]).payment_dates = swap[s].payment_dates
      BY <1>3 DEF TermsOf, Terms, TermsRecords, Swaps
    <2> QED
      BY <1>3, <1>4, <2>1 DEF TermsRecords
  <1>6. /\ swap'[s] \in Swaps
        /\ swap'[s].active = swap[s].active /\ swap'[s].last_mtm = swap[s].last_mtm
        /\ swap'[s].last_reval_time = swap[s].last_reval_time
        /\ Len(swap'[s].payment_dates) <= MAX_PAYMENTS
        /\ \A t \in SwapAccounts \ {s} : swap'[t] = swap[t]
        /\ swap' \in [SwapAccounts -> Swaps]
    <2>1. swap \in [SwapAccounts -> Swaps]
      BY DEF SwapInv, SwapTypes
    <2> DEFINE new == [swap[s] EXCEPT
                         !.is_initialized = TRUE, !.payer = w.payer, !.receiver = w.receiver,
                         !.economics = terms.economics, !.currency = terms.currency,
                         !.settlement = terms.settlement,
                         !.payment_dates = terms.payment_dates]
    <2>2. /\ new \in Swaps
          /\ new.active = swap[s].active /\ new.last_mtm = swap[s].last_mtm
          /\ new.last_reval_time = swap[s].last_reval_time
          /\ new.payment_dates = terms.payment_dates
      BY <1>3, <1>4, <1>5 DEF Swaps, TermsRecords
    <2>3. swap' = [swap EXCEPT ![s] = new]
      BY <1>1
    <2> HIDE DEF new
    <2> QED
      BY <1>5, <2>1, <2>2, <2>3
  <1>7. SwapTypes'
    BY <1>2, <1>6 DEF SwapInv, SwapTypes
  <1>8. ActiveWasActivated'
    BY <1>2 DEF SwapInv, ActiveWasActivated, Edition
  <1>9. \A t \in SwapAccounts :
          /\ swap'[t].active = swap[t].active /\ swap'[t].last_mtm = swap[t].last_mtm
          /\ swap'[t].last_reval_time = swap[t].last_reval_time
    BY <1>6
  <1>10. BasisIsCurve' /\ MarkedOffSettledRates'
    BY <1>2, <1>9 DEF SwapInv, BasisIsCurve, MarkedOffSettledRates
  <1>11. MarkIsOfStoredTerms'
    BY <1>2, <1>6 DEF SwapInv, MarkIsOfStoredTerms
  <1> QED
    BY <1>7, <1>8, <1>10, <1>11 DEF SwapInv

\* Every step keeps the invariant.
LEMMA NextKeepsSwapInv == IInv /\ IInv' /\ SwapInv /\ [SwapNext]_allVars => SwapInv'
  <1> SUFFICES ASSUME IInv, IInv', SwapInv, [SwapNext]_allVars PROVE SwapInv'
    OBVIOUS
  <1>1. CASE CurveNext /\ UNCHANGED swapVars
    BY <1>1, StoreKeepsMarks
  <1>2. ASSUME NEW s \in SwapAccounts, AllocateSwap(s) PROVE SwapInv'
    BY <1>2, AllocateKeepsMarks
  <1>3. ASSUME NEW s \in SwapAccounts, RevalueSome(s) PROVE SwapInv'
    BY <1>3, RevalueKeepsInv
  <1>4. ASSUME NEW s \in SwapAccounts, CreateSome(s) PROVE SwapInv'
    BY <1>4, CreateKeepsInv
  <1>5. ASSUME NEW s \in SwapAccounts, OverwriteSwap(s) PROVE SwapInv'
    BY <1>5, OverwriteSwapKeepsInv
  <1>6. CASE UNCHANGED allVars
    BY <1>6 DEF allVars, curveVars, historyVars, swapVars, SwapInv, SwapTypes,
       ActiveWasActivated, BasisIsCurve, MarkedOffSettledRates, MarkIsOfStoredTerms, Edition
  <1> QED
    BY <1>1, <1>2, <1>3, <1>4, <1>5, <1>6 DEF SwapNext

-----------------------------------------------------------------------------
\* The invariant of the swap book holds in every reachable state, whatever the
\* deals, the schedules, the rates and the challenge period are.
THEOREM SwapInvariance == SwapSpec => []SwapInv
  BY StoreInvariance, InitSwapInv, NextKeepsSwapInv, PTL DEF SwapSpec

\* The variables of the swap book keep their types, and a swap never holds
\* more payment dates than it has room for (process_create_swap).
THEOREM SwapTypeCorrect == SwapSpec => []SwapTypeOK
  <1>1. SwapInv => SwapTypeOK
    BY DEF SwapInv, SwapTypes, SwapTypeOK, Swaps, Bases
  <1> QED
    BY <1>1, SwapInvariance, PTL

\* Every mark of an active swap is of rates that stood open to veto for the
\* whole challenge period, were activated and never vetoed, however the store
\* was republished between the swap calls and whatever was written over the
\* swap: all but a mark off a curve that was written over
\* (process_create_swap, process_revalue_swap).
THEOREM MarksAreSettled == SwapSpec => []MarkedOffSettledRates
  <1>1. SwapInv => MarkedOffSettledRates
    BY DEF SwapInv
  <1> QED
    BY <1>1, SwapInvariance, PTL

\* Every stored mark values the terms stored beside it, at the swap's own
\* address, unless the swap was written over since it was created
\* (process_create_swap, process_revalue_swap).
THEOREM MarksAreOfTheirTerms == SwapSpec => []MarkIsOfStoredTerms
  <1>1. SwapInv => MarkIsOfStoredTerms
    BY DEF SwapInv
  <1> QED
    BY <1>1, SwapInvariance, PTL

=============================================================================
