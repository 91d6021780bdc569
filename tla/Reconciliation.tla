--------------------------- MODULE Reconciliation ---------------------------
(***************************************************************************)
(* Two banks reconcile their portfolios of one date: each submits the      *)
(* hashes of its trades into a shared account, in any order and as often   *)
(* as it likes, and anyone asks the program to compare the two lists.      *)
(* Handlers that belong to other accounts may write over what they         *)
(* submitted: see Overwrite.                                               *)
(***************************************************************************)
EXTENDS Accounts, Sequences, FiniteSets

CONSTANTS
  Reconcilers,       \* <<bank, counterparty>>: who submits against whom
  Dates,             \* curve dates that are reconciled
  Batches,           \* sequences of commitments handed to SubmitCommitment, of
                     \* any bytes: the zero hash is one
  Writings,          \* what other handlers leave at the front of the account
  MAX_RECON_TRADES   \* state.rs: commitments an account has room for

ASSUME ReconciliationAssumption ==
  /\ Reconcilers \subseteq Nat \X Nat
  /\ Dates \subseteq Nat
  /\ Batches \subseteq Seq(Nat)
  /\ Writings \subseteq [bank_a : Nat, bank_b : Nat, curve_date : Nat, num_trades : Nat,
                         a_submitted : BOOLEAN, b_submitted : BOOLEAN, decodes : BOOLEAN,
                         front : Seq(Nat)]
  /\ MAX_RECON_TRADES \in Nat

VARIABLES
  space,       \* space[x]: how the data length of x compares with ReconciliationAccount::LEN
  recon,       \* recon[x]: the ReconciliationAccount in account x
  lastA,       \* history: the batch bank A submitted last, <<>> before the first
  lastB,       \* history: the batch bank B submitted last
  checked,     \* history: checked[x], no submission since the last comparison
  committed,   \* history: committed[x], every <<side, slot, hash>> submitted to x
  overwritten  \* history: the accounts other handlers wrote over

historyVars == <<lastA, lastB, checked, committed, overwritten>>

reconVars == <<space, recon, historyVars>>

-----------------------------------------------------------------------------
(* Data. *)

ReconAccounts == {ReconPda(r[1], r[2], d) : r \in Reconcilers, d \in Dates}

Slots == 1..MAX_RECON_TRADES

\* The hash and the match status of an array entry nobody wrote.
Zero == 0

MATCHED == 1

MISMATCHED == 2

\* What SubmitCommitment starts from when it cannot decode the account.  The
\* field decodes stands for the bytes of the two flags, which are 0 or 1.
EmptyRecon(bank_a, bank_b, curve_date) ==
  [decodes |-> TRUE, is_initialized |-> FALSE, bank_a |-> bank_a, bank_b |-> bank_b,
   curve_date |-> curve_date, num_trades |-> 0,
   a_submitted |-> FALSE, b_submitted |-> FALSE,
   commitments_a |-> [i \in Slots |-> Zero], commitments_b |-> [i \in Slots |-> Zero],
   match_status |-> [i \in Slots |-> Zero], num_matched |-> 0, num_mismatched |-> 0]

\* The zero bytes of a new account.
BlankRecon == EmptyRecon(0, 0, 0)

\* A batch is written over the front of the array; the rest stays.
WithFront(array, batch) ==
  [i \in Slots |-> IF i <= Len(batch) THEN batch[i] ELSE array[i]]

\* What a batch adds to the commitments of a side.
Committing(side, batch) == {<<side, i, batch[i]>> : i \in 1..Len(batch)}

\* read_account::<ReconciliationAccount>
Decodes(x) == Readable(space[x]) /\ recon[x].decodes

-----------------------------------------------------------------------------
Init ==
  /\ space = [x \in ReconAccounts |-> "none"]
  /\ recon = [x \in ReconAccounts |-> BlankRecon]
  /\ lastA = [x \in ReconAccounts |-> <<>>]
  /\ lastB = [x \in ReconAccounts |-> <<>>]
  /\ checked = [x \in ReconAccounts |-> FALSE]
  /\ committed = [x \in ReconAccounts |-> {}]
  /\ overwritten = {}

\* An account is created for the program, zeroed, with a length of its creator's.
Allocate(x) ==
  /\ space[x] = "none"
  /\ \E size \in Spaces \ {"none"} : space' = [space EXCEPT ![x] = size]
  /\ UNCHANGED <<recon, historyVars>>

\* Mutated: the bound of the array is forgotten.
AcceptableBatchUnbounded(refs, batch) ==
  /\ refs = Len(batch)
  /\ refs # 0

AcceptableBatch(refs, batch) ==
  /\ refs = Len(batch)
  /\ refs # 0
  /\ refs <= MAX_RECON_TRADES

\* Mutated: the account is never read, every submission starts from nothing.
LoadedAnew(x, first, second, date) == EmptyRecon(first, second, date)

\* read_account(...).unwrap_or(...): data of any other length, also that of a
\* longer account which holds an earlier submission, counts as no data.
Loaded(x, first, second, date) ==
  IF Decodes(x) THEN recon[x] ELSE EmptyRecon(first, second, date)

\* process_submit_commitment: the number of trades becomes the submitter's,
\* its own side is overwritten; the other side, the statuses and the counters
\* of an earlier comparison stay.
Submit(x, bank, counterparty, date, refs, batch) ==
  LET first == Lower(bank, counterparty)
      second == Higher(bank, counterparty)
      new == [Loaded(x, first, second, date) EXCEPT
                !.is_initialized = TRUE, !.bank_a = first, !.bank_b = second,
                !.curve_date = date, !.num_trades = refs]
  IN
  /\ VerifyOwner(space[x])
  /\ AcceptableBatch(refs, batch)
  /\ x = ReconPda(bank, counterparty, date)
  /\ Writable(space[x])
  /\ \/ /\ bank = first
        /\ recon' = [recon EXCEPT ![x] =
             [new EXCEPT !.commitments_a = WithFront(@, batch), !.a_submitted = TRUE]]
        /\ lastA' = [lastA EXCEPT ![x] = batch]
        /\ committed' = [committed EXCEPT ![x] = @ \cup Committing("A", batch)]
        /\ UNCHANGED lastB
     \/ /\ bank # first
        /\ recon' = [recon EXCEPT ![x] =
             [new EXCEPT !.commitments_b = WithFront(@, batch), !.b_submitted = TRUE]]
        /\ lastB' = [lastB EXCEPT ![x] = batch]
        /\ committed' = [committed EXCEPT ![x] = @ \cup Committing("B", batch)]
        /\ UNCHANGED lastA
  /\ checked' = [checked EXCEPT ![x] = FALSE]
  /\ UNCHANGED <<space, overwritten>>

\* process_init_config, process_publish_attestation and
\* process_propose_compression, handed a reconciliation account: the sides,
\* the date, the number of trades, both flags and the first commitments of
\* side A become anything; what comes after them stays.
Overwrite(x) ==
  /\ VerifyOwner(space[x])
  /\ \E w \in Writings :
       recon' = [recon EXCEPT ![x] =
         [@ EXCEPT !.decodes = w.decodes, !.is_initialized = TRUE,
                   !.bank_a = w.bank_a, !.bank_b = w.bank_b, !.curve_date = w.curve_date,
                   !.num_trades = w.num_trades,
                   !.a_submitted = w.a_submitted, !.b_submitted = w.b_submitted,
                   !.commitments_a = WithFront(recon[x].commitments_a, w.front)]]
  /\ overwritten' = overwritten \cup {x}
  /\ UNCHANGED <<space, lastA, lastB, checked, committed>>

\* Mutated: the last trade is not looked at.
ComparedButLast(r) == 1..(r.num_trades - 1)

\* Mutated: the whole array is looked at.
ComparedAll(r) == Slots

\* The trades a comparison looks at.
Compared(r) == 1..r.num_trades

Agreeing(r) == {i \in Compared(r) : r.commitments_a[i] = r.commitments_b[i]}

Verdict(r) ==
  [r EXCEPT !.match_status = [i \in Slots |-> IF i \in Agreeing(r) THEN MATCHED
                                              ELSE IF i \in Compared(r) THEN MISMATCHED
                                              ELSE @[i]],
            !.num_matched = Cardinality(Agreeing(r)),
            !.num_mismatched = Cardinality(Compared(r) \ Agreeing(r))]

\* process_check_matches: the two banks and the date it is called with are
\* not used, and a number of trades beyond the arrays panics.
CheckMatches(x) ==
  /\ VerifyOwner(space[x])
  /\ Decodes(x)
  /\ recon[x].a_submitted
  /\ recon[x].b_submitted
  /\ recon[x].num_trades <= MAX_RECON_TRADES
  /\ recon' = [recon EXCEPT ![x] = Verdict(@)]
  /\ checked' = [checked EXCEPT ![x] = TRUE]
  /\ UNCHANGED <<space, lastA, lastB, committed, overwritten>>

SubmitSome(x) ==
  \E r \in Reconcilers, d \in Dates, n \in 0..(MAX_RECON_TRADES + 1), batch \in Batches :
    Submit(x, r[1], r[2], d, n, batch)

Next ==
  \E x \in ReconAccounts :
    Allocate(x) \/ SubmitSome(x) \/ CheckMatches(x) \/ Overwrite(x)

Spec == Init /\ [][Next]_reconVars

-----------------------------------------------------------------------------
(* Properties. *)

Statuses == {Zero, MATCHED, MISMATCHED}

\* The variables keep their types; the sides of an account that was not
\* written over are those of its address, in ascending order, and it counts no
\* more trades than it has room for.
TypeOK ==
  /\ space \in [ReconAccounts -> Spaces]
  /\ \A x \in ReconAccounts :
       /\ recon[x].match_status \in [Slots -> Statuses]
       /\ recon[x].commitments_a \in [Slots -> Nat]
       /\ recon[x].commitments_b \in [Slots -> Nat]
  /\ overwritten \subseteq ReconAccounts
  /\ \A x \in ReconAccounts \ overwritten :
       /\ recon[x].num_trades \in 0..MAX_RECON_TRADES
       /\ recon[x].is_initialized =>
            /\ recon[x].bank_a <= recon[x].bank_b
            /\ x = ReconPda(recon[x].bank_a, recon[x].bank_b, recon[x].curve_date)

\* A side's last batch stays in an account that no other handler wrote over,
\* whatever the other side submits and however often the lists are compared:
\* no submission is lost to the other bank's read, change and write of the
\* whole account.
SubmissionsKept ==
  \A x \in ReconAccounts \ overwritten :
    Readable(space[x]) =>
      /\ recon[x].a_submitted <=> lastA[x] # <<>>
      /\ recon[x].b_submitted <=> lastB[x] # <<>>
      /\ \A i \in 1..Len(lastA[x]) : recon[x].commitments_a[i] = lastA[x][i]
      /\ \A i \in 1..Len(lastB[x]) : recon[x].commitments_b[i] = lastB[x][i]

\* When the two last batches are equally long, a comparison is about these
\* batches and nothing older: a trade is matched exactly when the two banks
\* committed to the same hash, and the counters add up to the batch, unless
\* another handler wrote over the account.
VerdictOfLastBatches ==
  \A x \in ReconAccounts \ overwritten :
    LET n == recon[x].num_trades
    IN  checked[x] /\ Len(lastA[x]) = Len(lastB[x]) =>
          /\ n = Len(lastA[x])
          /\ \A i \in 1..n :
               recon[x].match_status[i] =
                 IF lastA[x][i] = lastB[x][i] THEN MATCHED ELSE MISMATCHED
          /\ recon[x].num_matched = Cardinality({i \in 1..n : lastA[x][i] = lastB[x][i]})
          /\ recon[x].num_matched + recon[x].num_mismatched = n

\* A trade is only ever matched on a hash that both banks committed to in its
\* slot, or on the zero hash that one of them did: the entries the other bank
\* did not write are zero as well.  This holds of verdicts that outlive a
\* resubmission too, in every account no other handler wrote over.
MatchesWereCommitted ==
  \A x \in ReconAccounts \ overwritten, i \in Slots :
    LET ByA(h) == <<"A", i, h>> \in committed[x]
        ByB(h) == <<"B", i, h>> \in committed[x]
    IN  recon[x].match_status[i] = MATCHED =>
          \/ ByA(Zero) \/ ByB(Zero)
          \/ \E c \in committed[x] : ByA(c[3]) /\ ByB(c[3])

=============================================================================
