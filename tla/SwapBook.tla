------------------------------ MODULE SwapBook ------------------------------
(***************************************************************************)
(* Bilateral swaps priced off the curve store: a swap is created and later *)
(* revalued with the rates of whichever active curve account the caller    *)
(* passes.  The two components share the clock and the curve accounts, and *)
(* a curve may be republished or decided between any two swap calls.       *)
(*                                                                         *)
(* A mark to market is kept as the inputs it is computed from: which terms *)
(* and which rates a stored mark belongs to is what can go wrong here.     *)
(***************************************************************************)
EXTENDS CurveStore

CONSTANTS
  Deals,             \* <<payer, receiver>>: the keys that trade, in their roles
  Economics,         \* a notional and a fixed rate
  SwapCurrencies,    \* currency ids a payer asks for
  Settlements,       \* settlement times a payer asks for
  Schedules,         \* sequences of payment dates a payer asks for
  Unsolvable,        \* rates from which the bootstrap gets no discount factor
  SwapWritings,      \* what other handlers leave in a swap: two sides and terms
  MAX_PAYMENTS       \* state.rs: payment dates a swap has room for

ASSUME SwapBookAssumption ==
  /\ Deals \subseteq Nat \X Nat
  /\ Economics \subseteq Nat
  /\ SwapCurrencies \subseteq Nat
  /\ Settlements \subseteq Nat
  /\ Schedules \subseteq Seq(Nat)
  /\ SwapWritings \subseteq
       [payer : Nat, receiver : Nat,
        terms : [economics : Nat, currency : Nat, settlement : Nat, payment_dates : Seq(Nat)]]
  /\ \A w \in SwapWritings : Len(w.terms.payment_dates) <= MAX_PAYMENTS
  /\ MAX_PAYMENTS \in Nat

VARIABLES
  swapSpace,  \* swapSpace[s]: how the data length of s compares with SwapAccount::LEN
  swap,       \* swap[s]: the SwapAccount in account s
  basis,      \* history: the curve account and edition behind swap[s].last_mtm
  rewritten   \* history: the accounts written over since their swap was created

swapVars == <<swapSpace, swap, basis, rewritten>>

allVars == <<curveVars, swapVars>>

-----------------------------------------------------------------------------
(* Data. *)

SwapAccounts == {SwapPda(deal[1], deal[2], t) : deal \in Deals, t \in Settlements}

\* compute_swap_mtm: a function of the terms of a swap and of curve rates.
Mtm(terms, rates) == [terms |-> terms, rates |-> rates]

Terms(economics, currency, settlement, payment_dates) ==
  [economics |-> economics, currency |-> currency,
   settlement |-> settlement, payment_dates |-> payment_dates]

TermsOf(sw) ==
  Terms(sw.economics, sw.currency, sw.settlement, sw.payment_dates)

\* The zero bytes of an account nothing was written to; in particular active
\* is false.
BlankSwap ==
  [is_initialized |-> FALSE, payer |-> 0, receiver |-> 0, economics |-> 0,
   currency |-> 0, settlement |-> 0, payment_dates |-> <<>>, active |-> FALSE,
   last_mtm |-> Mtm(Terms(0, 0, 0, <<>>), <<>>), last_reval_time |-> 0]

NoBasis == [account |-> <<"curve", 0, 0>>, edition |-> 0, overwritten |-> FALSE]

BasisIn(a) == [account |-> a, edition |-> Edition(a), overwritten |-> a \in overwritten]

-----------------------------------------------------------------------------
(* Pricing, as far as it decides whether a call succeeds. *)

\* Currency::from_u8
KnownCurrency(currency) == currency \in 0..7

\* conventions.rs: Australian and Canadian dollars pay twice a year.
PaymentsPerYear(currency) == IF currency \in {5, 6} THEN 2 ELSE 1

\* bootstrap_ois: the dates ascend from the settlement, and no discount
\* factor of the recursion leaves the range (0, 1].
Bootstraps(rates, payment_dates, settlement, currency) ==
  /\ rates # <<>>
  /\ Len(payment_dates) = Len(rates) * PaymentsPerYear(currency)
  /\ \A i \in 2..Len(payment_dates) : payment_dates[i] > payment_dates[i - 1]
  /\ payment_dates[1] > settlement
  /\ rates \notin Unsolvable

\* Mutated: rates that are pending or vetoed will do.
PricesOffAnyStatus(a, terms) ==
  /\ VerifyOwner(space[a])
  /\ Decodes(a)
  /\ KnownCurrency(terms.currency)
  /\ Bootstraps(RatesOf(curve[a]), terms.payment_dates, terms.settlement, terms.currency)

\* What both swap handlers ask of the curve account before they use its rates.
PricesOff(a, terms) ==
  /\ VerifyOwner(space[a])
  /\ Decodes(a)
  /\ curve[a].status = "Active"
  /\ KnownCurrency(terms.currency)
  /\ Bootstraps(RatesOf(curve[a]), terms.payment_dates, terms.settlement, terms.currency)

-----------------------------------------------------------------------------
SwapInit ==
  /\ Init
  /\ swapSpace = [s \in SwapAccounts |-> "none"]
  /\ swap = [s \in SwapAccounts |-> BlankSwap]
  /\ basis = [s \in SwapAccounts |-> NoBasis]
  /\ rewritten = {}

\* An account is created for the program, zeroed, with a length of its creator's.
AllocateSwap(s) ==
  /\ swapSpace[s] = "none"
  /\ \E size \in Spaces \ {"none"} : swapSpace' = [swapSpace EXCEPT ![s] = size]
  /\ UNCHANGED <<curveVars, swap, basis, rewritten>>

\* Mutated: the bound of the array is forgotten.
FitsAnySwap(payment_dates) == Len(payment_dates) \in Nat

FitsSwap(payment_dates) == Len(payment_dates) <= MAX_PAYMENTS

\* Mutated: the count of payments is one short.
NewSwapOnePaymentShort(payer, receiver, terms, rates) ==
  [is_initialized |-> TRUE, payer |-> payer, receiver |-> receiver,
   economics |-> terms.economics, currency |-> terms.currency,
   settlement |-> terms.settlement, payment_dates |-> Tail(terms.payment_dates),
   active |-> TRUE, last_mtm |-> Mtm(terms, rates), last_reval_time |-> now]

NewSwap(payer, receiver, terms, rates) ==
  [is_initialized |-> TRUE, payer |-> payer, receiver |-> receiver,
   economics |-> terms.economics, currency |-> terms.currency,
   settlement |-> terms.settlement, payment_dates |-> terms.payment_dates,
   active |-> TRUE, last_mtm |-> Mtm(terms, rates), last_reval_time |-> now]

\* process_create_swap: whatever the account held is replaced.
CreateSwap(s, a, payer, receiver, terms) ==
  /\ VerifyOwner(swapSpace[s])
  /\ s = SwapPda(payer, receiver, terms.settlement)
  /\ FitsSwap(terms.payment_dates)
  /\ PricesOff(a, terms)
  /\ Writable(swapSpace[s])
  /\ swap' = [swap EXCEPT ![s] = NewSwap(payer, receiver, terms, RatesOf(curve[a]))]
  /\ basis' = [basis EXCEPT ![s] = BasisIn(a)]
  /\ rewritten' = rewritten \ {s}
  /\ UNCHANGED <<curveVars, swapSpace>>

\* process_init_config, process_publish_attestation and
\* process_propose_compression, handed a swap account: the sides, the notional
\* and the rate become anything, the longer two write on into the currency,
\* the settlement, the count and the first dates; a count beyond the array
\* fails as no dates do.  Whether the swap is active stays, and so does its
\* mark.
OverwriteSwap(s) ==
  /\ VerifyOwner(swapSpace[s])
  /\ \E w \in SwapWritings :
       \E terms \in {w.terms, [TermsOf(swap[s]) EXCEPT !.economics = w.terms.economics]} :
         swap' = [swap EXCEPT ![s] =
           [@ EXCEPT !.is_initialized = TRUE, !.payer = w.payer, !.receiver = w.receiver,
                     !.economics = terms.economics, !.currency = terms.currency,
                     !.settlement = terms.settlement,
                     !.payment_dates = terms.payment_dates]]
  /\ rewritten' = rewritten \cup {s}
  /\ UNCHANGED <<curveVars, swapSpace, basis>>

\* process_revalue_swap: either party, off any active curve; the business date
\* the caller names is not used.
RevalueSwap(authority, s, a) ==
  /\ VerifyOwner(swapSpace[s])
  /\ Readable(swapSpace[s])
  /\ swap[s].active
  /\ authority \in {swap[s].payer, swap[s].receiver}
  /\ PricesOff(a, TermsOf(swap[s]))
  /\ swap' = [swap EXCEPT ![s].last_mtm = Mtm(TermsOf(swap[s]), RatesOf(curve[a])),
                          ![s].last_reval_time = now]
  /\ basis' = [basis EXCEPT ![s] = BasisIn(a)]
  /\ UNCHANGED <<curveVars, swapSpace, rewritten>>

CreateSome(s) ==
  \E deal \in Deals, a \in CurveAccounts, economics \in Economics,
     currency \in SwapCurrencies, settlement \in Settlements, dates \in Schedules :
       CreateSwap(s, a, deal[1], deal[2], Terms(economics, currency, settlement, dates))

RevalueSome(s) ==
  \E deal \in Deals, i \in {1, 2}, a \in CurveAccounts : RevalueSwap(deal[i], s, a)

SwapNext ==
  \/ CurveNext /\ UNCHANGED swapVars
  \/ \E s \in SwapAccounts :
       AllocateSwap(s) \/ RevalueSome(s) \/ CreateSome(s) \/ OverwriteSwap(s)

SwapSpec == SwapInit /\ [][SwapNext]_allVars

-----------------------------------------------------------------------------
(* Properties. *)

\* The variables of the swap book keep their types, and a swap never holds
\* more payment dates than it has room for.
SwapTypeOK ==
  /\ swapSpace \in [SwapAccounts -> Spaces]
  /\ \A s \in SwapAccounts :
       /\ swap[s].is_initialized \in BOOLEAN /\ swap[s].active \in BOOLEAN
       /\ swap[s].last_reval_time \in Nat
       /\ Len(swap[s].payment_dates) <= MAX_PAYMENTS
       /\ basis[s].edition \in Nat
  /\ rewritten \subseteq SwapAccounts

\* The rates behind every mark of an active swap, one written over included,
\* were published, stood open to veto for the whole challenge period before
\* the swap was marked, and were activated and never vetoed, unless the curve
\* was written over when it was priced off: a snapshot republished between
\* two swap calls cannot be priced off while it is pending
\* (process_create_swap, process_revalue_swap).
MarkedOffSettledRates ==
  \A s \in SwapAccounts :
    LET b == basis[s]
        publication == published[b.account][b.edition]
    IN  swap[s].active /\ ~b.overwritten =>
          /\ b.edition \in 1..Len(published[b.account])
          /\ swap[s].last_mtm.rates = publication.rates
          /\ swap[s].last_reval_time >= publication.at + CHALLENGE_PERIOD
          /\ \E dec \in activated :
               /\ dec.account = b.account /\ dec.edition = b.edition
               /\ dec.at <= swap[s].last_reval_time
          /\ \A dec \in vetoed : <<dec.account, dec.edition>> # <<b.account, b.edition>>

\* Unless the swap was written over since, a stored mark values the terms
\* stored beside it, at the swap's own address, even after the account was
\* created anew under other terms (process_create_swap replaces the whole
\* account).
MarkIsOfStoredTerms ==
  \A s \in SwapAccounts \ rewritten :
    swap[s].is_initialized =>
      /\ swap[s].last_mtm.terms = TermsOf(swap[s])
      /\ s = SwapPda(swap[s].payer, swap[s].receiver, swap[s].settlement)

=============================================================================
