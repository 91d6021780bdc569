----------------------------- MODULE CurveStore -----------------------------
(***************************************************************************)
(* The on-chain curve store: an oracle publishes the par rates of one      *)
(* currency and business date, a guardian may veto them during the         *)
(* challenge period, and afterwards anyone may activate them.              *)
(*                                                                         *)
(* The runtime executes an instruction atomically and undoes a failed one, *)
(* so every handler is one action, guarded by all of its early returns;    *)
(* a rejected call changes nothing and is a stuttering step.  Handlers     *)
(* that belong to other accounts may write over a snapshot: see Overwrite. *)
(***************************************************************************)
EXTENDS Accounts, Sequences, FiniteSets

CONSTANTS
  Currencies,        \* currency ids an oracle publishes (any u8, no check)
  BusinessDates,     \* business dates an oracle publishes
  RateVectors,       \* vectors of par rates handed to PublishCurve
  OtherAccounts,     \* program-owned accounts at no curve address
  Writings,          \* what other handlers leave in front of the rates
  WrittenRates,      \* rates they leave at an address of theirs
  MAX_TENORS,        \* state.rs: tenor points a snapshot has room for
  CHALLENGE_PERIOD,  \* state.rs: seconds a guardian has to veto
  StartTime,         \* the clock when the program is deployed
  MaxTime,           \* bound on the clock
  MaxEditions        \* bound on the publications per account

ASSUME CurveStoreAssumption ==
  /\ Currencies \subseteq Nat
  /\ BusinessDates \subseteq Nat
  /\ RateVectors \subseteq Seq(Nat)
  /\ Writings \subseteq [currency : Nat, business_date : Nat, publish_timestamp : Int,
                         status : {"Pending", "Active", "Vetoed", "Undecodable"},
                         num_tenors : Nat]
  /\ WrittenRates \subseteq Seq(Nat)
  /\ {MAX_TENORS, CHALLENGE_PERIOD, StartTime, MaxTime, MaxEditions} \subseteq Nat

VARIABLES
  now,        \* Clock::get()?.unix_timestamp
  space,      \* space[a]: how the data length of a compares with CurveSnapshot::LEN
  curve,      \* curve[a]: the CurveSnapshot in account a
  published,  \* history: published[a], every publication in a, with its time
  activated,  \* history: which publication was activated, and when
  vetoed,     \* history: which publication was vetoed, and when
  overwritten \* history: the accounts written over since they were published to

historyVars == <<published, activated, vetoed, overwritten>>

curveVars == <<now, space, curve, historyVars>>

-----------------------------------------------------------------------------
(* Data. *)

CurveAddresses == {CurvePda(c, d) : c \in Currencies, d \in BusinessDates}

CurveAccounts == CurveAddresses \cup OtherAccounts

Statuses == {"Pending", "Active", "Vetoed"}

\* The array of a snapshot: the rates handed in, zeros behind them.
Padded(rates) == [i \in 1..MAX_TENORS |-> IF i <= Len(rates) THEN rates[i] ELSE 0]

\* tenor_days and the two flags are stored and never read: left out.
Snapshot(currency, business_date, timestamp, rates) ==
  [is_initialized |-> TRUE, currency |-> currency, business_date |-> business_date,
   publish_timestamp |-> timestamp, status |-> "Pending",
   num_tenors |-> Len(rates), rates |-> Padded(rates)]

\* rates[..num_tenors]; none where the count exceeds the array and the slice
\* panics, which fails the instruction as an empty list of rates does.
RatesOf(s) ==
  IF s.num_tenors <= MAX_TENORS THEN [i \in 1..s.num_tenors |-> s.rates[i]] ELSE <<>>

\* An account nothing was written to holds zero bytes, and CurveStatus
\* decodes a zero byte as Pending.
BlankSnapshot ==
  [is_initialized |-> FALSE, currency |-> 0, business_date |-> 0,
   publish_timestamp |-> 0, status |-> "Pending", num_tenors |-> 0, rates |-> Padded(<<>>)]

\* A status byte that stands for none of the statuses is "Undecodable".
Snapshots ==
  [is_initialized : BOOLEAN, currency : Nat, business_date : Nat,
   publish_timestamp : Int, status : Statuses \cup {"Undecodable"}, num_tenors : Nat,
   rates : [1..MAX_TENORS -> Nat]]

Publications == [rates : RateVectors, at : Nat]

Decisions == [account : CurveAccounts, edition : Nat, at : Nat]

\* The number of the publication that account a holds now.
Edition(a) == Len(published[a])

\* What deciding on account a now adds to a history: an account can be
\* activated too that is blank or was written over, but holds no publication.
DecisionOn(a) ==
  IF curve[a].is_initialized /\ a \notin overwritten
  THEN {[account |-> a, edition |-> Edition(a), at |-> now]}
  ELSE {}

\* read_account::<CurveSnapshot>
Decodes(a) == Readable(space[a]) /\ curve[a].status \in Statuses

-----------------------------------------------------------------------------
Init ==
  /\ now = StartTime
  /\ space = [a \in CurveAccounts |-> "none"]
  /\ curve = [a \in CurveAccounts |-> BlankSnapshot]
  /\ published = [a \in CurveAccounts |-> <<>>]
  /\ activated = {}
  /\ vetoed = {}
  /\ overwritten = {}

\* The runtime's clock never goes back; it may skip whole challenge periods.
Tick ==
  /\ now' \in (now + 1)..MaxTime
  /\ UNCHANGED <<space, curve, historyVars>>

\* An account is created for the program, zeroed, with a length of its creator's.
AllocateCurve(a) ==
  /\ space[a] = "none"
  /\ \E size \in Spaces \ {"none"} : space' = [space EXCEPT ![a] = size]
  /\ UNCHANGED <<now, curve, historyVars>>

\* Mutated: the bound of the array is forgotten.
AcceptableTenorsUnbounded(tenors, rates) ==
  /\ tenors = Len(rates)
  /\ tenors # 0

AcceptableTenors(tenors, rates) ==
  /\ tenors = Len(rates)
  /\ tenors # 0
  /\ tenors <= MAX_TENORS

\* The bounds of a model: so few publications per account, and none so late
\* that its challenge period would end after the clock's last value.
WithinBounds(a) ==
  /\ Edition(a) < MaxEditions
  /\ now + CHALLENGE_PERIOD <= MaxTime

\* Mutated: a republication keeps the timestamp of the snapshot it replaces.
PublishCurveKeepingClock(a, currency, business_date, tenors, rates) ==
  /\ VerifyOwner(space[a])
  /\ a = CurvePda(currency, business_date)
  /\ AcceptableTenors(tenors, rates)
  /\ Writable(space[a])
  /\ WithinBounds(a)
  /\ LET time == IF curve[a].is_initialized THEN curve[a].publish_timestamp ELSE now
     IN  curve' = [curve EXCEPT ![a] = Snapshot(currency, business_date, time, rates)]
  /\ published' = [published EXCEPT ![a] = Append(@, [rates |-> rates, at |-> now])]
  /\ overwritten' = overwritten \ {a}
  /\ UNCHANGED <<now, space, activated, vetoed>>

\* Mutated: the address of the account is not verified.
PublishCurveAnywhere(a, currency, business_date, tenors, rates) ==
  /\ VerifyOwner(space[a])
  /\ AcceptableTenors(tenors, rates)
  /\ Writable(space[a])
  /\ WithinBounds(a)
  /\ curve' = [curve EXCEPT ![a] = Snapshot(currency, business_date, now, rates)]
  /\ published' = [published EXCEPT ![a] = Append(@, [rates |-> rates, at |-> now])]
  /\ overwritten' = overwritten \ {a}
  /\ UNCHANGED <<now, space, activated, vetoed>>

\* process_publish_curve: nothing of the snapshot it replaces survives, and
\* the status of that snapshot is not looked at.
PublishCurve(a, currency, business_date, tenors, rates) ==
  /\ VerifyOwner(space[a])
  /\ a = CurvePda(currency, business_date)
  /\ AcceptableTenors(tenors, rates)
  /\ Writable(space[a])
  /\ WithinBounds(a)
  /\ curve' = [curve EXCEPT ![a] = Snapshot(currency, business_date, now, rates)]
  /\ published' = [published EXCEPT ![a] = Append(@, [rates |-> rates, at |-> now])]
  /\ overwritten' = overwritten \ {a}
  /\ UNCHANGED <<now, space, activated, vetoed>>

\* process_init_config, process_publish_attestation and
\* process_propose_compression, handed a curve account: the fields in front
\* of the rates become anything, decodable or not, and the rates stay.  At an
\* address of another type they are its own handler's as well.
Overwrite(a) ==
  /\ VerifyOwner(space[a])
  /\ \E w \in Writings,
        array \in {curve[a].rates} \cup {Padded(r) : r \in WrittenRates} :
       /\ a \in CurveAddresses => array = curve[a].rates
       /\ curve' = [curve EXCEPT ![a] =
            [is_initialized |-> TRUE, currency |-> w.currency,
             business_date |-> w.business_date, publish_timestamp |-> w.publish_timestamp,
             status |-> w.status, num_tenors |-> w.num_tenors, rates |-> array]]
  /\ overwritten' = overwritten \cup {a}
  /\ UNCHANGED <<now, space, published, activated, vetoed>>

\* Mutated: activation is possible at one instant only.
ChallengeElapsedJustNow(a) == now = curve[a].publish_timestamp + CHALLENGE_PERIOD

\* The two handlers compare the clock with the same instant.
ChallengeElapsed(a) == now >= curve[a].publish_timestamp + CHALLENGE_PERIOD

\* Mutated: the status is not looked at.
CanActivateDecided(a) ==
  /\ VerifyOwner(space[a])
  /\ Decodes(a)
  /\ ChallengeElapsed(a)

CanActivate(a) ==
  /\ VerifyOwner(space[a])
  /\ Decodes(a)
  /\ curve[a].status = "Pending"
  /\ ChallengeElapsed(a)

\* process_activate_curve: no signer, no address, no initialisation check.
ActivateCurve(a) ==
  /\ CanActivate(a)
  /\ curve' = [curve EXCEPT ![a].status = "Active"]
  /\ activated' = activated \cup DecisionOn(a)
  /\ UNCHANGED <<now, space, published, vetoed, overwritten>>

\* Mutated: a veto still counts at the instant the period ends.
CanVetoAtDeadline(a) ==
  /\ VerifyOwner(space[a])
  /\ Decodes(a)
  /\ curve[a].status = "Pending"
  /\ now <= curve[a].publish_timestamp + CHALLENGE_PERIOD

CanVeto(a) ==
  /\ VerifyOwner(space[a])
  /\ Decodes(a)
  /\ curve[a].status = "Pending"
  /\ now < curve[a].publish_timestamp + CHALLENGE_PERIOD

\* process_veto_curve
VetoCurve(a) ==
  /\ CanVeto(a)
  /\ curve' = [curve EXCEPT ![a].status = "Vetoed"]
  /\ vetoed' = vetoed \cup DecisionOn(a)
  /\ UNCHANGED <<now, space, published, activated, overwritten>>

PublishSome(a) ==
  \E c \in Currencies, d \in BusinessDates, n \in 0..(MAX_TENORS + 1), r \in RateVectors :
    PublishCurve(a, c, d, n, r)

CurveNext ==
  \/ Tick
  \/ \E a \in CurveAccounts :
       AllocateCurve(a) \/ PublishSome(a) \/ ActivateCurve(a) \/ VetoCurve(a) \/ Overwrite(a)

Spec == Init /\ [][CurveNext]_curveVars

\* Time passes, and somebody sends the activation that anyone may send.
Fairness ==
  /\ WF_curveVars(Tick)
  /\ \A a \in CurveAccounts : WF_curveVars(ActivateCurve(a))

FairSpec == Spec /\ Fairness

-----------------------------------------------------------------------------
(* Properties. *)

\* The variables keep their types: histories never leave their ranges, and a
\* publication can be read: it never counts more tenors than its array has
\* room for.
TypeOK ==
  /\ now \in Nat
  /\ space \in [CurveAccounts -> Spaces]
  /\ curve \in [CurveAccounts -> Snapshots]
  /\ \A a \in CurveAccounts \ overwritten :
       curve[a].status \in Statuses /\ curve[a].num_tenors <= MAX_TENORS
  /\ published \in [CurveAccounts -> Seq(Publications)]
  /\ activated \subseteq Decisions
  /\ vetoed \subseteq Decisions
  /\ overwritten \subseteq CurveAccounts

\* No publication that nobody wrote over is activated before it was open to
\* veto for the whole challenge period, counted from when these very rates
\* were published: a republication while pending must restart the clock
\* (process_publish_curve, process_activate_curve).
ActivationWaited ==
  \A dec \in activated :
    /\ dec.edition \in 1..Len(published[dec.account])
    /\ dec.at >= published[dec.account][dec.edition].at + CHALLENGE_PERIOD

\* A vetoed publication is never activated and an activated one never vetoed,
\* however often its account is republished or written over and whoever calls
\* first: a publication that was written over is decided no more, and the
\* next one starts anew (process_activate_curve, process_veto_curve).
DecidedOnce ==
  \A yes \in activated, no \in vetoed :
    <<yes.account, yes.edition>> # <<no.account, no.edition>>

\* At every instant a readable pending snapshot admits exactly one of veto and
\* activation, whoever wrote it: the two deadlines neither overlap nor leave
\* a gap.
OneVerdictOpen ==
  \A a \in CurveAccounts :
    Readable(space[a]) /\ curve[a].status = "Pending" => (CanVeto(a) <=> ~CanActivate(a))

\* Unless it was written over since, an initialised snapshot is the last
\* publication made in its account, with its own rates and time, at the
\* address of its own currency and date, and an account never published to
\* holds no rates whatever its status (verify_pda, process_publish_curve, and
\* the blank activation that process_activate_curve lets through).
StoredIsLastPublished ==
  \A a \in CurveAccounts \ overwritten :
    IF curve[a].is_initialized
    THEN /\ a = CurvePda(curve[a].currency, curve[a].business_date)
         /\ Edition(a) > 0
         /\ published[a][Edition(a)] =
              [rates |-> RatesOf(curve[a]), at |-> curve[a].publish_timestamp]
    ELSE published[a] = <<>> /\ RatesOf(curve[a]) = <<>>

\* Every publication the program can read is eventually decided or written
\* over, because time passes and activation needs no particular signer.  (A
\* snapshot published in an account longer than LEN can never be read again,
\* and stays pending.)
EventuallyDecided ==
  \A a \in CurveAccounts :
    (/\ curve[a].is_initialized /\ a \notin overwritten
     /\ Readable(space[a]) /\ curve[a].status = "Pending")
      ~> (curve[a].status # "Pending" \/ a \in overwritten)

\* "no one can claim after the fact that a different curve was used": the
\* rates of an active curve stay what they are (README.md:52), even if no
\* other handler writes over it.
ActiveRatesAreFinal ==
  [][\A a \in CurveAccounts \ (overwritten \cup overwritten') :
       curve[a].is_initialized /\ curve[a].status = "Active" =>
         RatesOf(curve'[a]) = RatesOf(curve[a])]_curveVars

\* "Enters PENDING state for 15-minute challenge period" (instruction.rs:8)
\* and is activated "after challenge period" (instruction.rs:21): rates in an
\* active snapshot were published at least a challenge period ago.
ActiveAfterChallenge ==
  \A a \in CurveAddresses :
    Decodes(a) /\ curve[a].status = "Active" /\ Edition(a) > 0 =>
      now >= published[a][Edition(a)].at + CHALLENGE_PERIOD

-----------------------------------------------------------------------------
(* The store implements the challenge window, one register per account.  A *)
(* register is blank until the first publication, even if its account was  *)
(* activated before, and void while its account is written over.           *)

PhaseOf(a) ==
  CASE a \in overwritten -> "void"
    [] a \notin overwritten /\ ~curve[a].is_initialized -> "blank"
    [] OTHER -> CASE curve[a].status = "Pending" -> "open"
                  [] curve[a].status = "Active"  -> "accepted"
                  [] curve[a].status = "Vetoed"  -> "rejected"

AgeOf(a) ==
  IF PhaseOf(a) = "open"
  THEN IF now < curve[a].publish_timestamp + CHALLENGE_PERIOD
       THEN now - curve[a].publish_timestamp
       ELSE CHALLENGE_PERIOD
  ELSE 0

ContentOf(a) == IF a \in overwritten THEN <<>> ELSE RatesOf(curve[a])

Challenge == INSTANCE ChallengeWindow WITH
  Registers <- CurveAccounts,
  Contents  <- RateVectors,
  Nothing   <- <<>>,
  Window    <- CHALLENGE_PERIOD,
  phase     <- [a \in CurveAccounts |-> PhaseOf(a)],
  content   <- [a \in CurveAccounts |-> ContentOf(a)],
  age       <- [a \in CurveAccounts |-> AgeOf(a)]

\* Every step of the store is a step of the challenge window or leaves it
\* unchanged.
ImplementsChallengeWindow == Challenge!Spec

=============================================================================
