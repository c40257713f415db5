--------------------------- MODULE Subscriptions ---------------------------
(***************************************************************************)
(* The subscriptions of the shops: app/services/subscriptions.py, the      *)
(* three jobs of app/tasks.py that work on them, the webhooks of the three *)
(* payment providers and the billing endpoints, one step per transaction.  *)
(*                                                                         *)
(* Time is kept relative: left[s] is current_period_end - now, in units of *)
(* a day or of any other length, and Tick lets one unit pass.  Every       *)
(* comparison of the code is of current_period_end with now, or with now   *)
(* plus a constant, so nothing is lost, and a period that ended long ago   *)
(* need not be told from one that ended a unit ago: left stays at -1.      *)
(* While the status is trial, trial_ends_at is current_period_end.         *)
(*                                                                         *)
(* The providers are not of this code.  An invoice is one transaction of a *)
(* provider: it is paid or declined there, and its webhook comes late,     *)
(* several times, or after those of later transactions.  The rows of       *)
(* payments are the ledger, used_count is the number of redemptions.       *)
(***************************************************************************)
EXTENDS Integers, FiniteSets, SequencesExt

CONSTANTS
    Shops,
    Plans,        \* the paid plans
    NoPlan,       \* plan_id is NULL
    MaxInvoices,  \* bound: transactions at the providers
    Codes,        \* promo codes
    Grants,       \* per code: what it gives, "free_period", "percent" or a plan
    CodeLen,      \* per code: how long it gives that
    MaxUses,      \* per code: in how many shops
    Length,       \* how long a "month" and a "year" are
    Longest,      \* the longest time that one payment or code gives
    TrialLen, GraceLen,         \* TRIAL_DAYS, PAST_DUE_GRACE_DAYS
    ChargeAhead, RemindAhead    \* how long before the end the jobs act

Periods == {"month", "year"}

ASSUME BoundsAssumption == MaxInvoices \in Nat /\ IsFiniteSet(Codes) /\ IsFiniteSet(Shops)
ASSUME PlanAssumption == NoPlan \notin Plans /\ Plans \cap {"free_period", "percent"} = {}
ASSUME CodeAssumption ==
    /\ Grants \in [Codes -> Plans \cup {"free_period", "percent"}]
    /\ CodeLen \in [Codes -> 1..Longest] /\ MaxUses \in [Codes -> Nat]
ASSUME LengthAssumption ==
    /\ Longest \in Nat /\ Length \in [Periods -> 1..Longest]
    /\ TrialLen \in Nat \ {0} /\ GraceLen \in Nat \ {0}
    /\ ChargeAhead \in Nat /\ RemindAhead \in Nat
    /\ ChargeAhead <= GraceLen      \* half a day and three days

VARIABLES
    sub,        \* the subscription of each shop
    left,       \* how much of its current period is left
    invoice,    \* the transactions in the order they were made, the index is the id
    ledger,     \* those with a row in the table payments
    stars,      \* the recurring Stars subscription at Telegram
    redeemed    \* the promo redemptions, pairs of a code and a shop

vars == <<sub, left, invoice, ledger, stars, redeemed>>

Statuses == {"trial", "active", "past_due", "canceled", "expired"}
Providers == {"stars", "card", "crypto"}

\* "none" before the first entry, "missing" for a shop without a subscription.
NotYet == {"none", "missing"}

Sub == [status : Statuses \cup NotYet, plan : Plans \cup {NoPlan},
        provider : Providers \cup {"none"}, period : Periods,
        auto : BOOLEAN, reminded : BOOLEAN]

\* What a new row starts with.
Fresh(status) ==
    [status |-> status, plan |-> NoPlan, provider |-> "none",
     period |-> "month", auto |-> FALSE, reminded |-> FALSE]

\* charged: the money is taken by our own request, no webhook tells of it.
Invoice == [shop : Shops, provider : Providers, plan : Plans, period : Periods,
            state : {"paid", "declined", "charged"}]

SubTypeOK ==
    /\ sub \in [Shops -> Sub]
    /\ left \in [Shops -> Int] /\ \A s \in Shops : left[s] >= -1
    /\ invoice \in Seq(Invoice) /\ Len(invoice) <= MaxInvoices
    /\ ledger \subseteq DOMAIN invoice
    /\ stars \in [Shops -> BOOLEAN]
    /\ redeemed \subseteq Codes \X Shops

-----------------------------------------------------------------------------

Has(s) == sub[s].status \notin NotYet

\* n more transactions stay within the bound.
Fits(n) == Len(invoice) + n <= MaxInvoices

\* Slip (see below): record_payment() counts the new period from now.
BaseNow(s) == 0

\* A new period starts where the current one ends, or now if that is over.
Base(s) == IF left[s] > 0 THEN left[s] ELSE 0

Pay(s, provider, plan, period, state) ==
    [shop |-> s, provider |-> provider, plan |-> plan, period |-> period,
     state |-> state]

\* What record_payment() makes of the row; only crypto does not renew itself.
\* No status forbids the transition to active.
Activated(provider, plan, period) ==
    [status |-> "active", plan |-> plan, provider |-> provider, period |-> period,
     auto |-> provider # "crypto", reminded |-> FALSE]

Redeemers(c) == {p \in redeemed : p[1] = c}

\* The units of time that the ledger and the promo codes granted to a shop.
PaidUnits(s) ==
    {u \in ledger \X (1..Longest) :
        invoice[u[1]].shop = s /\ u[2] <= Length[invoice[u[1]].period]}
PromoUnits(s) ==
    {u \in Codes \X (1..Longest) :
        <<u[1], s>> \in redeemed /\ Grants[u[1]] # "percent" /\ u[2] <= CodeLen[u[1]]}
Granted(s) == Cardinality(PaidUnits(s)) + Cardinality(PromoUnits(s))

-----------------------------------------------------------------------------
(* Slips: operations with one check or one line lost, one for each         *)
(* property below.  They take no part in the specification.                *)

\* Slip: current_period_end <= now in expire_subscriptions().
LapsedAtEnd == {s \in Shops : /\ left[s] <= 0
                              /\ \/ sub[s].status \in {"trial", "canceled", "past_due"}
                                 \/ sub[s].status = "active" /\ ~sub[s].auto}

\* Slip: expire_subscriptions() forgets those that were canceled.
LapsedNotCanceled == {s \in Shops : /\ left[s] < 0
                                    /\ \/ sub[s].status \in {"trial", "past_due"}
                                       \/ sub[s].status = "active" /\ ~sub[s].auto}

\* Slip: cancel() does not switch the renewal off.
CancelRenews(s) ==
    /\ sub[s].status \in {"trial", "active", "past_due", "canceled"}
    /\ sub' = [sub EXCEPT ![s].status = "canceled"]
    /\ UNCHANGED <<left, invoice, ledger, stars, redeemed>>

\* Slip: _ALLOWED has no way back from expired.
WebhookInTime(i) ==
    LET p == invoice[i]
    IN  /\ i \in DOMAIN invoice \ ledger /\ p.state # "charged"
        /\ Has(p.shop) /\ sub[p.shop].status # "expired"
        /\ sub' = [sub EXCEPT ![p.shop] = Activated(p.provider, p.plan, p.period)]
        /\ left' = [left EXCEPT ![p.shop] = Base(p.shop) + Length[p.period]]
        /\ ledger' = ledger \cup {i}
        /\ UNCHANGED <<invoice, stars, redeemed>>

-----------------------------------------------------------------------------

SubInit ==
    /\ sub = [s \in Shops |-> Fresh("none")]
    /\ left = [s \in Shops |-> -1]
    /\ invoice = <<>>
    /\ ledger = {}
    /\ stars = [s \in Shops |-> FALSE]
    /\ redeemed = {}

\* The end of bootstrap_shop(): start_trial().
StartTrial(s) ==
    /\ sub[s].status = "none"
    /\ sub' = [sub EXCEPT ![s] = Fresh("trial")]
    /\ left' = [left EXCEPT ![s] = TrialLen]
    /\ UNCHANGED <<invoice, ledger, stars, redeemed>>

\* bootstrap_shop() dies after seed_demo_catalog() has committed the shop: the
\* next entry finds the membership and starts no trial.
BootstrapDies(s) ==
    /\ sub[s].status = "none"
    /\ sub' = [sub EXCEPT ![s] = Fresh("missing")]
    /\ UNCHANGED <<left, invoice, ledger, stars, redeemed>>

\* The buyer completes a checkout at the provider, or the bank declines.
PayInvoice(s, provider, plan, period, state) ==
    /\ Fits(1)
    /\ sub[s].status # "none"
    /\ provider = "stars" => period = "month"
    /\ state = "declined" => provider = "card"
    /\ invoice' = Append(invoice, Pay(s, provider, plan, period, state))
    /\ stars' = [stars EXCEPT ![s] = @ \/ provider = "stars"]
    /\ UNCHANGED <<sub, left, ledger, redeemed>>

\* Telegram renews a Stars subscription by its own calendar.
StarsRenews(s, plan) ==
    /\ stars[s]
    /\ PayInvoice(s, "stars", plan, "month", "paid")

\* It ends at Telegram: the owner ends it there, or cancel_subscription() does
\* and then dies or is refused.  Nobody tells the shop.
StarsEnds(s) ==
    /\ stars[s]
    /\ stars' = [stars EXCEPT ![s] = FALSE]
    /\ UNCHANGED <<sub, left, invoice, ledger, redeemed>>

\* A webhook, first or repeated: record_payment().  A transaction that is in the
\* ledger changes nothing, a shop without a subscription neither.  The handler
\* of WayForPay does not look at transactionStatus.
Webhook(i) ==
    LET p == invoice[i]
    IN  /\ i \in DOMAIN invoice \ ledger /\ p.state # "charged"
        /\ Has(p.shop)
        /\ sub' = [sub EXCEPT ![p.shop] = Activated(p.provider, p.plan, p.period)]
        /\ left' = [left EXCEPT ![p.shop] = Base(p.shop) + Length[p.period]]
        /\ ledger' = ledger \cup {i}
        /\ UNCHANGED <<invoice, stars, redeemed>>

\* charge_due_card_subscriptions(): the cards it tries, ...
Due == {s \in Shops : /\ sub[s].provider = "card" /\ sub[s].auto
                      /\ sub[s].status \in {"active", "past_due"}
                      /\ left[s] < ChargeAhead
                      /\ sub[s].plan # NoPlan}

\* ... the transactions of those that are approved, ...
Charged(approved) ==
    [k \in 1..Cardinality(approved) |->
        LET s == SetToSeq(approved)[k]
        IN  Pay(s, "card", sub[s].plan, sub[s].period, "charged")]

\* ... and the transaction at its end: record_payment() for the approved ones,
\* mark_past_due() for the others.
ChargeDue(approved) ==
    /\ Due # {} /\ Fits(Cardinality(approved))
    /\ invoice' = invoice \o Charged(approved)
    /\ ledger' = ledger \cup (DOMAIN invoice' \ DOMAIN invoice)
    /\ sub' = [s \in Shops |->
          IF s \in approved THEN Activated("card", sub[s].plan, sub[s].period)
          ELSE IF s \in Due THEN [sub[s] EXCEPT !.status = "past_due"]
          ELSE sub[s]]
    /\ left' = [s \in Shops |->
          IF s \in approved THEN Base(s) + Length[sub[s].period]
          ELSE IF s \in Due THEN GraceLen
          ELSE left[s]]
    /\ UNCHANGED <<stars, redeemed>>

\* A later request to the bank raises (no answer in 30 seconds): the session is
\* closed without a commit, the money of the earlier ones is taken.
ChargeDueDies(charged) ==
    /\ charged # {} /\ Fits(Cardinality(charged))
    /\ invoice' = invoice \o Charged(charged)
    /\ UNCHANGED <<sub, left, ledger, stars, redeemed>>

\* expire_subscriptions()
Lapsed == {s \in Shops : /\ left[s] < 0
                         /\ \/ sub[s].status \in {"trial", "canceled", "past_due"}
                            \/ sub[s].status = "active" /\ ~sub[s].auto}

ExpireSubscriptions ==
    /\ Lapsed # {}
    /\ sub' = [s \in Shops |->
          IF s \in Lapsed THEN [sub[s] EXCEPT !.status = "expired", !.auto = FALSE]
          ELSE sub[s]]
    /\ UNCHANGED <<left, invoice, ledger, stars, redeemed>>

\* send_renewal_reminders()
SendReminders ==
    LET S == {s \in Shops : /\ sub[s].status \in {"active", "trial"}
                            /\ ~sub[s].auto /\ ~sub[s].reminded
                            /\ left[s] < RemindAhead /\ left[s] > 0}
    IN  /\ S # {}
        /\ sub' = [s \in Shops |->
              IF s \in S THEN [sub[s] EXCEPT !.reminded = TRUE] ELSE sub[s]]
        /\ UNCHANGED <<left, invoice, ledger, stars, redeemed>>

\* cancel_subscription(): Telegram is told only if Stars were the last provider.
Cancel(s) ==
    /\ sub[s].status \in {"trial", "active", "past_due", "canceled"}
    /\ sub' = [sub EXCEPT ![s].status = "canceled", ![s].auto = FALSE]
    /\ stars' = [stars EXCEPT ![s] = @ /\ sub[s].provider # "stars"]
    /\ UNCHANGED <<left, invoice, ledger, redeemed>>

\* redeem_promo(): a discount is only counted, a free period keeps the plan.
\* That a code may also be over or withdrawn takes redemptions away only.
Redeem(s, c) ==
    LET used == Redeemers(c)
    IN  /\ Has(s)
        /\ <<c, s>> \notin used
        /\ Cardinality(used) < MaxUses[c]
        /\ redeemed' = redeemed \cup {<<c, s>>}
        /\ \/ Grants[c] = "percent" /\ UNCHANGED <<sub, left>>
           \/ /\ Grants[c] # "percent"
              /\ sub' = [sub EXCEPT
                    ![s].status = "active", ![s].auto = FALSE,
                    ![s].plan = IF Grants[c] \in Plans THEN Grants[c] ELSE @]
              /\ left' = [left EXCEPT ![s] = Base(s) + CodeLen[c]]
        /\ UNCHANGED <<invoice, ledger, stars>>

Passed(n) == IF n >= 0 THEN n - 1 ELSE n

Tick ==
    /\ left' = [s \in Shops |-> Passed(left[s])]
    /\ UNCHANGED <<sub, invoice, ledger, stars, redeemed>>

-----------------------------------------------------------------------------

ChargeSome == \E S \in SUBSET Due : ChargeDue(S) \/ ChargeDueDies(S)

PaySome ==
    \E s \in Shops, plan \in Plans :
        \/ \E provider \in Providers, period \in Periods, state \in {"paid", "declined"} :
              PayInvoice(s, provider, plan, period, state)
        \/ StarsRenews(s, plan)

SubNext ==
    \/ \E s \in Shops :
          \/ StartTrial(s)
          \/ BootstrapDies(s)
          \/ StarsEnds(s)
          \/ Cancel(s)
          \/ \E c \in Codes : Redeem(s, c)
    \/ PaySome
    \/ \E i \in 1..MaxInvoices : Webhook(i)
    \/ ChargeSome
    \/ ExpireSubscriptions
    \/ SendReminders
    \/ Tick

SubSafe == SubInit /\ [][SubNext]_vars

\* The scheduler runs its jobs, time passes, and a provider repeats a webhook
\* until it is accepted.  Nothing is assumed of the owner, of the banks and of
\* Telegram.
SubSpec ==
    /\ SubSafe
    /\ WF_vars(Tick) /\ WF_vars(ExpireSubscriptions)
    /\ \A i \in 1..MaxInvoices : WF_vars(Webhook(i))

-----------------------------------------------------------------------------

\* Only Stars and cards renew themselves (subscriptions.py:18-22), and only
\* until the owner cancels, the period lapses or a code takes over: the jobs,
\* which go by auto_renew, charge nobody else.
RenewalIsOpen ==
    \A s \in Shops :
        sub[s].auto => /\ sub[s].provider \in {"stars", "card"}
                       /\ sub[s].status \in {"active", "past_due"}
                       /\ sub[s].plan # NoPlan

\* Nobody loses what is paid for: a shop is expired only after its period ended,
\* whichever way the payments, the codes and the grace came together.
NobodyExpiresEarly ==
    \A s \in Shops : sub[s].status = "expired" => left[s] < 0

\* Every day is accounted for: the end of a period moves only by what a step
\* adds to the ledger or to the redemptions, counted from the old end or from
\* now, whichever is later.  A payment or a code moves it once, a repeated
\* webhook does not, and the grace never takes time away.
DaysAddUp ==
    [][\A s \in Shops :
         LET gain == Granted(s)' - Granted(s)
         IN  \/ gain = 0 /\ left'[s] \in {left[s], Passed(left[s])}
             \/ gain > 0 /\ left'[s] = (IF left[s] > 0 THEN left[s] ELSE 0) + gain
             \/ gain = 0 /\ sub[s].status = "none" /\ left'[s] = TrialLen
             \/ /\ gain = 0 /\ sub'[s].status = "past_due"
                /\ left'[s] = GraceLen /\ left[s] <= GraceLen]_vars

\* Who does not renew does not stay: a period that is over ends in expired,
\* unless it is prolonged.
LapseExpires ==
    \A s \in Shops :
        Has(s) /\ left[s] < 0 /\ ~sub[s].auto
            ~> sub[s].status = "expired" \/ left[s] >= 0

\* What a shop with a subscription paid at a checkout reaches the ledger,
\* whatever became of the subscription meanwhile.
PaidIsBooked ==
    \A i \in 1..MaxInvoices :
        i \in DOMAIN invoice /\ invoice[i].state = "paid" /\ Has(invoice[i].shop)
            ~> i \in ledger

\* The grace period ends (subscriptions.py:16, tasks.py:149): who is past due
\* pays or loses the subscription.
GraceEnds ==
    \A s \in Shops : sub[s].status = "past_due" ~> sub[s].status # "past_due"
=============================================================================
