------------------------ MODULE SubscriptionsProofs ------------------------
(***************************************************************************)
(* Proofs about Subscriptions, for any shops, plans, codes and lengths of  *)
(* periods that keep the order the assumptions name.                       *)
(***************************************************************************)
EXTENDS Subscriptions, FiniteSetTheorems, TLAPS

SubInv == SubTypeOK /\ RenewalIsOpen /\ NobodyExpiresEarly

-----------------------------------------------------------------------------
(* The transactions of the charging job, in some order of its shops.       *)

\* SetToSeq() numbers the elements of a finite set, each once.
LEMMA Numbering ==
    ASSUME NEW S, IsFiniteSet(S)
    PROVE  /\ Cardinality(S) \in Nat
           /\ SetToSeq(S) \in [1..Cardinality(S) -> S]
           /\ \A i, j \in 1..Cardinality(S) : SetToSeq(S)[i] = SetToSeq(S)[j] => i = j
           /\ \A x \in S : \E i \in 1..Cardinality(S) : SetToSeq(S)[i] = x
<1> DEFINE n == Cardinality(S)
           f == SetToSeq(S)
<1>1. n \in Nat /\ ExistsBijection(1..n, S)
  BY FS_CardinalityType
<1>2. \E g \in [1..n -> S] : IsInjective(g)
  BY <1>1 DEF ExistsBijection, Bijection, Injection
<1>3. f \in [1..n -> S] /\ IsInjective(f)
  BY <1>2 DEF SetToSeq
<1>4. f \in Surjection(1..n, S)
  <2>1. f \in Injection(1..n, S)
    BY <1>3 DEF Injection
  <2>2. Cardinality(1..n) = n
    BY <1>1, FS_Interval
  <2> HIDE DEF f
  <2> QED
    BY <2>1, <2>2, FS_Injection
<1> HIDE DEF f
<1> QED
  BY <1>1, <1>3, <1>4 DEF IsInjective, Surjection, f

LEMMA ChargedType ==
    ASSUME SubTypeOK, NEW approved \in SUBSET Due
    PROVE  /\ Cardinality(approved) \in Nat
           /\ Charged(approved) \in Seq(Invoice)
           /\ Len(Charged(approved)) = Cardinality(approved)
           /\ \A k \in 1..Cardinality(approved) :
                 /\ Charged(approved)[k].shop \in approved
                 /\ Charged(approved)[k].period = sub[Charged(approved)[k].shop].period
           /\ \A s \in approved : \E k \in 1..Cardinality(approved) :
                 /\ Charged(approved)[k].shop = s
                 /\ \A j \in 1..Cardinality(approved) : Charged(approved)[j].shop = s => j = k
<1> DEFINE n == Cardinality(approved)
           f == SetToSeq(approved)
           c == Charged(approved)
<1>1. approved \in SUBSET Shops /\ IsFiniteSet(approved)
  BY BoundsAssumption, FS_Subset DEF Due
<1>2. /\ n \in Nat /\ f \in [1..n -> approved]
      /\ \A i, j \in 1..n : f[i] = f[j] => i = j
      /\ \A x \in approved : \E i \in 1..n : f[i] = x
  BY <1>1, Numbering
<1>3. c = [k \in 1..n |-> Pay(f[k], "card", sub[f[k]].plan, sub[f[k]].period, "charged")]
  BY DEF Charged
<1> HIDE DEF f, n, c
<1>4. ASSUME NEW s \in approved
      PROVE  Pay(s, "card", sub[s].plan, sub[s].period, "charged") \in Invoice
  <2>1. sub[s] \in Sub /\ sub[s].plan # NoPlan /\ s \in Shops
    BY <1>1 DEF SubTypeOK, Due
  <2> QED
    BY <2>1 DEF Pay, Invoice, Sub, Providers
<1>5. c \in Seq(Invoice) /\ Len(c) = n
  <2>1. c \in [1..n -> Invoice]
    BY <1>2, <1>3, <1>4
  <2> QED
    BY <1>2, <2>1
<1>6. \A k \in 1..n : c[k].shop = f[k] /\ c[k].period = sub[f[k]].period
  BY <1>3 DEF Pay
<1> QED
  BY <1>2, <1>5, <1>6 DEF n, c

-----------------------------------------------------------------------------
(* The invariant.                                                          *)

LEMMA LengthsAreTimes ==
    /\ \A p \in Periods : Length[p] \in Nat /\ Length[p] \in 1..Longest
    /\ \A c \in Codes : CodeLen[c] \in Nat /\ CodeLen[c] \in 1..Longest
    /\ Longest \in Nat /\ TrialLen \in Nat /\ GraceLen \in Nat
BY CodeAssumption, LengthAssumption DEF Periods

LEMMA FreshType ==
    ASSUME NEW status \in {"none", "missing", "trial"}
    PROVE  Fresh(status) \in Sub /\ Fresh(status).auto = FALSE /\ Fresh(status).status = status
BY DEF Fresh, Sub, Statuses, NotYet, Periods

LEMMA ActivatedType ==
    ASSUME NEW provider \in Providers, NEW plan \in Plans, NEW period \in Periods
    PROVE  LET a == Activated(provider, plan, period) IN
           /\ a \in Sub /\ a.status = "active" /\ a.plan # NoPlan
           /\ a.auto => a.provider \in {"stars", "card"}
BY PlanAssumption DEF Activated, Sub, Statuses, Providers

LEMMA SubInvInit == SubInit => SubInv
<1> SUFFICES ASSUME SubInit PROVE SubInv
  OBVIOUS
<1>1. Fresh("none") \in Sub /\ Fresh("none").auto = FALSE /\ Fresh("none").status = "none"
  BY FreshType
<1>2. invoice \in Seq(Invoice) /\ Len(invoice) <= MaxInvoices
  BY BoundsAssumption DEF SubInit
<1>3. SubTypeOK
  BY <1>1, <1>2 DEF SubInit, SubTypeOK
<1>4. RenewalIsOpen /\ NobodyExpiresEarly
  BY <1>1 DEF SubInit, RenewalIsOpen, NobodyExpiresEarly
<1> QED
  BY <1>3, <1>4 DEF SubInv

\* Each field of a row that a step edits keeps its type, and the others stay.
LEMMA EditType ==
    ASSUME NEW r \in Sub
    PROVE  /\ \A st \in Statuses : [r EXCEPT !.status = st] \in Sub
           /\ \A st \in Statuses : [r EXCEPT !.status = st, !.auto = FALSE] \in Sub
           /\ [r EXCEPT !.reminded = TRUE] \in Sub
           /\ \A st \in Statuses, p \in Plans \cup {NoPlan} :
                 [r EXCEPT !.status = st, !.auto = FALSE, !.plan = p] \in Sub
BY DEF Sub

LEMMA BaseType ==
    ASSUME SubTypeOK, NEW s \in Shops
    PROVE  left[s] \in Int /\ Base(s) \in Nat /\ Passed(left[s]) \in Int /\ Passed(left[s]) >= -1
BY DEF SubTypeOK, Base, Passed

\* The row of a shop.
RowOK(s) ==
    /\ sub[s] \in Sub /\ left[s] \in Int /\ left[s] >= -1
    /\ sub[s].auto => /\ sub[s].provider \in {"stars", "card"}
                      /\ sub[s].status \in {"active", "past_due"}
                      /\ sub[s].plan # NoPlan
    /\ sub[s].status = "expired" => left[s] < 0

LEMMA Rows == SubInv => \A s \in Shops : RowOK(s)
BY DEF SubInv, SubTypeOK, RenewalIsOpen, NobodyExpiresEarly, RowOK

\* What the transaction log, the ledger and the other tables look like.
LogOK ==
    /\ invoice \in Seq(Invoice) /\ Len(invoice) <= MaxInvoices
    /\ ledger \subseteq DOMAIN invoice
    /\ stars \in [Shops -> BOOLEAN]
    /\ redeemed \subseteq Codes \X Shops

LEMMA Logs == SubInv => LogOK
BY DEF SubInv, SubTypeOK, LogOK

LEMMA RowsSuffice ==
    ASSUME sub' = [s \in Shops |-> sub'[s]], left' = [s \in Shops |-> left'[s]],
           \A s \in Shops : RowOK(s)', LogOK'
    PROVE  SubInv'
<1>1. SubTypeOK'
  BY DEF SubTypeOK, RowOK, LogOK
<1>2. RenewalIsOpen' /\ NobodyExpiresEarly'
  BY DEF RenewalIsOpen, NobodyExpiresEarly, RowOK
<1> QED
  BY <1>1, <1>2 DEF SubInv

\* Rows that a step leaves alone.
LEMMA RowKept ==
    ASSUME SubInv, NEW s \in Shops, sub'[s] = sub[s], left'[s] = left[s]
    PROVE  RowOK(s)'
BY Rows DEF RowOK

LEMMA ActivatedRow ==
    ASSUME SubInv, NEW s \in Shops, NEW provider \in Providers, NEW plan \in Plans,
           NEW period \in Periods, sub'[s] = Activated(provider, plan, period),
           left'[s] = Base(s) + Length[period]
    PROVE  RowOK(s)'
<1>1. Base(s) \in Nat /\ Length[period] \in Nat
  BY BaseType, LengthsAreTimes DEF SubInv
<1>2. left'[s] \in Int /\ left'[s] >= -1
  BY <1>1
<1> QED
  BY <1>2, ActivatedType DEF RowOK

\* A transaction of the log was made for a plan that is sold.
LEMMA InvoiceType ==
    ASSUME LogOK, NEW i \in DOMAIN invoice
    PROVE  /\ invoice[i].shop \in Shops /\ invoice[i].provider \in Providers
           /\ invoice[i].plan \in Plans /\ invoice[i].period \in Periods
<1>1. invoice[i] \in Invoice
  BY DEF LogOK
<1> QED
  BY <1>1 DEF Invoice

\* Appending to the log keeps what was booked.
LEMMA LogGrows ==
    ASSUME LogOK, NEW more \in Seq(Invoice), invoice' = invoice \o more,
           Len(invoice) + Len(more) <= MaxInvoices
    PROVE  /\ invoice' \in Seq(Invoice) /\ Len(invoice') <= MaxInvoices
           /\ Len(invoice') = Len(invoice) + Len(more)
           /\ DOMAIN invoice \subseteq DOMAIN invoice'
           /\ \A i \in DOMAIN invoice : invoice'[i] = invoice[i]
           /\ \A i \in DOMAIN invoice' \ DOMAIN invoice :
                 /\ i - Len(invoice) \in 1..Len(more)
                 /\ invoice'[i] = more[i - Len(invoice)]
           /\ \A k \in 1..Len(more) :
                 /\ Len(invoice) + k \in DOMAIN invoice' \ DOMAIN invoice
                 /\ invoice'[Len(invoice) + k] = more[k]
BY DEF LogOK

-----------------------------------------------------------------------------
(* Each step keeps the invariant.                                          *)

LEMMA PayKeeps ==
    ASSUME SubInv, NEW s \in Shops, NEW plan \in Plans, NEW provider \in Providers,
           NEW period \in Periods, NEW state \in {"paid", "declined"},
           PayInvoice(s, provider, plan, period, state)
    PROVE  SubInv'
<1> DEFINE more == <<Pay(s, provider, plan, period, state)>>
<1>1. more \in Seq(Invoice) /\ Len(more) = 1
  BY DEF Pay, Invoice
<1>2. LogOK /\ invoice' = invoice \o more /\ Len(invoice) + Len(more) <= MaxInvoices
  BY <1>1, Logs DEF PayInvoice, Fits, LogOK
<1>3. LogOK'
  BY <1>1, <1>2, LogGrows DEF LogOK, PayInvoice
<1>4. \A x \in Shops : RowOK(x)'
  BY RowKept DEF PayInvoice
<1> QED
  BY <1>3, <1>4, RowsSuffice DEF PayInvoice, SubInv, SubTypeOK

LEMMA WebhookKeeps ==
    ASSUME SubInv, NEW i, Webhook(i)
    PROVE  SubInv'
<1> DEFINE p == invoice[i]
<1>1. i \in DOMAIN invoice /\ LogOK
  BY Logs DEF Webhook
<1>2. p.shop \in Shops /\ p.provider \in Providers /\ p.plan \in Plans /\ p.period \in Periods
  BY <1>1, InvoiceType
<1>3. LogOK'
  BY <1>1 DEF LogOK, Webhook
<1>4. ASSUME NEW s \in Shops PROVE RowOK(s)'
  <2>1. CASE s = p.shop
    <3>1. sub'[s] = Activated(p.provider, p.plan, p.period)
          /\ left'[s] = Base(s) + Length[p.period]
      BY <2>1 DEF Webhook, SubInv, SubTypeOK
    <3> QED
      BY <1>2, <3>1, ActivatedRow
  <2>2. CASE s # p.shop
    BY <2>2, RowKept DEF Webhook, SubInv, SubTypeOK
  <2> QED
    BY <2>1, <2>2
<1> QED
  BY <1>3, <1>4, RowsSuffice DEF Webhook, SubInv, SubTypeOK

LEMMA ChargeKeeps ==
    ASSUME SubInv, NEW approved \in SUBSET Due, ChargeDue(approved) \/ ChargeDueDies(approved)
    PROVE  SubInv'
<1>1. /\ Charged(approved) \in Seq(Invoice) /\ Len(Charged(approved)) = Cardinality(approved)
      /\ invoice' = invoice \o Charged(approved)
      /\ Len(invoice) + Len(Charged(approved)) <= MaxInvoices /\ LogOK
  BY ChargedType, Logs DEF ChargeDue, ChargeDueDies, Fits, SubInv
<1>2. LogOK'
  BY <1>1, LogGrows DEF LogOK, ChargeDue, ChargeDueDies
<1>3. ASSUME NEW s \in Shops, ChargeDue(approved) PROVE RowOK(s)'
  <2>0. sub[s] \in Sub
    BY DEF SubInv, SubTypeOK
  <2>1. CASE s \in approved
    <3>1. sub[s].plan \in Plans /\ sub[s].period \in Periods /\ "card" \in Providers
      BY <2>0, <2>1 DEF Due, Sub, Providers
    <3>2. sub'[s] = Activated("card", sub[s].plan, sub[s].period)
          /\ left'[s] = Base(s) + Length[sub[s].period]
      BY <1>3, <2>1 DEF ChargeDue
    <3> QED
      BY <3>1, <3>2, ActivatedRow
  <2>2. CASE s \in Due \ approved
    <3>1. sub'[s] = [sub[s] EXCEPT !.status = "past_due"] /\ left'[s] = GraceLen
      BY <1>3, <2>2 DEF ChargeDue
    <3>2. /\ sub'[s] \in Sub /\ sub'[s].status = "past_due" /\ sub'[s].auto = sub[s].auto
          /\ sub'[s].provider = sub[s].provider /\ sub'[s].plan = sub[s].plan
      BY <2>0, <3>1 DEF Sub, Statuses
    <3> QED
      BY <2>0, <3>1, <3>2, Rows, LengthsAreTimes DEF RowOK
  <2>3. CASE s \notin Due
    BY <1>3, <2>3, RowKept DEF ChargeDue
  <2> QED
    BY <2>1, <2>2, <2>3
<1>4. ASSUME NEW s \in Shops, ChargeDueDies(approved) PROVE RowOK(s)'
  BY <1>4, RowKept DEF ChargeDueDies
<1>5. sub' = [s \in Shops |-> sub'[s]] /\ left' = [s \in Shops |-> left'[s]]
  BY DEF ChargeDue, ChargeDueDies, SubInv, SubTypeOK
<1> QED
  BY <1>2, <1>3, <1>4, <1>5, RowsSuffice

\* Steps that touch no transaction and only the row of one shop.
LEMMA OwnerKeeps ==
    ASSUME SubInv, NEW s \in Shops,
           StartTrial(s) \/ BootstrapDies(s) \/ Cancel(s) \/ \E c \in Codes : Redeem(s, c)
    PROVE  SubInv'
<1>0. LogOK /\ RowOK(s) /\ sub[s] \in Sub /\ left[s] \in Int
  BY Rows, Logs DEF RowOK
<1>1. CASE StartTrial(s)
  <2>1. sub'[s] = Fresh("trial") /\ left'[s] = TrialLen
    BY <1>1 DEF StartTrial, SubInv, SubTypeOK
  <2>2. RowOK(s)'
    <3>1. Fresh("trial") \in Sub /\ Fresh("trial").auto = FALSE /\ Fresh("trial").status = "trial"
      BY FreshType
    <3>2. left'[s] \in Int /\ left'[s] >= -1
      BY <2>1, LengthsAreTimes
    <3> QED
      BY <2>1, <3>1, <3>2 DEF RowOK
  <2>3. \A x \in Shops : RowOK(x)'
    BY <1>1, <2>2, RowKept DEF StartTrial, SubInv, SubTypeOK
  <2> QED
    BY <1>0, <1>1, <2>3, RowsSuffice DEF StartTrial, SubInv, SubTypeOK, LogOK
<1>2. CASE BootstrapDies(s)
  <2>1. sub'[s] = Fresh("missing") /\ left'[s] = left[s]
    BY <1>2 DEF BootstrapDies, SubInv, SubTypeOK
  <2>2. RowOK(s)'
    BY <1>0, <2>1, FreshType DEF RowOK
  <2>3. \A x \in Shops : RowOK(x)'
    BY <1>2, <2>2, RowKept DEF BootstrapDies, SubInv, SubTypeOK
  <2> QED
    BY <1>0, <1>2, <2>3, RowsSuffice DEF BootstrapDies, SubInv, SubTypeOK, LogOK
<1>3. CASE Cancel(s)
  <2>1. sub'[s] = [sub[s] EXCEPT !.status = "canceled", !.auto = FALSE] /\ left'[s] = left[s]
    BY <1>3 DEF Cancel, SubInv, SubTypeOK
  <2>2. sub'[s] \in Sub /\ sub'[s].status = "canceled" /\ sub'[s].auto = FALSE
    BY <1>0, <2>1 DEF Sub, Statuses
  <2>3. RowOK(s)'
    BY <1>0, <2>1, <2>2 DEF RowOK
  <2>4. \A x \in Shops : RowOK(x)'
    BY <1>3, <2>3, RowKept DEF Cancel, SubInv, SubTypeOK
  <2>5. LogOK'
    BY <1>0, <1>3 DEF Cancel, LogOK
  <2> QED
    BY <1>3, <2>4, <2>5, RowsSuffice DEF Cancel, SubInv, SubTypeOK
<1>4. ASSUME NEW c \in Codes, Redeem(s, c)
      PROVE  SubInv'
  <2>1. LogOK'
    BY <1>0, <1>4 DEF Redeem, LogOK
  <2>2. CASE UNCHANGED <<sub, left>>
    <3>1. \A x \in Shops : RowOK(x)'
      BY <2>2, RowKept
    <3> QED
      BY <2>1, <2>2, <3>1, RowsSuffice DEF SubInv, SubTypeOK
  <2>3. CASE Grants[c] # "percent"
    <3> DEFINE plan == IF Grants[c] \in Plans THEN Grants[c] ELSE sub[s].plan
    <3>1. /\ sub' = [sub EXCEPT ![s] = [sub[s] EXCEPT !.status = "active", !.auto = FALSE,
                                                      !.plan = plan]]
          /\ left' = [left EXCEPT ![s] = Base(s) + CodeLen[c]]
      BY <1>4, <2>3 DEF Redeem, SubInv, SubTypeOK
    <3>2. plan \in Plans \cup {NoPlan}
      BY <1>0 DEF Sub
    <3> HIDE DEF plan
    <3>3. /\ sub'[s] = [sub[s] EXCEPT !.status = "active", !.auto = FALSE, !.plan = plan]
          /\ left'[s] = Base(s) + CodeLen[c]
      BY <3>1 DEF SubInv, SubTypeOK
    <3>4. sub'[s] \in Sub /\ sub'[s].status = "active" /\ sub'[s].auto = FALSE
      BY <1>0, <3>2, <3>3 DEF Sub, Statuses
    <3>5. left'[s] \in Int /\ left'[s] >= -1
      BY <3>3, BaseType, LengthsAreTimes DEF SubInv
    <3>6. RowOK(s)'
      BY <3>4, <3>5 DEF RowOK
    <3>7. \A x \in Shops : RowOK(x)'
      BY <3>1, <3>6, RowKept DEF SubInv, SubTypeOK
    <3> QED
      BY <2>1, <3>1, <3>7, RowsSuffice DEF SubInv, SubTypeOK
  <2> QED
    BY <1>4, <2>2, <2>3 DEF Redeem
<1> QED
  BY <1>1, <1>2, <1>3, <1>4

\* The jobs that charge nobody, and the clock.
LEMMA JobKeeps ==
    ASSUME SubInv, ExpireSubscriptions \/ SendReminders \/ Tick
    PROVE  SubInv'
<1>0. LogOK /\ \A s \in Shops : RowOK(s) /\ sub[s] \in Sub
  BY Rows, Logs DEF RowOK
<1>1. LogOK'
  BY <1>0 DEF ExpireSubscriptions, SendReminders, Tick, LogOK
<1>2. ASSUME NEW s \in Shops, ExpireSubscriptions PROVE RowOK(s)'
  <2>1. CASE s \in Lapsed
    <3>1. sub'[s] = [sub[s] EXCEPT !.status = "expired", !.auto = FALSE]
          /\ left'[s] = left[s] /\ left[s] < 0
      BY <1>2, <2>1 DEF ExpireSubscriptions, Lapsed
    <3>2. sub'[s] \in Sub /\ sub'[s].auto = FALSE
      BY <1>0, <3>1 DEF Sub, Statuses
    <3> QED
      BY <1>0, <3>1, <3>2 DEF RowOK
  <2>2. CASE s \notin Lapsed
    BY <1>2, <2>2, RowKept DEF ExpireSubscriptions
  <2> QED
    BY <2>1, <2>2
<1>3. ASSUME NEW s \in Shops, SendReminders PROVE RowOK(s)'
  <2>1. left'[s] = left[s] /\ sub'[s] \in {sub[s], [sub[s] EXCEPT !.reminded = TRUE]}
    BY <1>3 DEF SendReminders
  <2>2. CASE sub'[s] = [sub[s] EXCEPT !.reminded = TRUE]
    <3>1. /\ sub'[s] \in Sub /\ sub'[s].auto = sub[s].auto /\ sub'[s].status = sub[s].status
          /\ sub'[s].plan = sub[s].plan /\ sub'[s].provider = sub[s].provider
      BY <1>0, <2>2 DEF Sub
    <3> QED
      BY <1>0, <2>1, <3>1 DEF RowOK
  <2> QED
    BY <2>1, <2>2, RowKept
<1>4. ASSUME NEW s \in Shops, Tick PROVE RowOK(s)'
  <2>1. sub'[s] = sub[s] /\ left'[s] = Passed(left[s])
    BY <1>4 DEF Tick
  <2>2. left[s] \in Int /\ left'[s] \in Int /\ left'[s] >= -1 /\ (left[s] < 0 => left'[s] < 0)
    BY <1>0, <2>1 DEF RowOK, Passed
  <2> QED
    BY <1>0, <2>1, <2>2 DEF RowOK
<1>5. sub' = [s \in Shops |-> sub'[s]] /\ left' = [s \in Shops |-> left'[s]]
  BY DEF ExpireSubscriptions, SendReminders, Tick, SubInv, SubTypeOK
<1> QED
  BY <1>1, <1>2, <1>3, <1>4, <1>5, RowsSuffice

LEMMA SubStep == SubInv /\ [SubNext]_vars => SubInv'
<1> SUFFICES ASSUME SubInv, [SubNext]_vars PROVE SubInv'
  OBVIOUS
<1>1. ASSUME NEW s \in Shops, StarsEnds(s) PROVE SubInv'
  BY <1>1 DEF StarsEnds, SubInv, SubTypeOK, RenewalIsOpen, NobodyExpiresEarly
<1>2. CASE PaySome
  <2>1. \A s \in Shops, plan \in Plans : StarsRenews(s, plan) =>
           PayInvoice(s, "stars", plan, "month", "paid")
    BY DEF StarsRenews
  <2>2. "stars" \in Providers /\ "month" \in Periods
    BY DEF Providers, Periods
  <2> QED
    BY <1>2, <2>1, <2>2, PayKeeps DEF PaySome
<1>3. CASE ChargeSome
  BY <1>3, ChargeKeeps DEF ChargeSome
<1>4. CASE UNCHANGED vars
  BY <1>4 DEF vars, SubInv, SubTypeOK, RenewalIsOpen, NobodyExpiresEarly
<1> QED
  BY <1>1, <1>2, <1>3, <1>4, OwnerKeeps, WebhookKeeps, JobKeeps DEF SubNext

LEMMA SubInvHolds == SubSafe => []SubInv
BY SubInvInit, SubStep, PTL DEF SubSafe

LEMMA SpecIsSafe == SubSpec => SubSafe
BY PTL DEF SubSpec

\* Rows, ledger and log keep their types; a payment is booked once, by the index
\* of a transaction that exists.
THEOREM SubscriptionsTyped == SubSpec => []SubTypeOK
<1>1. SubInv => SubTypeOK
  BY DEF SubInv
<1> QED
  BY <1>1, SubInvHolds, SpecIsSafe, PTL

\* What charge_due_card_subscriptions() and the reminders go by can be trusted:
\* auto_renew is on for a plan that is paid by a renewing provider, and for
\* nobody who canceled or expired.
THEOREM OnlyOpenOnesRenew == SubSpec => []RenewalIsOpen
<1>1. SubInv => RenewalIsOpen
  BY DEF SubInv
<1> QED
  BY <1>1, SubInvHolds, SpecIsSafe, PTL

\* No shop is expired with paid time left, for any order of payments, codes,
\* grace and jobs.
THEOREM PaidTimeIsServed == SubSpec => []NobodyExpiresEarly
<1>1. SubInv => NobodyExpiresEarly
  BY DEF SubInv
<1> QED
  BY <1>1, SubInvHolds, SpecIsSafe, PTL

-----------------------------------------------------------------------------
(* Every day is accounted for.                                             *)

\* The units of one entry, as many as it is long.
UnitsFor(x, n) == {u \in {x} \X (1..Longest) : u[2] <= n}

LEMMA UnitsCount ==
    ASSUME NEW x, NEW n \in 1..Longest
    PROVE  IsFiniteSet(UnitsFor(x, n)) /\ Cardinality(UnitsFor(x, n)) = n
<1>0. Longest \in Nat /\ n \in Nat /\ n >= 1 /\ n <= Longest
  BY LengthsAreTimes
<1>1. UnitsFor(x, n) = {x} \X (1..n)
  BY <1>0 DEF UnitsFor
<1>2. IsFiniteSet({x}) /\ Cardinality({x}) = 1
  BY FS_Singleton
<1>3. IsFiniteSet(1..n) /\ Cardinality(1..n) = n
  BY <1>0, FS_Interval
<1>4. IsFiniteSet({x} \X (1..n)) /\ Cardinality({x} \X (1..n)) = 1 * n
  BY <1>2, <1>3, FS_Product
<1> QED
  BY <1>0, <1>1, <1>4

\* Units of another entry add up.
LEMMA UnitsAdd ==
    ASSUME NEW P, IsFiniteSet(P), NEW x, NEW n \in 1..Longest, \A u \in P : u[1] # x
    PROVE  Cardinality(P \cup UnitsFor(x, n)) = Cardinality(P) + n
<1> DEFINE U == UnitsFor(x, n)
<1>1. IsFiniteSet(U) /\ Cardinality(U) = n /\ n \in Nat
  BY UnitsCount, LengthsAreTimes
<1>2. P \cap U = {}
  BY DEF UnitsFor
<1>3. Cardinality({}) = 0
  BY FS_EmptySet
<1>4. Cardinality(P) \in Nat
  BY FS_CardinalityType
<1> HIDE DEF U
<1>5. Cardinality(P \cup U) = Cardinality(P) + Cardinality(U) - Cardinality(P \cap U)
  BY <1>1, FS_Union
<1> QED
  BY <1>1, <1>2, <1>3, <1>4, <1>5 DEF U

LEMMA UnitsFinite ==
    ASSUME LogOK, NEW s
    PROVE  /\ IsFiniteSet(PaidUnits(s)) /\ Cardinality(PaidUnits(s)) \in Nat
           /\ IsFiniteSet(PromoUnits(s)) /\ Cardinality(PromoUnits(s)) \in Nat
           /\ Granted(s) \in Nat
<1>1. IsFiniteSet(1..Longest)
  BY LengthsAreTimes, FS_Interval
<1>2. IsFiniteSet(ledger)
  <2>1. IsFiniteSet(1..Len(invoice)) /\ ledger \in SUBSET (1..Len(invoice))
    BY FS_Interval DEF LogOK
  <2> QED
    BY <2>1, FS_Subset
<1>3. IsFiniteSet(ledger \X (1..Longest)) /\ IsFiniteSet(Codes \X (1..Longest))
  BY <1>1, <1>2, BoundsAssumption, FS_Product
<1>4. PaidUnits(s) \in SUBSET (ledger \X (1..Longest))
  BY DEF PaidUnits
<1>5. PromoUnits(s) \in SUBSET (Codes \X (1..Longest))
  BY DEF PromoUnits
<1>6. IsFiniteSet(PaidUnits(s)) /\ IsFiniteSet(PromoUnits(s))
  BY <1>3, <1>4, <1>5, FS_Subset
<1>7. Cardinality(PaidUnits(s)) \in Nat /\ Cardinality(PromoUnits(s)) \in Nat
  BY <1>6, FS_CardinalityType
<1> QED
  BY <1>6, <1>7 DEF Granted

\* What a step may do to the days of a shop.
Days(s) ==
    LET gain == Granted(s)' - Granted(s)
    IN  \/ gain = 0 /\ left'[s] \in {left[s], Passed(left[s])}
        \/ gain > 0 /\ left'[s] = (IF left[s] > 0 THEN left[s] ELSE 0) + gain
        \/ gain = 0 /\ sub[s].status = "none" /\ left'[s] = TrialLen
        \/ /\ gain = 0 /\ sub'[s].status = "past_due"
           /\ left'[s] = GraceLen /\ left[s] <= GraceLen

\* Nothing is granted to a shop by a step that adds none of its transactions to
\* the ledger and none of its redemptions.
LEMMA NothingGranted ==
    ASSUME LogOK, NEW s,
           \A i \in ledger' : invoice'[i].shop = s => i \in ledger,
           ledger \subseteq ledger', \A i \in ledger : invoice'[i] = invoice[i],
           \A c \in Codes : <<c, s>> \in redeemed' /\ Grants[c] # "percent" => <<c, s>> \in redeemed,
           redeemed \subseteq redeemed'
    PROVE  Granted(s)' - Granted(s) = 0
<1>1. PaidUnits(s)' = PaidUnits(s)
  BY DEF PaidUnits
<1>2. PromoUnits(s)' = PromoUnits(s)
  BY DEF PromoUnits
<1>3. Granted(s)' = Granted(s) /\ Granted(s) \in Nat
  BY <1>1, <1>2, UnitsFinite DEF Granted
<1> QED
  BY <1>3

\* One more transaction of the shop in the ledger grants its period.
LEMMA PeriodGranted ==
    ASSUME LogOK, NEW s, NEW j, j \notin ledger, j \in ledger', invoice'[j].shop = s,
           invoice'[j].period \in Periods,
           \A i \in ledger' : invoice'[i].shop = s => i \in ledger \cup {j},
           ledger \subseteq ledger', \A i \in ledger : invoice'[i] = invoice[i],
           redeemed' = redeemed
    PROVE  Granted(s)' - Granted(s) = Length[invoice'[j].period]
<1>0. PICK n : n = Length[invoice'[j].period]
  OBVIOUS
<1>1. n \in 1..Longest /\ n \in Nat
  BY <1>0, LengthsAreTimes
<1>2. PaidUnits(s)' = PaidUnits(s) \cup UnitsFor(j, n)
  BY <1>0 DEF PaidUnits, UnitsFor
<1>3. PromoUnits(s)' = PromoUnits(s)
  BY DEF PromoUnits
<1>4. \A u \in PaidUnits(s) : u[1] # j
  BY DEF PaidUnits
<1>5. /\ IsFiniteSet(PaidUnits(s)) /\ Cardinality(PaidUnits(s)) \in Nat
      /\ Cardinality(PromoUnits(s)) \in Nat
  BY UnitsFinite
<1>6. Cardinality(PaidUnits(s) \cup UnitsFor(j, n)) = Cardinality(PaidUnits(s)) + n
  BY <1>1, <1>4, <1>5, UnitsAdd
<1>7. Granted(s)' = Cardinality(PaidUnits(s)) + n + Cardinality(PromoUnits(s))
  BY <1>2, <1>3, <1>6 DEF Granted
<1> QED
  BY <1>0, <1>1, <1>5, <1>7 DEF Granted

\* A code that is redeemed grants its length, unless it is a discount.
LEMMA CodeGranted ==
    ASSUME LogOK, NEW s, NEW c \in Codes, <<c, s>> \notin redeemed, Grants[c] # "percent",
           redeemed' = redeemed \cup {<<c, s>>}, invoice' = invoice, ledger' = ledger
    PROVE  Granted(s)' - Granted(s) = CodeLen[c]
<1>1. CodeLen[c] \in 1..Longest /\ CodeLen[c] \in Nat
  BY LengthsAreTimes
<1>2. PromoUnits(s)' = PromoUnits(s) \cup UnitsFor(c, CodeLen[c])
  BY DEF PromoUnits, UnitsFor
<1>3. PaidUnits(s)' = PaidUnits(s)
  BY DEF PaidUnits
<1>4. \A u \in PromoUnits(s) : u[1] # c
  BY DEF PromoUnits
<1>5. /\ IsFiniteSet(PromoUnits(s)) /\ Cardinality(PromoUnits(s)) \in Nat
      /\ Cardinality(PaidUnits(s)) \in Nat
  BY UnitsFinite
<1>6. Cardinality(PromoUnits(s) \cup UnitsFor(c, CodeLen[c]))
         = Cardinality(PromoUnits(s)) + CodeLen[c]
  BY <1>1, <1>4, <1>5, UnitsAdd
<1>7. Granted(s)' = Cardinality(PaidUnits(s)) + (Cardinality(PromoUnits(s)) + CodeLen[c])
  BY <1>2, <1>3, <1>6 DEF Granted
<1> QED
  BY <1>1, <1>5, <1>7 DEF Granted

\* A shop that no entry is added for and whose row a step leaves alone.
LEMMA DaysKept ==
    ASSUME NEW s, Granted(s)' - Granted(s) = 0, left'[s] \in {left[s], Passed(left[s])}
    PROVE  Days(s)
BY DEF Days

LEMMA DaysAdded ==
    ASSUME SubInv, NEW s \in Shops, NEW n \in 1..Longest, Granted(s)' - Granted(s) = n,
           left'[s] = Base(s) + n
    PROVE  Days(s)
BY LengthsAreTimes DEF Days, Base

LEMMA WebhookDays ==
    ASSUME SubInv, NEW i, Webhook(i), NEW s \in Shops
    PROVE  Days(s)
<1> DEFINE p == invoice[i]
<1>1. LogOK /\ i \in DOMAIN invoice /\ i \notin ledger /\ p.period \in Periods
  BY Logs, InvoiceType DEF Webhook
<1>2. invoice' = invoice /\ ledger' = ledger \cup {i} /\ redeemed' = redeemed
  BY DEF Webhook
<1>3. CASE s = p.shop
  <2>1. Granted(s)' - Granted(s) = Length[p.period]
    BY <1>1, <1>2, <1>3, PeriodGranted
  <2>2. left'[s] = Base(s) + Length[p.period]
    BY <1>3 DEF Webhook, SubInv, SubTypeOK
  <2> QED
    BY <1>1, <2>1, <2>2, DaysAdded, LengthsAreTimes
<1>4. CASE s # p.shop
  <2>1. Granted(s)' - Granted(s) = 0
    BY <1>1, <1>2, <1>4, NothingGranted
  <2>2. left'[s] = left[s]
    BY <1>4 DEF Webhook, SubInv, SubTypeOK
  <2> QED
    BY <2>1, <2>2, DaysKept
<1> QED
  BY <1>3, <1>4

LEMMA ChargeDays ==
    ASSUME SubInv, NEW approved \in SUBSET Due, ChargeDue(approved), NEW s \in Shops
    PROVE  Days(s)
<1> DEFINE more == Charged(approved)
           n == Cardinality(approved)
<1>1. LogOK /\ n \in Nat /\ more \in Seq(Invoice) /\ Len(more) = n
  BY Logs, ChargedType DEF SubInv
<1>2. /\ \A k \in 1..n : more[k].shop \in approved /\ more[k].period = sub[more[k].shop].period
      /\ \A x \in approved : \E k \in 1..n :
            more[k].shop = x /\ \A j \in 1..n : more[j].shop = x => j = k
  BY ChargedType DEF SubInv
<1>3. /\ invoice' = invoice \o more /\ Len(invoice) + Len(more) <= MaxInvoices
      /\ ledger' = ledger \cup (DOMAIN invoice' \ DOMAIN invoice) /\ redeemed' = redeemed
  BY <1>1 DEF ChargeDue, Fits
<1> HIDE DEF more, n
<1>4. /\ DOMAIN invoice \subseteq DOMAIN invoice'
      /\ \A i \in DOMAIN invoice : invoice'[i] = invoice[i]
      /\ \A i \in DOMAIN invoice' \ DOMAIN invoice :
            i - Len(invoice) \in 1..n /\ invoice'[i] = more[i - Len(invoice)]
      /\ \A k \in 1..n : /\ Len(invoice) + k \in DOMAIN invoice' \ DOMAIN invoice
                         /\ invoice'[Len(invoice) + k] = more[k]
  BY <1>1, <1>3, LogGrows
<1>5. ledger \subseteq DOMAIN invoice /\ DOMAIN invoice' \subseteq Nat /\ Len(invoice) \in Nat
  <2>1. invoice \in Seq(Invoice) /\ invoice' \in Seq(Invoice) /\ ledger \subseteq DOMAIN invoice
    BY <1>1, <1>3 DEF LogOK
  <2> QED
    BY <2>1
<1>6. CASE s \in approved
  <2>1. PICK k \in 1..n : more[k].shop = s /\ \A j \in 1..n : more[j].shop = s => j = k
    BY <1>2, <1>6
  <2>2. PICK j : j = Len(invoice) + k
    OBVIOUS
  <2>3. j \notin ledger /\ j \in ledger' /\ invoice'[j] = more[k]
    BY <1>3, <1>4, <1>5, <2>2
  <2>4. \A i \in ledger' : invoice'[i].shop = s => i \in ledger \cup {j}
    BY <1>3, <1>4, <1>5, <2>1, <2>2
  <2>5. invoice'[j].shop = s /\ invoice'[j].period = sub[s].period /\ sub[s].period \in Periods
    BY <1>2, <2>1, <2>3 DEF SubInv, SubTypeOK, Sub
  <2>6. \A i \in ledger : invoice'[i] = invoice[i]
    BY <1>4, <1>5
  <2>7. Granted(s)' - Granted(s) = Length[sub[s].period]
    <3>1. ledger \subseteq ledger' /\ redeemed' = redeemed
      BY <1>3
    <3>2. Granted(s)' - Granted(s) = Length[invoice'[j].period]
      BY <1>1, <2>3, <2>4, <2>5, <2>6, <3>1, PeriodGranted
    <3> QED
      BY <2>5, <3>2
  <2>8. left'[s] = Base(s) + Length[sub[s].period]
    BY <1>6 DEF ChargeDue
  <2> QED
    BY <2>5, <2>7, <2>8, DaysAdded, LengthsAreTimes
<1>7. CASE s \notin approved
  <2>1. \A i \in ledger' : invoice'[i].shop = s => i \in ledger
    BY <1>2, <1>3, <1>4, <1>7
  <2>2. \A i \in ledger : invoice'[i] = invoice[i]
    BY <1>4, <1>5
  <2>3. Granted(s)' - Granted(s) = 0
    BY <1>1, <1>3, <2>1, <2>2, NothingGranted
  <2>4. CASE s \in Due
    <3>1. sub'[s] = [sub[s] EXCEPT !.status = "past_due"] /\ left'[s] = GraceLen
      BY <1>7, <2>4 DEF ChargeDue
    <3>2. sub'[s].status = "past_due"
      BY <3>1 DEF SubInv, SubTypeOK, Sub
    <3>3. left[s] <= GraceLen
      BY <2>4, BaseType, LengthAssumption DEF Due, SubInv
    <3> QED
      BY <2>3, <3>1, <3>2, <3>3 DEF Days
  <2>5. CASE s \notin Due
    BY <1>7, <2>3, <2>5, DaysKept DEF ChargeDue
  <2> QED
    BY <2>4, <2>5
<1> QED
  BY <1>6, <1>7

LEMMA RedeemDays ==
    ASSUME SubInv, NEW x \in Shops, NEW c \in Codes, Redeem(x, c), NEW s \in Shops
    PROVE  Days(s)
<1>1. /\ LogOK /\ redeemed' = redeemed \cup {<<c, x>>}
      /\ invoice' = invoice /\ ledger' = ledger
  BY Logs DEF Redeem
<1>2. <<c, x>> \notin redeemed
  BY DEF Redeem, Redeemers
<1>3. CASE s = x /\ Grants[c] # "percent"
  <2>1. Granted(s)' - Granted(s) = CodeLen[c]
    BY <1>1, <1>2, <1>3, CodeGranted
  <2>2. left'[s] = Base(s) + CodeLen[c]
    BY <1>3 DEF Redeem, SubInv, SubTypeOK
  <2> QED
    BY <2>1, <2>2, DaysAdded, LengthsAreTimes
<1>4. CASE s # x \/ Grants[c] = "percent"
  <2>1. Granted(s)' - Granted(s) = 0
    BY <1>1, <1>4, NothingGranted
  <2>2. left'[s] = left[s]
    BY <1>4 DEF Redeem, SubInv, SubTypeOK
  <2> QED
    BY <2>1, <2>2, DaysKept
<1> QED
  BY <1>3, <1>4

LEMMA DaysStep == SubInv /\ [SubNext]_vars => \A s \in Shops : Days(s)
<1> SUFFICES ASSUME SubInv, [SubNext]_vars, NEW s \in Shops PROVE Days(s)
  OBVIOUS
<1>0. LogOK
  BY Logs
<1>1. ASSUME UNCHANGED <<ledger, redeemed>>, \A i \in ledger : invoice'[i] = invoice[i]
      PROVE  Granted(s)' - Granted(s) = 0
  BY <1>0, <1>1, NothingGranted
<1>2. ASSUME UNCHANGED <<invoice, ledger, redeemed, left>> PROVE Days(s)
  BY <1>1, <1>2, DaysKept
<1>3. ASSUME NEW x \in Shops, StartTrial(x) PROVE Days(s)
  <2>1. Granted(s)' - Granted(s) = 0
    BY <1>1, <1>3 DEF StartTrial
  <2>2. left'[s] = left[s] \/ (sub[s].status = "none" /\ left'[s] = TrialLen)
    <3>1. left \in [Shops -> Int] /\ left' = [left EXCEPT ![x] = TrialLen]
          /\ sub[x].status = "none"
      BY <1>3 DEF StartTrial, SubInv, SubTypeOK
    <3>2. CASE s = x
      BY <3>1, <3>2
    <3>3. s # x => left'[s] = left[s]
      BY <3>1
    <3> QED
      BY <3>2, <3>3
  <2> QED
    BY <2>1, <2>2 DEF Days
<1>4. CASE Tick
  BY <1>1, <1>4, DaysKept DEF Tick
<1>5. ASSUME NEW more \in Seq(Invoice), invoice' = invoice \o more,
             UNCHANGED <<ledger, redeemed, left>>
      PROVE  Days(s)
  <2>1. \A i \in ledger : invoice'[i] = invoice[i]
    BY <1>0, <1>5 DEF LogOK
  <2> QED
    BY <1>1, <1>5, <2>1, DaysKept
<1>6. ASSUME NEW x \in Shops, NEW plan \in Plans, NEW provider \in Providers,
             NEW period \in Periods, NEW state \in {"paid", "declined"},
             PayInvoice(x, provider, plan, period, state)
      PROVE  Days(s)
  <2>1. <<Pay(x, provider, plan, period, state)>> \in Seq(Invoice)
    BY DEF Pay, Invoice
  <2>2. invoice' = invoice \o <<Pay(x, provider, plan, period, state)>>
    BY <1>0, <1>6, <2>1 DEF PayInvoice, LogOK
  <2> QED
    BY <1>5, <1>6, <2>1, <2>2 DEF PayInvoice
<1>7. CASE PaySome
  <2>1. \A x \in Shops, plan \in Plans : StarsRenews(x, plan) =>
           PayInvoice(x, "stars", plan, "month", "paid")
    BY DEF StarsRenews
  <2>2. "stars" \in Providers /\ "month" \in Periods
    BY DEF Providers, Periods
  <2> QED
    BY <1>6, <1>7, <2>1, <2>2 DEF PaySome
<1>8. CASE ChargeSome
  <2>1. ASSUME NEW S \in SUBSET Due, ChargeDueDies(S) PROVE Days(s)
    BY <1>5, <2>1, ChargedType DEF ChargeDueDies, SubInv
  <2> QED
    BY <1>8, <2>1, ChargeDays DEF ChargeSome
<1> QED
  BY <1>2, <1>3, <1>4, <1>7, <1>8, RedeemDays, WebhookDays
     DEF SubNext, BootstrapDies, StarsEnds, Cancel, ExpireSubscriptions, SendReminders, vars

\* Every day of a period is accounted for by a row of payments or a redemption
\* (record_payment(), redeem_promo()), whatever jobs, webhooks and cancellations
\* come between; a declined card gives the grace and takes nothing.
THEOREM EveryDayAccounted == SubSpec => DaysAddUp
<1>1. DaysAddUp <=> [][\A s \in Shops : Days(s)]_vars
  BY DEF DaysAddUp, Days
<1> QED
  BY <1>1, DaysStep, SubInvHolds, SpecIsSafe, PTL DEF SubSafe
=============================================================================
