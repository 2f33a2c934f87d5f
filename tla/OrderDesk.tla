------------------------------ MODULE OrderDesk ------------------------------
(***************************************************************************)
(* services/order_desk.py with ledger.py, against the broker as            *)
(* kis_trading.py and kis_notice.py see it.                                *)
(*                                                                         *)
(* The ledger of one trading day and one (symbol, side): every rule of the *)
(* ledger works per such key.  The desk is one event loop; its steps end   *)
(* at the awaits of a broker call.  A broker call is made of the broker    *)
(* answering and, later, the desk reading the answer.  The ledger survives *)
(* a crash of the desk, everything else of it does not.                    *)
(***************************************************************************)
EXTENDS Integers, FiniteSetsExt

CONSTANTS
    ClientIds,      \* client_order_id values the browser uses
    MaxQty,         \* cfg.order_max_qty
    Notices,        \* fill notices are switched on
    MaxOrders,      \* bound: rows of the ledger
    MaxShares,      \* bound: shares ordered in all of them
    MaxFaults       \* bound: crashes, failed calls of the reconcile loop and shares
                    \* ordered outside the desk, together

ASSUME DeskAssumption ==
    /\ MaxQty \in Nat \ {0} /\ MaxOrders \in Nat /\ Notices \in BOOLEAN
    /\ MaxShares \in Nat /\ MaxFaults \in Nat

Ids  == 1..MaxOrders
Qtys == 0..MaxQty
Mails == [id : Ids, upto : Qtys, qty : Qtys]     \* fill notices
NoticeQty == [m \in Mails |-> m.qty]
NoBase   == [ord |-> -1, fill |-> -1]
NoSubmit == [pc |-> "idle", cid |-> 0, qty |-> 0, answer |-> NoBase]

OPEN_STATES     == {"PENDING_SUBMIT", "ACCEPTED", "PARTIAL", "UNKNOWN"}
LIVE_STATES     == {"ACCEPTED", "PARTIAL", "FILLED", "EXPIRED"}
FILLABLE_STATES == {"ACCEPTED", "PARTIAL"}

VARIABLES
    \* the ledger
    rows,           \* orders in it: 1..rows, in the order they were made
    cid, qty, filled, state,    \* columns of orders
    odno,           \* orders whose odno is known
    base,           \* totals_baseline
    noticed,        \* notice_fills
    closed,         \* day_close has the day
    \* the desk
    submit,         \* the submit that holds _submit_lock
    recon,          \* reconcile_once: "idle", "asked", "answered", "applied"
    answer,         \* the day totals it was answered
    found, seen,    \* breaks of this round, _seen_breaks
    breaks,         \* breaks: found in two rounds running
    \* the broker
    request,        \* what became of the order request of a row
    bfilled,        \* shares filled
    external,       \* shares ordered outside the desk, and filled
    totals,         \* filled shares the day totals show already
    mail,           \* fill notices on their way
    \* time
    old,            \* orders made more than UNKNOWN_GRACE_S ago
    recent,         \* notices applied less than NOTICE_GRACE_S ago
    late,           \* DAY_CLOSE_AT has passed
    crashes, fails

ledger == <<rows, cid, qty, filled, state, odno, base, noticed, closed>>
desk   == <<submit, recon, answer, found, seen, breaks>>
broker == <<request, bfilled, external, totals, mail>>
time   == <<old, recent, late, crashes, fails>>
vars   == <<ledger, desk, broker, time>>

Init ==
    /\ rows = 0 /\ cid = [i \in Ids |-> 0] /\ qty = [i \in Ids |-> 0]
    /\ filled = [i \in Ids |-> 0] /\ state = [i \in Ids |-> "none"]
    /\ odno = {} /\ base = NoBase /\ noticed = {} /\ closed = FALSE
    /\ submit = NoSubmit /\ recon = "idle" /\ answer = NoBase
    /\ found = {} /\ seen = {} /\ breaks = {}
    /\ request = [i \in Ids |-> "none"] /\ bfilled = [i \in Ids |-> 0]
    /\ external = [ord |-> 0, fill |-> 0] /\ totals = 0 /\ mail = {}
    /\ old = {} /\ recent = {} /\ late = FALSE /\ crashes = 0 /\ fails = 0

MoreFaults == crashes + fails + external.ord < MaxFaults

Rows      == 1..rows
In(S)     == {i \in Rows : state[i] \in S}
Total(f, S) == MapThenSumSet(LAMBDA i : f[i], S)
AtBroker  == {i \in Ids : request[i] = "accepted"}

\* What the broker answers to day_totals.  Ordered shares show at once, filled
\* ones when the totals have caught up.
DayTotals == [ord  |-> Total(qty, AtBroker) + external.ord, fill |-> totals]

-----------------------------------------------------------------------------
(* submit, under _submit_lock.                                             *)

\* The checks before the first await: a client id that is known gets its
\* order back, a closed day or an open order blocks.
NeverRecorded(c) == FALSE           \* mutant: the id is not looked up
Recorded(c) == \E i \in Rows : cid[i] = c
OpenOrder == In(OPEN_STATES) # {}

SubmitChecked(c, q) ==
    /\ submit.pc = "idle"
    /\ ~Recorded(c) /\ ~closed /\ ~OpenOrder
    /\ rows < MaxOrders /\ Total(qty, Rows) + q <= MaxShares
    /\ submit' = [pc |-> "preparing", cid |-> c, qty |-> q, answer |-> NoBase]
    /\ UNCHANGED <<ledger, recon, answer, found, seen, breaks, broker, time>>

\* The price or the totals cannot be had, or a limit on the amount is exceeded.
SubmitBlocked ==
    /\ submit.pc \in {"preparing", "baseline"}
    /\ submit' = NoSubmit
    /\ UNCHANGED <<ledger, recon, answer, found, seen, breaks, broker, time>>

\* The first order of the day: the broker answers with the totals so far.
BaselineAnswered ==
    /\ submit.pc = "preparing" /\ base = NoBase
    /\ submit' = [submit EXCEPT !.pc = "baseline", !.answer = DayTotals]
    /\ UNCHANGED <<ledger, recon, answer, found, seen, breaks, broker, time>>

\* set_totals_baseline and new_order; the order is written before it is sent.
NewOrder ==
    /\ \/ submit.pc = "baseline" /\ base' = submit.answer
       \/ submit.pc = "preparing" /\ base # NoBase /\ UNCHANGED base
    /\ rows' = rows + 1
    /\ cid' = [cid EXCEPT ![rows + 1] = submit.cid]
    /\ qty' = [qty EXCEPT ![rows + 1] = submit.qty]
    /\ state' = [state EXCEPT ![rows + 1] = "PENDING_SUBMIT"]
    /\ submit' = [submit EXCEPT !.pc = "recorded", !.answer = NoBase]
    /\ UNCHANGED <<filled, odno, noticed, closed, recon, answer, found, seen,
                   breaks, broker, time>>

Sent == rows                        \* the row submit is working on

SendOrder ==
    /\ submit.pc = "recorded"
    /\ request' = [request EXCEPT ![Sent] = "underway"]
    /\ submit' = [submit EXCEPT !.pc = "sending"]
    /\ UNCHANGED <<ledger, recon, answer, found, seen, breaks, bfilled, external,
                   totals, mail, time>>

\* mark(): the three ways client.order ends.
Mark(s) ==
    /\ state' = [state EXCEPT ![Sent] = s]
    /\ submit' = NoSubmit
    /\ UNCHANGED <<rows, cid, qty, filled, base, noticed, closed, recon, answer,
                   found, seen, breaks, broker, time>>

OrderAccepted ==
    /\ submit.pc = "sending" /\ request[Sent] = "accepted"
    /\ odno' = odno \cup {Sent}
    /\ Mark("ACCEPTED")

OrderRejected ==
    /\ submit.pc = "sending" /\ request[Sent] = "rejected"
    /\ Mark("REJECTED") /\ UNCHANGED odno

UncertainRejected ==                \* mutant: a timeout is taken for a refusal
    /\ submit.pc = "sending"
    /\ Mark("REJECTED") /\ UNCHANGED odno
OrderUncertain ==
    /\ submit.pc = "sending"
    /\ Mark("UNKNOWN") /\ UNCHANGED odno

-----------------------------------------------------------------------------
(* apply_notice.                                                           *)

NoticeOverfills(m) ==               \* mutant: what is left is not looked at
    /\ m \notin noticed
    /\ m.id \in odno
    /\ state[m.id] \in FILLABLE_STATES
NoticeApplies(m) ==
    /\ m \notin noticed
    /\ m.id \in odno
    /\ state[m.id] \in FILLABLE_STATES
    /\ m.qty <= qty[m.id] - filled[m.id]

FillState(i, f) == IF f = qty[i] THEN "FILLED" ELSE "PARTIAL"

\* A notice is read, and may be read again: it stays in the mail.
OnNotice(m) ==
    /\ NoticeApplies(m)
    /\ filled' = [filled EXCEPT ![m.id] = @ + m.qty]
    /\ state' = [state EXCEPT ![m.id] = FillState(m.id, filled[m.id] + m.qty)]
    /\ noticed' = noticed \cup {m} /\ recent' = recent \cup {m}
    /\ UNCHANGED <<rows, cid, qty, odno, base, closed, desk, broker, old, late,
                   crashes, fails>>

-----------------------------------------------------------------------------
(* reconcile_once: keys_to_watch, day_totals, apply_totals; then the       *)
(* holdings, _confirm and _maybe_close.                                    *)

Watched == Rows \ In({"REJECTED", "NOT_SENT"}) # {}

ReconcileStart ==
    /\ recon = "idle"
    /\ recon' = IF Watched THEN "asked" ELSE "applied"
    /\ found' = {}
    /\ UNCHANGED <<ledger, submit, answer, seen, breaks, broker, time>>

TotalsAnswered ==
    /\ recon = "asked"
    /\ recon' = "answered" /\ answer' = DayTotals
    /\ UNCHANGED <<ledger, submit, found, seen, breaks, broker, time>>

\* Rejected or Uncertain ends the round, what it found is forgotten.
ReconcileFails ==
    /\ recon \in {"asked", "applied"} /\ MoreFaults
    /\ fails' = fails + 1
    /\ recon' = "idle"
    /\ UNCHANGED <<ledger, submit, answer, found, seen, breaks, broker, old,
                   recent, late, crashes>>

Live    == In(LIVE_STATES)
Unknown == In({"UNKNOWN"})
Extra   == answer.ord - base.ord - Total(qty, Live)

\* Rule 2: the orders in doubt explain exactly what the broker has in excess.
Explained   == Unknown # {} /\ Extra > 0 /\ Total(qty, Unknown) = Extra
Unexplained == Extra > 0 /\ ~Explained

ResolvedIfSent(i) ==                \* mutant: orders that never arrived stay in doubt
    IF i \in Unknown /\ Explained THEN "ACCEPTED" ELSE state[i]
Resolved(i) ==
    CASE i \in Unknown /\ Explained              -> "ACCEPTED"
      [] i \in Unknown /\ Extra <= 0 /\ i \in old -> "NOT_SENT"
      [] OTHER                                   -> state[i]

\* Rule 4: what the fills exceed the ledger by goes to the open orders.
Sharing == IF Explained THEN Live \cup Unknown ELSE Live
Delta   == answer.fill - base.fill - Total(filled, Sharing)
Left    == [i \in Ids |-> qty[i] - filled[i]]
Open    == {i \in Sharing : Resolved(i) \in FILLABLE_STATES /\ Left[i] > 0}
Room    == Total(Left, Open)
Absorbs == ~Unexplained /\ Delta > 0 /\ Delta <= Room
Share(i) ==                         \* oldest order first
    LET rest == Delta - Total(Left, {j \in Open : j < i})
    IN  IF rest <= 0 THEN 0 ELSE IF rest < Left[i] THEN rest ELSE Left[i]
Take(i) == IF Absorbs /\ i \in Open THEN Share(i) ELSE 0

Break(kind, n) == [kind |-> kind, n |-> n]
RecentlyNoticed == Total(NoticeQty, {m \in recent : m.id \in Sharing})

TotalsBreaks ==
    IF Unexplained THEN {Break("unexplained_broker_orders", Extra)}
    ELSE (IF Extra < 0 THEN {Break("ledger_orders_missing_at_broker", -Extra)} ELSE {})
         \cup (IF Delta < 0 /\ -Delta > RecentlyNoticed
               THEN {Break("broker_fills_below_ledger", Delta)} ELSE {})
         \cup (IF Delta > Room THEN {Break("fills_exceed_orders", Delta)} ELSE {})

\* A row is only written once its baseline is there, so "no_baseline" cannot be.
ApplyTotals ==
    /\ recon = "answered"
    /\ recon' = "applied"
    /\ found' = TotalsBreaks
    /\ filled' = [i \in Ids |-> filled[i] + IF i \in Rows THEN Take(i) ELSE 0]
    /\ state' = [i \in Ids |->
          IF i \notin Rows THEN state[i]
          ELSE IF Take(i) > 0 THEN FillState(i, filled[i] + Take(i)) ELSE Resolved(i)]
    /\ answer' = NoBase
    /\ UNCHANGED <<rows, cid, qty, odno, base, noticed, closed, submit, seen,
                   breaks, broker, time>>

\* close_day: nothing in doubt, nothing found; what is unfilled expires.
CanCloseUnknown == late /\ ~closed /\ found = {}    \* mutant: doubts do not block
CanClose == late /\ ~closed /\ found = {} /\ In({"PENDING_SUBMIT", "UNKNOWN"}) = {}

\* _confirm: a break counts when two rounds running found it.
Confirmed == found \cap seen

\* close_day: an order that could still be filled expires with the day
Expired == [i \in Ids |-> IF state[i] \in FILLABLE_STATES THEN "EXPIRED" ELSE state[i]]

ReconcileEnd ==
    /\ recon = "applied"
    /\ recon' = "idle"
    /\ breaks' = Confirmed
    /\ seen' = found
    /\ IF CanClose
       THEN /\ closed' = TRUE
            /\ state' = Expired
       ELSE UNCHANGED <<closed, state>>
    /\ UNCHANGED <<rows, cid, qty, filled, odno, base, noticed, submit, answer,
                   found, broker, time>>

-----------------------------------------------------------------------------
(* The desk dies and starts again: recover_pending.  Every statement of    *)
(* the ledger commits by itself (isolation_level=None), so it may also die *)
(* between two of them.  With one open order at most, a round resolves and *)
(* fills one row at most and a day expires one: these are all the ledgers  *)
(* it can leave behind that no whole operation leaves.                     *)

Die(st) ==
    /\ MoreFaults
    /\ crashes' = crashes + 1
    /\ submit' = NoSubmit /\ recon' = "idle" /\ answer' = NoBase
    /\ found' = {} /\ seen' = {} /\ breaks' = {}
    /\ state' = [i \in Ids |-> IF st[i] = "PENDING_SUBMIT" THEN "UNKNOWN" ELSE st[i]]
    /\ UNCHANGED <<rows, cid, qty, filled, odno, closed, broker, old, late, fails>>

Crash == Die(state) /\ UNCHANGED <<base, noticed, recent>>

\* set_totals_baseline is done, new_order is not.
CrashInNewOrder ==
    /\ submit.pc = "baseline" /\ base' = submit.answer
    /\ Die(state) /\ UNCHANGED <<noticed, recent>>

\* apply_notice has its row in notice_fills, the order has not its shares.
CrashInNotice(m) ==
    /\ NoticeApplies(m) /\ noticed' = noticed \cup {m} /\ recent' = recent \cup {m}
    /\ Die(state) /\ UNCHANGED base

\* _apply_totals has resolved the order in doubt and given it no fill.
CrashInTotals ==
    /\ recon = "answered"
    /\ Die([i \in Ids |-> IF i \in Rows THEN Resolved(i) ELSE state[i]])
    /\ UNCHANGED <<base, noticed, recent>>

\* close_day has expired what was open, the day is not in day_close.
CrashInClose ==
    /\ recon = "applied" /\ CanClose
    /\ Die(Expired) /\ UNCHANGED <<base, noticed, recent>>

Dies ==
    \/ Crash \/ CrashInNewOrder \/ CrashInTotals \/ CrashInClose
    \/ \E m \in mail : CrashInNotice(m)

-----------------------------------------------------------------------------
(* The broker, and time.                                                   *)

\* A request arrives within the grace period or never: rule 2 rests on it.
BrokerAccepts(i) ==
    /\ request[i] = "underway" /\ i \notin old
    /\ request' = [request EXCEPT ![i] = "accepted"]
    /\ UNCHANGED <<ledger, desk, bfilled, external, totals, mail, time>>

BrokerRejects(i) ==
    /\ request[i] = "underway" /\ i \notin old
    /\ request' = [request EXCEPT ![i] = "rejected"]
    /\ UNCHANGED <<ledger, desk, bfilled, external, totals, mail, time>>

BrokerFills(i) ==
    /\ request[i] = "accepted"
    /\ \E f \in 1..(qty[i] - bfilled[i]) :
         /\ bfilled' = [bfilled EXCEPT ![i] = @ + f]
         /\ mail' = IF Notices THEN mail \cup {[id |-> i, upto |-> bfilled[i] + f, qty |-> f]}
                               ELSE mail
    /\ UNCHANGED <<ledger, desk, request, external, totals, time>>

\* Somebody orders the same symbol and side elsewhere, and is filled.
ExternalOrder ==
    /\ MoreFaults
    /\ external' = [external EXCEPT !.ord = @ + 1]
    /\ UNCHANGED <<ledger, desk, request, bfilled, totals, mail, time>>
ExternalFill ==
    /\ external.fill < external.ord
    /\ external' = [external EXCEPT !.fill = @ + 1]
    /\ UNCHANGED <<ledger, desk, request, bfilled, totals, mail, time>>

AllFills == Total(bfilled, Ids) + external.fill
TotalsCatchUp ==
    /\ totals < AllFills
    /\ totals' = AllFills
    /\ UNCHANGED <<ledger, desk, request, bfilled, external, mail, time>>

\* Grace periods pass, though not while an answer is being applied.
GracePasses(i) ==
    /\ i \in Rows \ old /\ recon # "answered"
    /\ old' = old \cup {i}
    /\ UNCHANGED <<ledger, desk, broker, recent, late, crashes, fails>>
NoticeAges ==
    /\ recent # {}
    /\ recent' = {}
    /\ UNCHANGED <<ledger, desk, broker, old, late, crashes, fails>>
MarketCloses ==
    /\ ~late
    /\ late' = TRUE
    /\ UNCHANGED <<ledger, desk, broker, old, recent, crashes, fails>>

-----------------------------------------------------------------------------
Submit ==
    \/ \E c \in ClientIds, q \in 1..MaxQty : SubmitChecked(c, q)
    \/ SubmitBlocked \/ BaselineAnswered \/ NewOrder \/ SendOrder
    \/ OrderAccepted \/ OrderRejected \/ OrderUncertain
Reconcile == ReconcileStart \/ TotalsAnswered \/ ApplyTotals \/ ReconcileEnd
Broker ==
    \/ \E i \in Ids : BrokerAccepts(i) \/ BrokerRejects(i) \/ BrokerFills(i)
    \/ ExternalOrder \/ ExternalFill \/ TotalsCatchUp
Time == (\E i \in Ids : GracePasses(i)) \/ NoticeAges \/ MarketCloses

Next ==
    \/ Submit
    \/ \E m \in mail : OnNotice(m)
    \/ Reconcile \/ ReconcileFails
    \/ Dies
    \/ Broker
    \/ Time

Spec == Init /\ [][Next]_vars

-----------------------------------------------------------------------------
(* Properties.                                                             *)

States == {"none", "REJECTED", "NOT_SENT"} \cup OPEN_STATES \cup LIVE_STATES
Answers == [ord : Nat, fill : Nat] \cup {NoBase}

TypeOK ==
    /\ rows \in 0..MaxOrders /\ cid \in [Ids -> ClientIds \cup {0}]
    /\ qty \in [Ids -> Qtys] /\ filled \in [Ids -> Qtys] /\ state \in [Ids -> States]
    /\ \A i \in Ids : (i > rows) = (state[i] = "none")
    /\ odno \subseteq Rows /\ base \in Answers /\ noticed \subseteq Mails
    /\ closed \in BOOLEAN
    /\ submit.pc \in {"idle", "preparing", "baseline", "recorded", "sending"}
    /\ recon \in {"idle", "asked", "answered", "applied"} /\ answer \in Answers
    /\ breaks \subseteq seen
    /\ request \in [Ids -> {"none", "underway", "accepted", "rejected"}]
    /\ bfilled \in [Ids -> Qtys] /\ totals \in Nat
    /\ mail \subseteq Mails /\ recent \subseteq noticed /\ old \subseteq Rows
    /\ late \in BOOLEAN /\ crashes \in 0..MaxFaults /\ fails \in 0..MaxFaults

\* Rule 4: one open order per symbol and side, through timeouts, crashes and
\* reconciliation, so that an increase of the totals has one owner.
OneOpenOrder == \A i, j \in In(OPEN_STATES) : i = j

\* Rule 3: a client id, however often it is submitted and whatever the desk
\* forgot in a crash, reaches the broker at most once.
OncePerClientId ==
    \A i, j \in Ids : request[i] # "none" /\ request[j] # "none" /\ cid[i] = cid[j] => i = j

\* Rules 3 and 4: nothing the desk forgets or repeats makes a second order.
NoOrderTwice == OneOpenOrder /\ OncePerClientId

\* An order in doubt may have been taken for one placed elsewhere.
MayBeForeign(i) == external.ord > 0 /\ i \notin odno

\* Rules 1 and 2: the ledger's verdict on an order is what happened at the
\* broker: confirmed ones are there, refused and never sent ones are not, and
\* none is there that the ledger has no row for.
VerdictIsTrue ==
    \A i \in Ids :
      /\ state[i] \in LIVE_STATES => request[i] = "accepted" \/ MayBeForeign(i)
      /\ state[i] \in {"none", "REJECTED", "NOT_SENT"} => request[i] # "accepted"

\* A filled order is filled exactly, an open one has something left.
FillsWithinOrders ==
    \A i \in Rows : /\ filled[i] <= qty[i]
                    /\ state[i] = "FILLED" <=> filled[i] = qty[i]
                    /\ state[i] \notin LIVE_STATES => filled[i] = 0

\* What an order may have in the ledger: its fills at the broker, and those of notices
\* that came after the totals that had them already, which apply_notice counts again.
OwnFills(i) == bfilled[i] + Total(NoticeQty, {m \in noticed : m.id = i})

\* Rule 4: "the owner of an increase is the only one".  An order has no more fills in
\* the ledger than are its own, unless somebody orders the same elsewhere, or another
\* order expired before it was made: a day is closed in several commits, and where the
\* desk dies between them it goes on taking orders and gives a late fill of the expired
\* one to the new one.
FilledAtBroker ==
    external.ord = 0 =>
      \A i \in Rows : filled[i] <= OwnFills(i) \/ \E j \in Rows : j < i /\ state[j] = "EXPIRED"

\* Totals and notices between them never book a fill that is none.
FillsAreReal == TypeOK /\ FillsWithinOrders /\ FilledAtBroker

\* Rule 6: "no wrong day is made final".  When the day is closed, the orders
\* the ledger counts as sent are those at the broker.
CloseIsSound ==
    [][~closed /\ closed' =>
         \A i \in Ids :
           /\ request[i] = "accepted" => state'[i] \in LIVE_STATES
           /\ state'[i] \in LIVE_STATES => request[i] = "accepted" \/ MayBeForeign(i)]_vars

Applied == recon = "answered" /\ recon' = "applied"

\* Rule 2: a round of the reconcile loop leaves no order in doubt whose grace
\* period is over, unless it finds a break: the broker has it or never will.
RoundSettles ==
    [][Applied => \A i \in old : state[i] = "UNKNOWN"
                                  => state'[i] # "UNKNOWN" \/ found' # {}]_vars

\* A round that is told of every fill leaves none of them out of the ledger,
\* whichever notices were lost and whenever the desk died, unless it finds a
\* break or an order is in doubt.
RoundTakesFills ==
    [][Applied /\ answer.fill = AllFills /\ In({"PENDING_SUBMIT", "UNKNOWN"}) = {}
         => found' # {} \/ Total(filled', Ids) >= answer.fill - base.fill]_vars
\* A round of the reconcile loop that meets no break leaves the ledger with
\* what the broker told it.
RoundConverges == RoundSettles /\ RoundTakesFills
==============================================================================
