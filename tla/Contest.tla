------------------------------ MODULE Contest ------------------------------
(***************************************************************************)
(* The paper-trading contest: services/contest.py over the ledger of       *)
(* contest.py, with the quotes of kis_trading.py and the token it shares   *)
(* with feedd (KisToken).                                                  *)
(*                                                                         *)
(* One event loop; a handler runs to its next await.  The ledger is a      *)
(* SQLite file, its transactions are atomic and survive a crash of the     *)
(* process.  One stock is traded.  Somebody with access to the file may    *)
(* edit it, which integrity() is there to find.                            *)
(***************************************************************************)
EXTENDS KisToken, Sequences, FiniteSets, FiniteSetsExt

CONSTANTS
    People,         \* participants, by nickname
    Codes,          \* invite codes
    ClientIds,      \* client_order_id values
    Slots,          \* requests under way at the same time
    Prices,         \* prices of the stock; 0 is an answer without a price
    Menu,           \* what clients ask for: [cid, side, qty], qty within contest_max_qty
    InitialCash,
    FeePct, TaxPct, \* fee_ppm and tax_ppm, in percent
    Quote,          \* the caller of KisToken that is the quote request in flight
    Unissued, Unused,   \* an invite code before and after it is made
    None,
    MaxRare         \* bound: crashes, edits, failures, closings and price moves together

ASSUME ContestAssumption ==
    /\ Menu \subseteq [cid : ClientIds, side : {"buy", "sell"}, qty : Nat \ {0}]
    /\ InitialCash \in Nat \ {0}
    /\ FeePct \in Nat /\ TaxPct \in Nat /\ FeePct + TaxPct <= 100
    /\ Prices \subseteq Nat /\ 0 \in Prices
    /\ IsFiniteSet(People) /\ IsFiniteSet(Codes)
    /\ Unissued # Unused /\ {Unissued, Unused} \cap People = {}
    /\ None \notin [side : {"buy", "sell"}, qty : Nat, cash : Int, state : {"FILLED", "REJECTED"}]
    /\ MaxRare \in Nat /\ Quote \in Callers

VARIABLES
    \* the ledger
    codes,          \* invites: code -> Unissued, Unused or who used it
    cash, qty, cost,    \* accounts and positions of those who signed up
    orders,         \* (participant, client_order_id) -> order
    journal,        \* rows with their hash chain
    halted,         \* settings: halted
    \* the process
    session,        \* who is logged in
    req,            \* slot -> the request that is in one of its awaits
    quote,          \* _quotes: the price still within its TTL
    tries,          \* _inflight: 0, or which call of _call_once is made
    \* the world
    px,             \* the price at the exchange
    edited,         \* the file was edited: "no", "yes", or "repaired" since
    checked,        \* and integrity() has run since (history)
    rare

ledgerVars == <<codes, cash, qty, cost, orders, journal, halted>>
procVars == <<session, req, quote, tries>>
worldVars == <<px, edited, checked, rare>>
vars == <<ledgerVars, procVars, worldVars, tokenVars>>

Genesis == <<0, 0>>
Joined == {p \in People : \E c \in Codes : codes[c] = p}
Rare == rare < MaxRare /\ rare' = rare + 1

Init ==
    /\ TokenInit
    /\ codes = [c \in Codes |-> Unissued]
    /\ cash = [p \in People |-> 0] /\ qty = [p \in People |-> 0]
    /\ cost = [p \in People |-> 0]
    /\ orders = [o \in People \X ClientIds |-> None] /\ journal = <<>> /\ halted = FALSE
    /\ session = {} /\ req = [s \in Slots |-> None] /\ quote = None /\ tries = 0
    /\ px \in Prices \ {0}
    /\ edited = "no" /\ checked = FALSE /\ rare = 0

-----------------------------------------------------------------------------
\* the ledger: contest.py


\* _journal: a row seals its content and the hash of the row before it.  The
\* hash stands for what it is taken of: the row written as number "at", in
\* the version it had
Journal(kind, p, dcash, dqty, cid) ==
    LET at == Len(journal) + 1
        prev == IF journal = <<>> THEN Genesis ELSE journal[Len(journal)].hash
    IN  Append(journal, [kind |-> kind, who |-> p, cash |-> dcash, qty |-> dqty, cid |-> cid,
                         at |-> at, ver |-> 0, prev |-> prev, hash |-> <<at, 0>>])

\* signup(), inside its transaction
MaySignup(p, c) == codes[c] = Unused /\ p \notin Joined

\* costs(): whole won, fractions are dropped
Amount(n, price) == n * price
Fee(n, price) == (Amount(n, price) * FeePct) \div 100
Tax(side, n, price) == IF side = "sell" THEN (Amount(n, price) * TaxPct) \div 100 ELSE 0


\* place(): why an order is refused
Refused(p, side, n, price) ==
    \/ price = 0
    \/ side = "buy" /\ Amount(n, price) + Fee(n, price) > cash[p]
    \/ side = "sell" /\ n > qty[p]


\* a sale takes its share of the cost with it
CostAfter(p, r, price) ==
    IF r.side = "buy" THEN cost[p] + Amount(r.qty, price) + Fee(r.qty, price)
    ELSE cost[p] - (cost[p] * r.qty) \div qty[p]

\* the order is recorded; one that is not refused moves the money
Settle(p, r, price) ==
    LET amount == Amount(r.qty, price)
        fee == Fee(r.qty, price)
        dcash == IF r.side = "buy" THEN -(amount + fee)
                 ELSE amount - fee - Tax(r.side, r.qty, price)
        dqty == IF r.side = "buy" THEN r.qty ELSE -r.qty
        refused == Refused(p, r.side, r.qty, price)
    IN  /\ orders' = [orders EXCEPT ![<<p, r.cid>>] =
              [side |-> r.side, qty |-> r.qty, cash |-> dcash,
               state |-> IF refused THEN "REJECTED" ELSE "FILLED"]]
        /\ IF refused THEN UNCHANGED <<cash, qty, cost, journal>>
           ELSE /\ cash' = [cash EXCEPT ![p] = @ + dcash]
                /\ qty' = [qty EXCEPT ![p] = @ + dqty]
                /\ cost' = [cost EXCEPT ![p] = CostAfter(p, r, price)]
                /\ journal' = Journal("fill", p, dcash, dqty, r.cid)

\* mutant: an order that is there already is filled again
PlaceAgain(p, r, price) ==
    IF orders[<<p, r.cid>>] # None /\ Refused(p, r.side, r.qty, price)
    THEN UNCHANGED <<orders, cash, qty, cost, journal>>
    ELSE Settle(p, r, price)

\* place(): one transaction.  A client_order_id that is there already is given
\* back as it is
Place(p, r, price) ==
    IF orders[<<p, r.cid>>] # None THEN UNCHANGED <<orders, cash, qty, cost, journal>>
    ELSE Settle(p, r, price)

\* integrity(): the chain, then the tables against what the journal adds up to.
\* positions.cost is compared with nothing
ChainHolds ==
    \A k \in DOMAIN journal :
        /\ journal[k].prev = IF k = 1 THEN Genesis ELSE journal[k - 1].hash
        /\ journal[k].hash = <<journal[k].at, journal[k].ver>>
Rows(p) == {k \in DOMAIN journal : journal[k].who = p}
Filled == {o \in DOMAIN orders : orders[o] # None /\ orders[o].state = "FILLED"}
Fills == {k \in DOMAIN journal : journal[k].kind = "fill"}
OrderOf(k) == <<journal[k].who, journal[k].cid>>
Total(f, S) == MapThenSumSet(LAMBDA k : f[k], S)
JournalCash(p) == Total([k \in DOMAIN journal |-> journal[k].cash], Rows(p))
JournalQty(p) == Total([k \in DOMAIN journal |-> journal[k].qty], Rows(p))
CashMatches(p) == cash[p] = JournalCash(p)
PositionMatches(p) == qty[p] = JournalQty(p)
OrdersMatch ==
    /\ \A k \in Fills : /\ OrderOf(k) \in Filled
                        /\ orders[OrderOf(k)].cash = journal[k].cash
    /\ \A o \in Filled : \E k \in Fills : OrderOf(k) = o
Integrity == /\ ChainHolds
             /\ \A p \in People : CashMatches(p) /\ PositionMatches(p)
             /\ OrdersMatch

-----------------------------------------------------------------------------
\* the service: a request holds a slot while it awaits
Free(s) == req[s] = None
Becomes(s, r) == req' = [req EXCEPT ![s] = r]
Tables == <<cash, qty, cost, orders, journal>>

CreateInvites ==
    /\ \E c \in Codes : codes[c] = Unissued /\ codes' = [codes EXCEPT ![c] = Unused]
    /\ UNCHANGED <<Tables, halted, procVars, worldVars, tokenVars>>

\* signup: the password is hashed in a thread, nothing is checked before.  One
\* that could only fail changes nothing and is left out
Signup(s, p, c) ==
    /\ Free(s) /\ MaySignup(p, c) /\ Becomes(s, [kind |-> "signup", who |-> p, code |-> c])
    /\ UNCHANGED <<ledgerVars, session, quote, tries, worldVars, tokenVars>>

SignupEnds(s) ==
    /\ ~Free(s) /\ req[s].kind = "signup" /\ Becomes(s, None)
    /\ LET p == req[s].who IN
       IF MaySignup(p, req[s].code)
       THEN /\ codes' = [codes EXCEPT ![req[s].code] = p]
            /\ cash' = [cash EXCEPT ![p] = InitialCash]
            /\ journal' = Journal("deposit", p, InitialCash, 0, None)
            /\ session' = session \cup {p}
       ELSE UNCHANGED <<codes, cash, journal, session>>
    /\ UNCHANGED <<qty, cost, orders, halted, quote, tries, worldVars, tokenVars>>

\* login with the right password, its check in a thread included
Login(p) ==
    /\ p \in Joined \ session /\ session' = session \cup {p}
    /\ UNCHANGED <<ledgerVars, req, quote, tries, worldVars, tokenVars>>

\* logout, or the session is found to be too old
SessionEnds(p) ==
    /\ p \in session /\ session' = session \ {p}
    /\ UNCHANGED <<ledgerVars, req, quote, tries, worldVars, tokenVars>>

\* trading_state: outside the contest's days and hours an order is turned away
\* as well, which is a Submit that does not happen
TradingState == ~halted

\* what awaits a quote: an order, or somebody who looks
Order(p, ask) == [kind |-> "order", who |-> p, cid |-> ask.cid, side |-> ask.side,
                  qty |-> ask.qty, step |-> "wait", price |-> 0]
Asking == [kind |-> "look", step |-> "wait", price |-> 0]

\* price() without a cached quote: join the request in flight, or start one
Await(s, r) == /\ Becomes(s, r)
               /\ tries' = IF tries = 0 THEN 1 ELSE tries

\* guarded: a request without a session is turned away
Guarded(p) == p \in session

\* submit: the checks, then the price; an order that finds one is placed at once
Submit(s, p, ask) ==
    /\ Free(s) /\ Guarded(p) /\ TradingState
    /\ IF quote # None
       THEN Place(p, ask, quote) /\ UNCHANGED <<req, tries>>
       ELSE Await(s, Order(p, ask)) /\ UNCHANGED Tables
    /\ UNCHANGED <<codes, halted, session, quote, worldVars, tokenVars>>

\* GET /api/quote, and valuate_once for a stock somebody holds.  One
\* that joins a request in flight only caches the same quote again
Look(s) ==
    /\ Free(s) /\ quote = None /\ tries = 0
    /\ session # {} \/ \E p \in People : qty[p] > 0
    /\ Await(s, Asking)
    /\ UNCHANGED <<ledgerVars, session, quote, worldVars, tokenVars>>

Waiting == {s \in Slots : ~Free(s) /\ req[s].kind # "signup" /\ req[s].step = "wait"}

\* KISTrading._call_once begins with the token
CallOnce ==
    /\ tries > 0 /\ Token(Quote)
    /\ UNCHANGED <<ledgerVars, procVars, worldVars>>

QuoteToken ==
    /\ Acquire(Quote) \/ IssueLocked(Quote) \/ Issued(Quote)
    /\ UNCHANGED <<ledgerVars, procVars, worldVars>>

\* the request in flight ends and wakes who waits for it
Answer ==
    /\ tries > 0 /\ Done(Quote) /\ tries' = 0
    /\ req' = [s \in Slots |-> IF s \in Waiting
                 THEN [req[s] EXCEPT !.step = "got", !.price = px] ELSE req[s]]
    /\ UNCHANGED <<ledgerVars, session, quote, worldVars>>


FlightFails ==
    /\ tries' = 0 /\ req' = [s \in Slots |-> IF s \in Waiting THEN None ELSE req[s]]
    /\ UNCHANGED <<ledgerVars, session, quote, px, edited, checked>>

\* Rejected or Uncertain: nobody's order is placed.  _call asks again once when
\* KIS says it was asked too often
CallFails ==
    /\ tries > 0 /\ Rare /\ Done(Quote) /\ FlightFails

Throttled ==
    /\ tries = 1 /\ Rare /\ Done(Quote) /\ tries' = 2
    /\ UNCHANGED <<ledgerVars, session, req, quote, px, edited, checked>>
TokenFails ==
    /\ Rare /\ IssueFails(Quote) /\ FlightFails

\* who waited goes on: the quote is cached as of now, the order is placed
Resume(s) ==
    /\ ~Free(s) /\ req[s].kind # "signup" /\ req[s].step = "got" /\ Becomes(s, None)
    /\ quote' = req[s].price
    /\ IF req[s].kind = "order" THEN Place(req[s].who, req[s], req[s].price)
       ELSE UNCHANGED Tables
    /\ UNCHANGED <<codes, halted, session, tries, worldVars, tokenVars>>

\* QUOTE_TTL_S passes
QuoteExpires ==
    /\ quote # None /\ quote' = None
    /\ UNCHANGED <<ledgerVars, session, req, tries, worldVars, tokenVars>>

\* integrity_once, each INTEGRITY_INTERVAL_S
IntegrityOnce ==
    /\ halted' = (halted \/ ~Integrity)
    /\ checked' = (edited = "yes")
    /\ UNCHANGED <<codes, Tables, procVars, px, edited, rare, tokenVars>>

\* admin_resume: refused while the books do not balance
AdminResume ==
    /\ halted /\ Integrity /\ halted' = FALSE
    /\ UNCHANGED <<codes, Tables, procVars, worldVars, tokenVars>>

-----------------------------------------------------------------------------
\* the world
PriceMoves ==
    /\ Rare /\ px' \in Prices \ {px}
    /\ UNCHANGED <<ledgerVars, procVars, edited, checked, tokenVars>>

\* A row of the file is changed past the program: the cash of an account, the money of
\* a filled order, a row of the journal changed or taken out. Not modelled are edits
\* that integrity() does not find (positions.cost, orders.side, an account taken out).
\* Bound: with no other fault.
Forged(row, again) ==
    [row EXCEPT !.cash = @ + 1, !.ver = 1, !.hash = IF again THEN <<row.at, 1>> ELSE @]
EditFile ==
    /\ edited = "no" /\ edited' = "yes" /\ rare = 0 /\ rare' = MaxRare
    /\ \/ /\ \E p \in Joined : cash' = [cash EXCEPT ![p] = @ + 1]
          /\ UNCHANGED <<orders, journal>>
       \/ /\ \E o \in Filled : orders' = [orders EXCEPT ![o].cash = @ + 1]
          /\ UNCHANGED <<cash, journal>>
       \/ /\ \E k \in DOMAIN journal, again \in BOOLEAN :
                journal' = [journal EXCEPT ![k] = Forged(@, again)]
          /\ UNCHANGED <<cash, orders>>
       \/ /\ \E k \in DOMAIN journal :
                journal' = SubSeq(journal, 1, k - 1) \o SubSeq(journal, k + 1, Len(journal))
          /\ UNCHANGED <<cash, orders>>
    /\ UNCHANGED <<codes, qty, cost, halted, procVars, px, checked, tokenVars>>

\* the operator finds the cause and puts an account back
RepairFile ==
    /\ edited = "yes" /\ edited' = "repaired" /\ checked' = FALSE
    /\ \E p \in Joined : /\ ~CashMatches(p)
                         /\ cash' = [cash EXCEPT ![p] = JournalCash(p)]
    /\ UNCHANGED <<codes, qty, cost, orders, journal, halted, procVars, px, rare, tokenVars>>
    /\ Integrity'

\* the process ends and is started again: the ledger stays
Crash ==
    /\ Rare /\ ProcessDies(ProcOf(Quote))
    /\ session' = {} /\ req' = [s \in Slots |-> None] /\ quote' = None /\ tries' = 0
    /\ UNCHANGED <<ledgerVars, px, edited, checked>>

\* the callers of feedd; one that finds a token in memory changes nothing
Peers ==
    \/ /\ \E c \in Callers \ {Quote} :
            (Mem(c) < 1 /\ Token(c)) \/ Acquire(c) \/ IssueLocked(c) \/ Issued(c) \/ Done(c)
       /\ UNCHANGED rare
    \/ Rare /\ \E c \in Callers \ {Quote} : IssueFails(c)
    \/ Rare /\ \E p \in Procs \ {ProcOf(Quote)} : ProcessDies(p)
    \/ Rare /\ TokenAges
PeerSteps == Peers /\ UNCHANGED <<ledgerVars, procVars, px, edited, checked>>

Next ==
    \/ CreateInvites \/ CallOnce \/ QuoteToken \/ Answer \/ CallFails \/ Throttled
    \/ TokenFails \/ QuoteExpires \/ IntegrityOnce \/ AdminResume
    \/ PriceMoves \/ EditFile \/ RepairFile \/ Crash \/ PeerSteps
    \/ \E p \in People : Login(p) \/ SessionEnds(p)
    \/ \E s \in Slots :
          \/ SignupEnds(s) \/ Look(s) \/ Resume(s)
          \/ \E p \in People, c \in Codes : Signup(s, p, c)
          \/ \E p \in People, ask \in Menu : Submit(s, p, ask)

Spec == Init /\ [][Next]_vars

-----------------------------------------------------------------------------
TypeOK ==
    /\ codes \in [Codes -> {Unissued, Unused} \cup People]
    /\ cash \in [People -> Int] /\ qty \in [People -> Int] /\ cost \in [People -> Int]
    /\ session \subseteq People /\ tries \in 0..2 /\ halted \in BOOLEAN
    /\ quote \in Prices \cup {None} /\ px \in Prices
    /\ call \in [Callers -> {"off", "wait", "flock", "issue", "have"}]

(* No request waits for a quote nobody is fetching, and no fetch outlives  *)
(* the requests' knowledge of it: the shared task of price() ends for all  *)
(* who joined it, also when the token or the call fails.                   *)
NobodyStranded == tries = 0 => Waiting = {} /\ call[Quote] = "off"

(* Whatever signups, orders, retries and crashes do, the tables are what   *)
(* the journal adds up to: integrity() accuses nobody when nobody touched  *)
(* the file, so a halt is never a false one.                               *)
BooksBalance == edited # "yes" => Integrity

(* Nobody spends or sells what he does not have (place() with two requests *)
(* of one participant under way), and shares that are gone have no cost    *)
(* left in the average price.                                              *)
NothingFromNothing ==
    edited = "no" => \A p \in People :
        cash[p] >= 0 /\ qty[p] >= 0 /\ cost[p] >= 0 /\ (qty[p] = 0 => cost[p] = 0)

(* A client_order_id moves money at most once, however often it is sent    *)
(* and however long its first request waited for a price.                  *)
OneFillPerClientId ==
    edited = "no" => \A j, k \in Fills : OrderOf(j) = OrderOf(k) => j = k

(* An invite code is one seat and one deposit, also for two signups that   *)
(* had their passwords hashed at the same time.                            *)
OneSeatPerInvite ==
    edited = "no" => Cardinality(DOMAIN journal \ Fills)
                 = Cardinality({c \in Codes : codes[c] \in People})

(* Once integrity() has run over a file edited as EditFile does, orders    *)
(* are halted and stay halted until it is repaired: the operator cannot    *)
(* resume.                                                                 *)
BadBooksHalt == checked => halted

(* The contest's books through concurrent requests, retries and tampering: *)
(* money and seats are given once, and what does not add up is halted.     *)
BooksAreSound ==
    /\ TypeOK /\ BooksBalance /\ NothingFromNothing
    /\ OneFillPerClientId /\ OneSeatPerInvite /\ BadBooksHalt

(* Quotes and the token behind them: asked for once, by one for all.       *)
QuotesAreShared == OneIssuePerLife /\ NobodyStranded
=============================================================================
