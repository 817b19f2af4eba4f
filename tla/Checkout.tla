------------------------------ MODULE Checkout ------------------------------
(***************************************************************************)
(* Buying from the store: CheckoutAuthority of src/src/v5/CommerceDomain.cpp *)
(* for the account that ZeroIdAuthorityClient of ZeroIdAuthority.cpp has   *)
(* signed in.                                                              *)
(*                                                                         *)
(* The service behind the transports answers as it likes: the client has   *)
(* to check what it gets.  Amounts are integers of Width bits that wrap    *)
(* around, and a page holds the quote while time goes on and the account   *)
(* may change.  Left out: names, tokens, the wishlist, and what an offer   *)
(* must have besides a price.                                              *)
(***************************************************************************)
EXTENDS Integers, Sequences, SequencesExt

CONSTANTS
    Accounts, NoAccount,
    Width,          \* of an amount, in bits
    Prices,         \* unit amounts that occur
    MaxQuantity, MaxLines,
    MaxTime, MaxCharges

Limit == 2 ^ Width

\* What is required of the constants: a price is an amount.
ShopConstantsOK ==
    /\ Limit \in Nat \ {0} /\ Prices \subseteq 0 .. (Limit - 1)
    /\ MaxQuantity \in Nat /\ MaxLines \in Nat /\ MaxTime \in Nat
Wrap(n) == n % Limit

Lines == [price : Prices, quantity : 0 .. MaxQuantity]
NoQuote == [account |-> NoAccount]

VARIABLES
    now,
    session,        \* the session of Zero ID: its account and when it expires
    checkout,       \* state_ of the authority
    quote,          \* the quote that the page holds
    charges         \* history: what the service charged

vars == <<now, session, checkout, quote, charges>>

-----------------------------------------------------------------------------
(* Zero ID.                                                                *)

NoSession == [account |-> NoAccount, expires |-> 0]
Answers == [account : Accounts, expires : 0 .. MaxTime]

\* A session that the service did not issue, or that lacks a field, counts as expired here.
ValidAuthoritativeSession(s) == s.expires > now

SignIn ==
    /\ session = NoSession
    /\ \E s \in Answers : session' = IF ValidAuthoritativeSession(s) THEN s ELSE session
    /\ UNCHANGED <<now, checkout, quote, charges>>

SameAccount(s) == s.account = session.account

RefreshSession ==
    /\ session # NoSession
    /\ \E s \in Answers :
          session' = IF ValidAuthoritativeSession(s) /\ SameAccount(s) THEN s ELSE session
    /\ UNCHANGED <<now, checkout, quote, charges>>

SignOut ==
    /\ session # NoSession
    /\ session' = NoSession
    /\ UNCHANGED <<now, checkout, quote, charges>>

-----------------------------------------------------------------------------
(* Quotes.                                                                 *)

LineTotal(line) == Wrap(line.price * line.quantity)

\* A line whose product has wrapped around does not give its price back.
ValidLine(line) == line.quantity # 0 /\ LineTotal(line) \div line.quantity = line.price

\* subtotal += lineTotal, up to the i-th line.
Subtotals(lines) ==
    LET upTo[i \in 0 .. Len(lines)] == IF i = 0 THEN 0 ELSE Wrap(upTo[i - 1] + LineTotal(lines[i]))
    IN  upTo

\* A mutant checks the sums but not that they have wrapped around.
TotalsMatch(q) ==
    /\ Subtotals(q.lines)[Len(q.lines)] = q.subtotal
    /\ q.total = Wrap(q.subtotal + q.tax)
TotalsReconcile(q) ==
    /\ \A i \in DOMAIN q.lines : Subtotals(q.lines)[i] >= LineTotal(q.lines[i])
    /\ Subtotals(q.lines)[Len(q.lines)] = q.subtotal
    /\ q.total = Wrap(q.subtotal + q.tax)
    /\ q.total >= q.subtotal

ValidAmounts(q) ==
    /\ q.lines # <<>>
    /\ \A i \in DOMAIN q.lines : ValidLine(q.lines[i])
    /\ TotalsReconcile(q)

ValidateQuote(q, account) == q.account = account /\ q.expires > now /\ ValidAmounts(q.amounts)

\* The amounts that the service may answer with; a wrong one stands for all of them.
OffByOne(n) == {n, Wrap(n + 1)}
Amounts ==
    LET sums(lines) == OffByOne(Subtotals(lines)[Len(lines)])
        quoted(lines, tax) ==
            {[lines |-> lines, tax |-> tax, subtotal |-> s, total |-> t] :
                s \in sums(lines), t \in UNION {OffByOne(Wrap(sum + tax)) : sum \in sums(lines)}}
    IN  UNION {quoted(lines, tax) : lines \in SeqOf(Lines, MaxLines), tax \in Prices \union {0}}
Accepted == {q \in Amounts : ValidAmounts(q)}

\* CreateQuote for the lines of the cart; the lines of the answer need not be those.
CreateQuote ==
    /\ session # NoSession
    /\ \/ \E account \in Accounts, expires \in 0 .. MaxTime, amounts \in Accepted :
             LET q == [account |-> account, expires |-> expires, amounts |-> amounts]
             IN  ValidateQuote(q, session.account) /\ quote' = q /\ checkout' = "Ready"
       \/ checkout' = "Failed" /\ quote' = NoQuote
    /\ UNCHANGED <<now, session, charges>>

-----------------------------------------------------------------------------
(* Orders.                                                                 *)

\* The service completes the order and grants the entitlements, or grants another account
\* some; or it does not complete the order, or only its answer is lost.
Complete ==
    /\ quote # NoQuote /\ Len(charges) < MaxCharges
    /\ LET charge == [account |-> quote.account, quote |-> quote, at |-> now, holder |-> session.account]
       IN  IF ValidateQuote(quote, quote.account)
           THEN \/ charges' = Append(charges, charge) /\ checkout' \in {"Completed", "Failed"}
                \/ checkout' = "Failed" /\ UNCHANGED charges
           ELSE checkout' = "Failed" /\ UNCHANGED charges
    /\ UNCHANGED <<now, session, quote>>

Tick == now < MaxTime /\ now' = now + 1 /\ UNCHANGED <<session, checkout, quote, charges>>

Init ==
    /\ now = 0 /\ session = NoSession
    /\ checkout = "Empty" /\ quote = NoQuote /\ charges = <<>>
Next == SignIn \/ RefreshSession \/ SignOut \/ CreateQuote \/ Complete \/ Tick
Spec == Init /\ [][Next]_vars

-----------------------------------------------------------------------------
(* Properties.                                                             *)

\* What a quote comes to, with integers that do not wrap around.
ExactSums(lines) ==
    LET upTo[i \in 0 .. Len(lines)] ==
            IF i = 0 THEN 0 ELSE upTo[i - 1] + lines[i].price * lines[i].quantity
    IN  upTo
Exact(q) == ExactSums(q.lines)[Len(q.lines)] + q.tax

\* What is charged is the exact sum of the lines, however close to the limit the amounts are
\* (CommerceDomain.cpp:82), of a quote that the service made for that account and that had not
\* expired when it was submitted, long as the page may have held it.
ChargesAreExact ==
    \A i \in DOMAIN charges :
        /\ charges[i].quote.amounts.total = Exact(charges[i].quote.amounts)
        /\ charges[i].quote.account = charges[i].account
        /\ charges[i].at < charges[i].quote.expires

\* While somebody stays signed in it is the same account, whatever a refresh brings
\* (ZeroIdAuthority.cpp:58).
AccountSticks ==
    [][{session, session'} \intersect {NoSession} = {} => session'.account = session.account]_vars

\* An order is charged to the account that is signed in (CommerceDomain.cpp:130).
ChargesTheHolder == \A i \in DOMAIN charges : charges[i].holder = charges[i].account

\* A quote is charged once (CommerceDomain.cpp:135).
ChargedOnce == \A i, j \in DOMAIN charges : charges[i].quote = charges[j].quote => i = j

\* A checkout that failed was not charged (CommerceDomain.cpp:144).
FailedIsFree == [][charges' # charges => checkout' = "Completed"]_vars
=============================================================================
