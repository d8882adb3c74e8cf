---------------------------- MODULE ReceiptForm ----------------------------
(***************************************************************************)
(* The "Record payment" page: a customer is chosen, the open invoices of   *)
(* that customer are fetched, the receipt is split over them and posted.   *)
(* Answers arrive late, for a customer no longer chosen, or not at all.    *)
(* A recorded receipt starts a navigation; until it is done the form stays *)
(* filled and its button live.                                             *)
(* The API takes each request as one step (module Ledger has its           *)
(* statements) and, as the page sends no Idempotency-Key, runs every one.  *)
(***************************************************************************)
EXTENDS Functions, Integers, FiniteSets

CONSTANTS
  Customers, Invoices,
  OwnerOf,     \* the customer of each invoice
  Total,       \* the amount of every invoice
  MaxEntries,  \* bound: receipts the clerk has to enter
  MaxPosts,    \* bound: requests the page sends
  MaxLost,     \* bound: answers that do not arrive
  None

OwnerOfTyped == OwnerOf \in [Invoices -> Customers]
TotalPositive == Total \in Nat \ {0}

VARIABLES
  customer,   \* customerId
  drafts,     \* allocations: what the page offers to pay of which invoice
  listing,    \* the customers whose list is still awaited
  entry,      \* which receipt of the clerk's is being entered
  awaited,    \* submitting: the request the page waits for, 0 when the button is live
  leaving,    \* a navigation has been started and is not done
  posts,      \* requests on their way to the API
  answers,    \* answers on their way back
  payments,   \* receipts recorded
  sent, lost  \* how many requests were sent, and which of them fetch gave up

form == <<customer, drafts, listing, entry, awaited, leaving>>
vars == <<form, posts, answers, payments, sent, lost>>

InvoicesOf(c) == {i \in Invoices : OwnerOf[i] = c}
Paid(i) == FoldFunction(+, 0, [p \in payments |-> IF i \in DOMAIN p.split THEN p.split[i] ELSE 0])
Room(i) == Total - Paid(i)
Nothing == [i \in {} |-> 0]

Init ==
  /\ customer = None /\ drafts = Nothing /\ listing = {}
  /\ entry = 1 /\ awaited = 0 /\ leaving = FALSE
  /\ posts = {} /\ answers = {} /\ payments = {}
  /\ sent = 0 /\ lost = {}
-----------------------------------------------------------------------------
(* The page.                                                               *)

\* Mutant: the submit button stays live while a receipt is on its way.
MaySubmitAgain == entry <= MaxEntries

\* The cleanup of the effect sets `cancelled`: its answer will be dropped.
StillAwaited == {}

\* The drafts of the last customer stay until the answer is in.
ChooseCustomer(c) ==
  /\ customer # c
  /\ customer' = c
  /\ listing' = StillAwaited \cup {c}
  /\ UNCHANGED <<drafts, entry, awaited, leaving, posts, answers, payments, sent, lost>>

\* listInvoices answers with the invoices that have room; optional() makes a
\* failed request an empty list.
InvoicesArrive(c) ==
  /\ c \in listing
  /\ listing' = listing \ {c}
  /\ drafts' \in {[i \in {j \in InvoicesOf(c) : Room(j) > 0} |-> 0], Nothing}
  /\ UNCHANGED <<customer, entry, awaited, leaving, posts, answers, payments, sent, lost>>

TypeAllocation(i) ==
  /\ i \in DOMAIN drafts
  /\ \E n \in (0..Total) \ {drafts[i]} : drafts' = [drafts EXCEPT ![i] = n]
  /\ UNCHANGED <<customer, listing, entry, awaited, leaving, posts, answers, payments, sent, lost>>

MaySubmit == entry <= MaxEntries /\ awaited = 0

\* Requests whose end nobody has heard of.
UnderWay == ({p.id : p \in posts} \cup {a.id : a \in answers}) \ lost

\* onSubmit up to the await; what is not positive is not sent.
Submit ==
  LET split == Restrict(drafts, {i \in DOMAIN drafts : drafts[i] > 0}) IN
  /\ MaySubmit /\ customer # None /\ sent < MaxPosts
  /\ awaited' = sent + 1
  /\ posts' = posts \cup {[id |-> sent + 1, entry |-> entry, customer |-> customer,
                           split |-> split, beside |-> UnderWay]}
  /\ sent' = sent + 1
  /\ UNCHANGED <<customer, drafts, listing, entry, leaving, answers, payments, lost>>

\* onSubmit after the await.  Recorded: router.push starts to leave, whichever
\* form of the clerk's is on the screen by then.  Either way `finally` makes the
\* button of the form that asked live again, with all that was typed in it.
AnswerArrives(a) ==
  /\ a \in answers
  /\ answers' = answers \ {a}
  /\ awaited' = IF a.id = awaited THEN 0 ELSE awaited
  /\ leaving' = (leaving \/ a.ok)
  /\ UNCHANGED <<customer, drafts, listing, entry, posts, payments, sent, lost>>

\* A clerk whose form leaves takes the receipt for recorded if it was sent and
\* not refused, or is on the list of payments.
TakenForRecorded == awaited # 0 \/ \E p \in payments : p.entry = entry

\* The navigation is done, or the clerk discards the form or follows a link: it
\* opens empty the next time.
Leave ==
  /\ leaving \/ customer # None
  /\ entry' = IF TakenForRecorded THEN entry + 1 ELSE entry
  /\ customer' = None /\ drafts' = Nothing /\ listing' = {}
  /\ awaited' = 0 /\ leaving' = FALSE
  /\ UNCHANGED <<posts, answers, payments, sent, lost>>
-----------------------------------------------------------------------------
(* The API and the network.                                                *)

\* guardAndInsertAllocation, for each allocation of the receipt.
Accepts(p) == \A i \in DOMAIN p.split : OwnerOf[i] = p.customer /\ p.split[i] <= Room(i)

\* No header: next.handle(), whether or not this receipt has been posted before.
\* The answer to a request that fetch has given up goes nowhere.
Record(p) ==
  /\ p \in posts
  /\ posts' = posts \ {p}
  /\ payments' = IF Accepts(p) THEN payments \cup {p} ELSE payments
  /\ answers' = IF p.id \in lost THEN answers ELSE answers \cup {[id |-> p.id, ok |-> Accepts(p)]}
  /\ UNCHANGED <<form, sent, lost>>

\* fetch fails before the answer is in, the request having arrived or not.
Unheard(id) ==
  /\ id \in UnderWay /\ Cardinality(lost) < MaxLost
  /\ lost' = lost \cup {id}
  /\ awaited' = IF id = awaited THEN 0 ELSE awaited
  /\ answers' = {a \in answers : a.id # id}
  /\ posts' \in {posts, {p \in posts : p.id # id}}
  /\ UNCHANGED <<customer, drafts, listing, entry, leaving, payments, sent>>

Next ==
  \/ \E c \in Customers : ChooseCustomer(c) \/ InvoicesArrive(c)
  \/ \E i \in Invoices : TypeAllocation(i)
  \/ Submit \/ Leave
  \/ \E a \in answers : AnswerArrives(a)
  \/ \E p \in posts : Record(p)
  \/ \E id \in UnderWay : Unheard(id)

Spec == Init /\ [][Next]_vars
-----------------------------------------------------------------------------
(* Properties.                                                             *)

\* The drafts shown may be the last customer's, never what is recorded: a
\* receipt pays its own customer's invoices, and none of them beyond its total.
PaysItsOwn ==
  /\ \A p \in payments : DOMAIN p.split \subseteq InvoicesOf(p.customer)
  /\ \A i \in Invoices : Room(i) >= 0

\* Whatever the order of the answers, once the list is in it is the list of
\* the customer shown.
ListFollowsCustomer ==
  listing = {} /\ customer # None => DOMAIN drafts \subseteq InvoicesOf(customer)

\* A click while a receipt is on its way records nothing: one receipt of the
\* clerk's is recorded twice only if the second was sent when the first had been
\* answered, the page still leaving, or given up (onSubmit, FormPage).
TwiceOnlyOnceHeard ==
  \A p, q \in payments : p.entry = q.entry /\ p.id < q.id => p.id \notin q.beside

\* "A jittery connection or an impatient second click can no longer create a
\* duplicate receipt."
OneReceiptEach == \A p, q \in payments : p.entry = q.entry => p = q
=============================================================================
