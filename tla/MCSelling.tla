------------------------------ MODULE MCSelling ------------------------------
(* From a quotation to a signed contract, and the rates it is priced by:    *)
(* requests that race on two connections, with crashes, and a quotation     *)
(* edited by one request at a time ("edits").  Quotation, Sales,            *)
(* Instalments and Rates share no row, so a behaviour runs one of them:     *)
(* "part" says which, and the variables of the others are idle.             *)
EXTENDS Rates

CONSTANTS
  Parts,                 \* the parts a behaviour may run
  Lines, Legacy,         \* lines of the quotation
  QuotationStarts, QuotationKinds, QuotationRequests,
  Alone, EditRequests,   \* the connection of one request at a time
  Projects, Deals, SalesRequests,
  Invoices, Ours, InstalmentRequests,
  Same, Nothing

VARIABLES
  part,
  hdr, lines, terms, proformas, openVat, deal,  \* of Quotation
  db,                                          \* of Sales
  contract, rows                               \* of Instalments

ofQuotation   == <<hdr, lines, terms, proformas, openVat, deal>>
ofInstalments == <<contract, rows>>
ofRates       == <<versions, lock>>

allVars == <<part, tx, asked, crashes, ofQuotation, db, ofInstalments, ofRates>>

Identities == Permutations(Txns)

-----------------------------------------------------------------------------
(* Quotation.                                                              *)

Vat == <<1500, 1000>>

Blank == INSTANCE Quotation
           WITH ListPrices <- {300}, Grands <- {230}, VatPercent <- Vat, Threshold <- 500,
                TermSets <- {<<>>, <<10000>>, <<6000, 4000>>},
                Offered <- {}, Starts <- {}, MaxRequests <- 0

NoLines == [l \in Lines |-> Blank!Gone]

Second == CHOOSE l \in Lines : l # Legacy

\* As created: a header and no lines.
Fresh == [hdr |-> Blank!Created(100), lines |-> NoLines, terms |-> {}, deal |-> Blank!Null]

\* The header after requests that gave it lines of these list prices.
Listed(prices) ==
  LET t   == Blank!QuoteTotals(prices, [n \in DOMAIN prices |-> Blank!Null], Vat[1])
      ids == <<Legacy, Second>>
  IN  [Fresh EXCEPT
         !.hdr   = [@ EXCEPT !.sub = t.sub, !.tax = t.tax, !.total = t.total],
         !.lines = [l \in Lines |->
                      IF \E n \in DOMAIN prices : ids[n] = l
                      THEN LET n == CHOOSE n \in DOMAIN prices : ids[n] = l IN
                           [seq |-> n, list |-> prices[n], price |-> prices[n]]
                      ELSE Blank!Gone]]

TwoLines == Listed(<<100, 200>>)

\* The same, both lines sold for 230.
Sold ==
  LET q == Blank!DeriveFromGrandTotal(230, Vat[1])
      p == Blank!AllocateToLines(<<100, 200>>, q.sub)
  IN  [hdr   |-> [TwoLines.hdr EXCEPT !.sub = q.sub, !.tax = q.tax, !.total = q.total,
                                      !.calc = TwoLines.hdr.total],
       lines |-> [TwoLines.lines EXCEPT ![Legacy].price = p[1], ![Second].price = p[2]],
       terms |-> {[seq |-> 1, percent |-> Blank!Whole, by |-> 0, txn |-> Nothing]},
       deal  |-> 230]

Signed(s) == [s EXCEPT !.hdr.signed = s.hdr.total]

At(status, s) == [s EXCEPT !.hdr.status = status]

Racing ==
  {Listed(<<100>>), Sold, At("PENDING_APPROVAL", TwoLines), At("PENDING_APPROVAL", Signed(Sold))}

JustTwoLines == {TwoLines}

LineEdits == {"add", "update", "remove", "reorder", "price"}

AllKinds == LineEdits \cup {"setVat", "signoff", "terms", "issue", "status"}

Q == INSTANCE Quotation
       WITH ListPrices <- {300}, Grands <- {230}, VatPercent <- Vat, Threshold <- 500,
            TermSets <- {<<>>, <<10000>>, <<6000, 4000>>}, Offered <- QuotationKinds,
            Starts <- QuotationStarts, MaxRequests <- QuotationRequests

A == INSTANCE Quotation
       WITH Txns <- {Alone}, ListPrices <- {100, 300}, Grands <- {230, 500}, VatPercent <- Vat,
            Threshold <- 500, TermSets <- {<<>>, <<10000>>, <<6000, 4000>>}, Offered <- AllKinds,
            Starts <- {Fresh, Sold}, MaxRequests <- EditRequests

ASSUME QuotationParameters ==
  Q!LegacyIsALine /\ Q!VatVersions /\ Q!LinesAreFinite /\ Q!StartsAreQuotes /\ A!StartsAreQuotes

-----------------------------------------------------------------------------
(* Sales.                                                                  *)

OneProject == [d \in Deals |-> CHOOSE p \in Projects : TRUE]

Void == INSTANCE Sales WITH ProjectOf <- OneProject, Starts <- {}, Offered <- {}, MaxRequests <- 0

Empty ==
  [r \in Void!Rows |-> CASE r = <<"customer">> -> "LIVE"
                         [] r[1] = "sequence"  -> "YES"
                         [] OTHER              -> "NONE"]

\* Every quotation submitted, every proforma issued, contracts drafted, signed.
Quoted ==
  [r \in Void!Rows |-> CASE r[1] = "project"   -> "QUOTATION"
                         [] r[1] = "quotation" -> "PENDING_APPROVAL"
                         [] OTHER              -> Empty[r]]

Offer ==
  [r \in Void!Rows |-> CASE r[1] = "quotation" -> "CONVERTED_TO_PROFORMA"
                         [] r[1] = "proforma"  -> "ISSUED"
                         [] OTHER              -> Quoted[r]]

Drafted == [r \in Void!Rows |-> IF r[1] = "contract" THEN "DRAFT" ELSE Offer[r]]

SignedAll ==
  [r \in Void!Rows |-> CASE r[1] = "contract" -> "SIGNED"
                         [] r[1] = "project"  -> "CONTRACT"
                         [] OTHER             -> Offer[r]]

S == INSTANCE Sales
       WITH ProjectOf <- OneProject, Starts <- {Empty, Quoted, Offer, Drafted, SignedAll},
            Offered <- {r.op : r \in Void!Requests}, MaxRequests <- SalesRequests

ASSUME SalesParameters == S!EveryDealHasAProject /\ S!SameIsNoStatus /\ S!StartsAreSound

-----------------------------------------------------------------------------
(* Instalments: schedules that make the value, one that does not, and none. *)

I == INSTANCE Instalments
       WITH Value <- 100, Terms <- {<<>>, <<3333, 3333, 3334>>},
            Schedules <- {<<>>, <<40, 60>>, <<100>>, <<50>>}, MaxRequests <- InstalmentRequests

ASSUME InstalmentParameters == I!OursAreInvoices

RateStarts == {{}, {Version(1, Open, 0)}, {Version(1, 2, -1), Version(3, Open, 0)}}

-----------------------------------------------------------------------------
(* One part a behaviour.                                                   *)

NoQuotation ==
  /\ hdr = Nothing /\ lines = Nothing /\ terms = {}
  /\ proformas = {} /\ openVat = 1 /\ deal = Nothing

NoInstalments == contract = Nothing /\ rows = {}

NoRates == versions = {} /\ lock = NoOne

MCInit ==
  /\ part \in Parts
  /\ \/ part = "quotation"   /\ Q!Init /\ db = Nothing /\ NoInstalments /\ NoRates
     \/ part = "edits"       /\ A!Init /\ db = Nothing /\ NoInstalments /\ NoRates
     \/ part = "sales"       /\ S!Init /\ NoQuotation /\ NoInstalments /\ NoRates
     \/ part = "instalments" /\ I!Init /\ NoQuotation /\ db = Nothing /\ NoRates
     \/ part = "rates"       /\ Init /\ NoQuotation /\ db = Nothing /\ NoInstalments

MCNext ==
  /\ UNCHANGED part
  /\ \/ part = "quotation"   /\ Q!Next /\ UNCHANGED <<db, ofInstalments, ofRates>>
     \/ part = "edits"       /\ A!Next /\ UNCHANGED <<db, ofInstalments, ofRates>>
     \/ part = "sales"       /\ S!Next /\ UNCHANGED <<ofQuotation, ofInstalments, ofRates>>
     \/ part = "instalments" /\ I!Next /\ UNCHANGED <<ofQuotation, db, ofRates>>
     \/ part = "rates"       /\ Next   /\ UNCHANGED <<ofQuotation, db, ofInstalments>>

MCSpec == MCInit /\ [][MCNext]_allVars
-----------------------------------------------------------------------------
(* Properties of the parts that the runs list.                             *)

\* A proforma's discount is signed off and a quotation becomes one proforma,
\* whatever was repriced or resigned while it was issued; a change of the rate it
\* is priced at never meets the unique index.
ProformasAreSound ==
  /\ part = "quotation" => Q!IssuedDiscountsAreSigned /\ Q!ConvertedOnce
  /\ part = "rates" => ConflictIsUnreachable

\* One request at a time keeps the header the sum of its lines, the print order
\* without a gap, a sign-off good for the total it signed and an agreed total
\* the header's, whatever sequence of edits, rates and prices gets there; a crash
\* may cost the agreed total, between the transactions of setVat, and nothing else.
EditsKeepTheQuotation ==
  part = "edits" =>
    A!HeaderIsTheSumOfItsLines /\ A!LinesAreInOrder /\ A!SignOffCoversThePrice /\ A!DealHoldsOrIsGone

\* "the header's subtotal_etb is the sum of the lines' line_total_etb", when
\* two requests edit one quotation at once.
HeaderIsTheSumOfItsLines == part = "quotation" => Q!HeaderIsTheSumOfItsLines

\* A signed contract's project is won, a quoted one is no lead, and requests on
\* papers, projects and counters never wait in a circle.
SignedIsWon == part = "sales" => S!TypeOK /\ S!SignedIsWon /\ S!NoDeadlock

\* Payment terms make a whole, of a quotation and of its proforma, whoever
\* replaces them with whom.  The instalments of a contract make its value in every
\* committed state, and only a signed contract's are invoiced, to its customer.
ScheduleMakesTheValue ==
  /\ part = "quotation" => Q!TypeOK /\ Q!TermsMakeAWhole
  /\ part = "instalments" => I!TypeOK /\ I!ScheduleMakesTheValue /\ I!InvoicedOnlyOnceSigned

\* A proforma freezes one version of its quotation, and whoever moves the total takes
\* the sign-off off; edits one at a time stop at approval and leave a line.  Projects
\* and contracts never move backwards, a project is won and completed by its papers
\* or by hand, an instalment's invoice is not replaced, and a rotation leaves the days
\* before it alone.
PapersOnlyMoveForward ==
  /\ Q!ProformaIsOneVersion
  /\ [][part = "quotation" => Q!StatusMoves /\ Q!SignOffFallsWithThePrice]_allVars
  /\ [][part = "edits" => A!KeepsALine /\ A!KeepsApproved]_allVars
  /\ [][part = "sales" => S!StagesAdvance /\ S!StagesFollow /\ S!ContractsAdvance]_allVars
  /\ I!LinkIsFinal
  /\ HistoryStands
=============================================================================
