------------------------------ MODULE MCField ------------------------------
(* The people who work for the company and what they do on site: their     *)
(* accounts and sessions, site surveys, the lifts and their maintenance,   *)
(* the reminders.  These share no row, so a behaviour runs one of them:    *)
(* "part" says which, and the others stay as they are.  "lift" and "visit" *)
(* are the lifts and the maintenance with one request at a time.           *)
EXTENDS Staff, Sequences, SequencesExt

CONSTANTS
  Parts,            \* the parts a behaviour may run
  PhoneCall,        \* the request of the phone; those of the browser are Txns
  Browser, Phone,
  SurveyNames, SurveyRequests,
  Lift,
  People,           \* customers of a lift, technicians, engineers
  AssetRequests, AssetRequestsAlone,
  Customer, Writer, Invoice, Warranty

VARIABLES
  part,
  user, kept, call, issued, ended, newest, admin, losses,       \* of Sessions
  surveys, projects, customers, rowLock, form, forms, lost,     \* of SiteSurveys
  assets, events, records, clock, asked,                        \* of Assets
  today, contract, visits, breakdown, writes,                   \* of Maintenance
  request,                                                      \* of Assets or Maintenance
  day, up, ran, contracts, invoices, warranties, fault, staff,  \* of Reminders
  outbox, inbox, job, edits, faults

ofSessions    == <<user, kept, call, issued, ended, newest, admin, losses>>
ofSurveys     == <<surveys, projects, customers, rowLock, form, forms, lost>>
ofAssets      == <<assets, events, records, clock, asked>>
ofMaintenance == <<today, contract, visits, breakdown, writes>>
ofReminders   == <<day, up, ran, contracts, invoices, warranties, fault, staff,
                   outbox, inbox, job, edits, faults>>

allVars == <<part, vars, ofSessions, ofSurveys, ofAssets, ofMaintenance, request, ofReminders>>

Interchangeable == {p @@ q : p \in Permutations(Txns), q \in Permutations(People)}

-----------------------------------------------------------------------------
(* The parts.                                                              *)

\* A browser with one tab that has two requests under way, and a phone.
TabAndPhone == [c \in Txns \cup {PhoneCall} |-> IF c = PhoneCall THEN Phone ELSE Browser]

S == INSTANCE Sessions
       WITH Calls <- Txns \cup {PhoneCall}, Apps <- {Browser, Phone}, AppOf <- TabAndPhone,
            Stores <- {Browser, Phone}, StoreOf <- [a \in {Browser, Phone} |-> a],
            MaxTokens <- 3, MaxAdmin <- 1, MaxLosses <- 1

\* The sheet of one site is there to begin with.
V == INSTANCE SiteSurveys
       WITH Names <- SurveyNames, Started <- {CHOOSE n \in SurveyNames : TRUE},
            MaxRequests <- SurveyRequests, tx <- form, requests <- forms, crashes <- lost

A == INSTANCE Assets
       WITH Lifts <- {Lift}, Customers <- People, Requests <- Txns, MaxAsked <- AssetRequests

\* One request at a time.
A1 == INSTANCE Assets
        WITH Lifts <- {Lift}, Customers <- People, Requests <- {PhoneCall},
             MaxAsked <- AssetRequestsAlone

M == INSTANCE Maintenance
       WITH Requests <- Txns, Periods <- {1, 3}, Horizon <- 2, MaxVisits <- 2, MaxWrites <- 2

M1 == INSTANCE Maintenance
        WITH Requests <- {PhoneCall}, Periods <- {1, 3}, Horizon <- 5, MaxVisits <- 2,
             MaxWrites <- 2

\* Two technicians and one service contract, swept twice a day.
D == INSTANCE Reminders
       WITH Rules <- {"maintenance"}, Contracts <- {Lift}, Invoices <- {}, Warranties <- {},
            Techs <- People, Consenting <- People \cup {Customer}, Writers <- {},
            WindowDays <- 2, PayOffsets <- {}, WarrantyOffsets <- {}, Cover <- 0,
            FirstDue <- 4, Period <- 3, Horizon <- 5, MaxEdits <- 2, MaxFaults <- 2,
            breakdown <- fault

\* An invoice and a warranty.
P == INSTANCE Reminders
       WITH Rules <- {"payment", "warranty"}, Contracts <- {}, Invoices <- {Invoice},
            Warranties <- {Warranty}, Techs <- People, Consenting <- {Customer}, Writers <- {},
            WindowDays <- 1, PayOffsets <- {0, 1}, WarrantyOffsets <- {1, 2}, Cover <- 4,
            FirstDue <- 3, Period <- 2, Horizon <- 5, MaxEdits <- 2, MaxFaults <- 1,
            breakdown <- fault

\* A breakdown is written and a sweep tested while the contract is swept.
W == INSTANCE Reminders
       WITH Rules <- {"maintenance"}, Contracts <- {Lift}, Invoices <- {}, Warranties <- {},
            Techs <- People, Consenting <- People \cup {Customer}, Writers <- {Writer},
            WindowDays <- 0, PayOffsets <- {}, WarrantyOffsets <- {}, Cover <- 0,
            FirstDue <- 1, Period <- 2, Horizon <- 1, MaxEdits <- 2, MaxFaults <- 1,
            breakdown <- fault

ASSUME FieldParameters ==
  /\ S!CallsHaveApps /\ V!StartedAreNames /\ V!NoneIsNoNumber /\ M!PeriodsArePositive
  /\ D!WindowIsADayCount /\ D!ConsentIsPersonal

-----------------------------------------------------------------------------
(* One part a behaviour.                                                   *)

NoSessions ==
  /\ user = None /\ kept = None /\ call = None /\ issued = None
  /\ ended = None /\ newest = None /\ admin = None /\ losses = None
NoSurveys ==
  /\ surveys = None /\ projects = None /\ customers = None /\ rowLock = None
  /\ form = None /\ forms = None /\ lost = None
NoLifts ==
  /\ assets = None /\ events = None /\ records = None /\ clock = None
  /\ asked = None
NoMaintenance ==
  /\ today = None /\ contract = None /\ visits = None /\ breakdown = None
  /\ writes = None
NoReminders ==
  /\ day = None /\ up = None /\ ran = None /\ contracts = None
  /\ invoices = None /\ warranties = None /\ fault = None /\ staff = None
  /\ outbox = None /\ inbox = None /\ job = None /\ edits = None
  /\ faults = None

\* The accounts are as they are founded unless they are the part that goes on.
MCInit ==
  /\ part \in Parts /\ Init
  /\ IF part = "sessions" THEN S!Init ELSE NoSessions
  /\ IF part = "surveys" THEN V!Init ELSE NoSurveys
  /\ \/ part = "lifts" /\ A!Init /\ NoMaintenance
     \/ part = "lift" /\ A1!Init /\ NoMaintenance
     \/ part = "visits" /\ M!Init /\ NoLifts
     \/ part = "visit" /\ M1!Init /\ NoLifts
     \/ part \notin {"lifts", "lift", "visits", "visit"} /\ NoLifts /\ NoMaintenance /\ request = None
  /\ \/ part = "daily" /\ D!Init
     \/ part = "money" /\ P!Init
     \/ part = "office" /\ W!Init
     \/ part \notin {"daily", "money", "office"} /\ NoReminders

LiftsGoOn     == UNCHANGED <<vars, ofSessions, ofSurveys, ofMaintenance, ofReminders>>
VisitsGoOn    == UNCHANGED <<vars, ofSessions, ofSurveys, ofAssets, ofReminders>>
RemindersGoOn == UNCHANGED <<vars, ofSessions, ofSurveys, ofAssets, ofMaintenance, request>>
ApartFromRest == UNCHANGED <<ofAssets, ofMaintenance, request, ofReminders>>

MCNext ==
  /\ UNCHANGED part
  /\ \/ part = "staff"    /\ Next    /\ UNCHANGED <<ofSessions, ofSurveys>> /\ ApartFromRest
     \/ part = "sessions" /\ S!Next  /\ UNCHANGED <<vars, ofSurveys>> /\ ApartFromRest
     \/ part = "surveys"  /\ V!Next  /\ UNCHANGED <<vars, ofSessions>> /\ ApartFromRest
     \/ part = "lifts"    /\ A!Next  /\ LiftsGoOn
     \/ part = "lift"     /\ A1!Next /\ LiftsGoOn
     \/ part = "visits"   /\ M!Next  /\ VisitsGoOn
     \/ part = "visit"    /\ M1!Next /\ VisitsGoOn
     \/ part = "daily"    /\ D!Next  /\ RemindersGoOn
     \/ part = "money"    /\ P!Next  /\ RemindersGoOn
     \/ part = "office"   /\ W!Next  /\ RemindersGoOn

MCSpec == MCInit /\ [][MCNext]_allVars
-----------------------------------------------------------------------------
(* Properties of the parts that the run lists.                             *)

\* A refresh is refused only because of something else than the refreshes of
\* the tab itself.
RefusedForAReason == part = "sessions" => S!TypeOK /\ S!RefusedForAReason

\* An import makes everybody or nobody, a conversion a customer, a project and
\* the sheet that points at them or none of it.
SheetsAreWhole ==
  /\ part = "staff" => ImportsAreWhole
  /\ part = "surveys" => V!SheetsAndProjectsAgree

\* The history of a lift replays to where it is and a breakdown that is done has
\* its day, whatever interleaves; one request at a time, a lift goes to site
\* sold, the records follow its customer, and visits are logged on active contracts.
LiftsAndVisitsHold ==
  /\ part = "lifts" => A!HistoryReplays
  /\ part = "lift" => A1!RecordsFollowTheSale /\ A1!ToSiteIsSold
  /\ part = "visits" => M!ResolvedWhenDone
  /\ part = "visit" => M1!VisitsOnlyOnActive

\* One request at a time, a visit rolls the contract past its day and what is
\* done is opened again only on request.
VisitsRoll ==
  [][part = "visit" => M1!Rolls /\ M1!StaysClosed]_allVars

\* Whoever a job found something due for has been told when it is done, and of
\* a service before its day is over; nobody gets one message twice.
PeopleAreTold ==
  /\ part = "daily" => D!DoneMeansTold /\ D!ToldBeforeTheDay
  /\ part = "money" => P!OneSmsPerFact
  /\ part = "office" => W!DoneMeansTold
=============================================================================
