----------------------------- MODULE Reminders -----------------------------
(***************************************************************************)
(* What reminds people: a sweep of the service contracts, one of the       *)
(* unpaid invoices, one of the warranties about to end, each by a daily    *)
(* cron and once more when the process boots; a test of the first; and the *)
(* message to a technician whenever a breakdown is written.                *)
(*                                                                         *)
(* A job reads what is due in one transaction and then works through it:   *)
(* an SMS is a row of the outbox, unique by its key; a notification is     *)
(* looked for and then inserted.  What fails is logged and passed over.    *)
(***************************************************************************)
EXTENDS FiniteSets, Integers, SequencesExt, TLC

CONSTANTS
  Rules,            \* the sweeps there are: "maintenance", "payment", "warranty"
  Contracts, Invoices, Warranties,  \* service contracts, invoices, sales contracts
  Techs, Customer,  \* people
  Consenting,       \* who has agreed to SMS and has a phone
  Writers,          \* requests that write the breakdown or ask for a test
  WindowDays,       \* maintenanceReminderDays
  PayOffsets, WarrantyOffsets,  \* days after the due date, before the expiry
  Cover,            \* days of warranty
  FirstDue,         \* the day the service, the payment and the warranty turn on
  Period,           \* days from one service to the next
  Horizon,          \* bound: the last day
  MaxEdits,         \* bound: writes by the office
  MaxFaults,        \* bound: crashes, days without a process, writes that fail
  None

WindowIsADayCount == WindowDays \in Nat
ConsentIsPersonal == Consenting \subseteq Techs \cup {Customer}

VARIABLES
  day,
  up, ran,    \* is there a process; which sweeps began today
  contracts,  \* service contracts; since: history, the day of the last change
  invoices,   \* is it paid
  warranties, \* the day of the handover, None before
  breakdown,  \* assignee; turn: history, how often it has changed hands
  staff,      \* technicians who are active
  outbox,     \* messages
  inbox,      \* notifications
  job,        \* each sweep and each write that tells somebody
  edits, faults

vars == <<day, up, ran, contracts, invoices, warranties, breakdown, staff, outbox, inbox, job, edits, faults>>
office == <<contracts, invoices, warranties, breakdown, staff, edits>>

Jobs  == ({"cron", "boot"} \X Rules) \cup Writers
Rest  == [pc |-> "rest", rule |-> "none", todo |-> <<>>, n |-> 1, failed |-> {}, asOf |-> 0, run |-> 0]

Init ==
  /\ day = 1 /\ up = FALSE /\ ran = {}
  /\ contracts \in [Contracts -> [active : {TRUE}, next : {FirstDue}, tech : Techs, since : {0}]]
  /\ invoices = [i \in Invoices |-> FALSE]
  /\ warranties = [w \in Warranties |-> None]
  /\ breakdown = [assignee |-> None, turn |-> 0]
  /\ staff = Techs
  /\ outbox = {} /\ inbox = {}
  /\ job = [j \in Jobs |-> Rest]
  /\ edits = 0 /\ faults = 0

-----------------------------------------------------------------------------
(* What is due.                                                            *)

Sms(key, to, says)  == [what |-> "sms", key |-> key, to |-> to, says |-> says]
Note(link, to, says) == [what |-> "note", key |-> link, to |-> to, says |-> says]

\* reminderWindowBounds, both ends included.
InWindow(next, today) == today <= next /\ next <= today + WindowDays

DueContracts(today) == {c \in Contracts : contracts[c].active /\ InWindow(contracts[c].next, today)}

Technician(c) == IF contracts[c].tech \in staff THEN {contracts[c].tech} ELSE {}

\* Mutant: one key for whoever is told of the service, the customer included.
KeyOfService(c, t) == <<"maint", c, contracts[c].next, Customer>>

TechnicianKey(c, t) == <<"maint", c, contracts[c].next, t>>

ServiceLink(c) == <<"maintenance", c, contracts[c].next>>

ContractTasks(c) ==
  LET fact == <<"due", c, contracts[c].next>> IN
  FlattenSeq([n \in 1..Cardinality(Technician(c)) |->
    LET t == contracts[c].tech IN <<Sms(TechnicianKey(c, t), t, fact), Note(ServiceLink(c), t, fact)>>])
  \o <<Sms(<<"maint", c, contracts[c].next, Customer>>, Customer, fact)>>

TestKey(c, run) == <<"maint-test", c, contracts[c].next, run>>

\* simulate, with send: the technician only, under keys of its own.
TestTasks(c, run) ==
  LET fact == <<"test", c, contracts[c].next, run>> IN
  FlattenSeq([n \in 1..Cardinality(Technician(c)) |->
    LET t == contracts[c].tech IN
    <<Sms(TestKey(c, run), t, fact), Note(<<"maintenance, test", c, contracts[c].next, run>>, t, fact)>>])

InvoiceKey(i, offset) == <<"invoice-due", i, offset>>

\* Exactly so many days after the due date, and still outstanding.
InvoiceTasks(i) ==
  LET offset == day - FirstDue IN
  IF invoices[i] \/ offset \notin PayOffsets THEN <<>>
  ELSE <<Sms(InvoiceKey(i, offset), Customer, <<"owed", i, offset>>)>>

\* warrantyWindow: from the handover, else from the signature.
Expiry(w) == Cover + IF warranties[w] = None THEN 0 ELSE warranties[w]

WarrantyTasks(w) ==
  LET offset == Expiry(w) - day IN
  IF offset \notin WarrantyOffsets THEN <<>>
  ELSE <<Sms(<<"warranty-expiry", w, offset>>, Customer, <<"ends", w, Expiry(w), offset>>)>>

\* notifyBreakdownAssigned, of the assignee it finds.
AssignmentTasks ==
  LET a == breakdown.assignee IN
  IF a \notin staff THEN <<>>
  ELSE <<Sms(<<"breakdown", a>>, a, <<"assigned">>), Note(<<"breakdown", a>>, a, <<"assigned">>)>>

Each(Tasks(_), set) == LET list == SetToSeq(set) IN FlattenSeq([n \in DOMAIN list |-> Tasks(list[n])])

Tasks(x) ==
  CASE x.rule = "maintenance" -> Each(ContractTasks, DueContracts(day))
    [] x.rule = "test"        -> LET T(c) == TestTasks(c, x.run) IN Each(T, DueContracts(x.asOf))
    [] x.rule = "payment"     -> Each(InvoiceTasks, Invoices)
    [] x.rule = "warranty"    -> Each(WarrantyTasks, Warranties)
    [] x.rule = "assignment"  -> AssignmentTasks

-----------------------------------------------------------------------------
(* Jobs.                                                                   *)

Become(j, x) == job' = [job EXCEPT ![j] = x]
Task(j) == job[j].todo[job[j].n]
Passed(x) == [x EXCEPT !.pc = IF x.n = Len(x.todo) THEN "done" ELSE "work", !.n = x.n + 1]

ReadDue(j) ==
  LET x == job[j] IN
  /\ x.pc = "read"
  /\ Become(j, [x EXCEPT !.todo = Tasks(x), !.pc = IF Tasks(x) = <<>> THEN "done" ELSE "work"])
  /\ UNCHANGED <<day, up, ran, office, outbox, inbox, faults>>

\* ON CONFLICT (tenant_id, dedupe_key) DO NOTHING; refused without consent.
Enqueue(j) ==
  LET task == Task(j) IN
  /\ job[j].pc = "work" /\ task.what = "sms"
  /\ outbox' = IF task.to \notin Consenting \/ \E m \in outbox : m.key = task.key
               THEN outbox ELSE outbox \cup {task}
  /\ Become(j, Passed(job[j]))
  /\ UNCHANGED <<day, up, ran, office, inbox, faults>>

\* existsByLinkPath
LookForNote(j) ==
  LET task == Task(j) IN
  /\ job[j].pc = "work" /\ task.what = "note"
  /\ Become(j, IF \E m \in inbox : m.to = task.to /\ m.key = task.key
               THEN Passed(job[j]) ELSE [job[j] EXCEPT !.pc = "insert"])
  /\ UNCHANGED <<day, up, ran, office, outbox, inbox, faults>>

\* create: the recipient must be active still.
InsertNote(j) ==
  LET task == Task(j) IN
  /\ job[j].pc = "insert"
  /\ inbox' = IF task.to \notin staff THEN inbox
              ELSE inbox \cup {[id |-> Cardinality(inbox), to |-> task.to, key |-> task.key,
                                says |-> task.says, turn |-> breakdown.turn]}
  /\ Become(j, Passed(job[j]))
  /\ UNCHANGED <<day, up, ran, office, outbox, faults>>

\* A write fails: it is logged, and the others go on.
FailTask(j) ==
  /\ job[j].pc \in {"work", "insert"} /\ faults < MaxFaults
  /\ faults' = faults + 1
  /\ Become(j, Passed([job[j] EXCEPT !.failed = @ \cup {job[j].n}]))
  /\ UNCHANGED <<day, up, ran, office, outbox, inbox>>

Finish(j) ==
  /\ job[j].pc = "done"
  /\ Become(j, Rest)
  /\ UNCHANGED <<day, up, ran, office, outbox, inbox, faults>>

-----------------------------------------------------------------------------
(* The process and the clock.                                              *)

Sweep(source) ==
  job' = [j \in Jobs |-> IF j \in {source} \X Rules THEN [Rest EXCEPT !.pc = "read", !.rule = j[2]]
                                                    ELSE job[j]]

\* onApplicationBootstrap
Boot ==
  /\ ~up
  /\ up' = TRUE /\ ran' = ran \cup {"boot"}
  /\ Sweep("boot")
  /\ UNCHANGED <<day, office, outbox, inbox, faults>>

\* 6:00, 7:00 and 8:00.
Cron ==
  /\ up /\ "cron" \notin ran
  /\ ran' = ran \cup {"cron"}
  /\ Sweep("cron")
  /\ UNCHANGED <<day, up, office, outbox, inbox, faults>>

Crash ==
  /\ up /\ faults < MaxFaults
  /\ up' = FALSE /\ faults' = faults + 1
  /\ job' = [j \in Jobs |-> Rest]
  /\ UNCHANGED <<day, ran, office, outbox, inbox>>

\* A process that runs past six has swept, and sweeps do not last till midnight.
NewDay ==
  /\ day < Horizon
  /\ \A j \in Jobs : job[j] = Rest
  /\ IF up THEN ran # {} /\ UNCHANGED faults
     ELSE faults < MaxFaults /\ faults' = faults + 1
  /\ day' = day + 1 /\ ran' = {}
  /\ UNCHANGED <<up, office, outbox, inbox, job>>

-----------------------------------------------------------------------------
(* The office.                                                             *)

Edit == edits < MaxEdits /\ edits' = edits + 1

\* A visit is logged, a technician assigned, a contract paused or resumed.
ChangeContract(c) ==
  /\ Edit
  /\ LET s == contracts[c] IN
     contracts' \in {[contracts EXCEPT ![c] = r] :
       r \in {[s EXCEPT !.next = @ + Period, !.since = day],
              [s EXCEPT !.active = ~@, !.since = day]}
             \cup {[s EXCEPT !.tech = t, !.since = day] : t \in Techs \ {s.tech}}}
  /\ UNCHANGED <<day, up, ran, invoices, warranties, breakdown, staff, outbox, inbox, job, faults>>

Pay(i) ==
  /\ Edit /\ ~invoices[i]
  /\ invoices' = [invoices EXCEPT ![i] = TRUE]
  /\ UNCHANGED <<day, up, ran, contracts, warranties, breakdown, staff, outbox, inbox, job, faults>>

HandOver(w) ==
  /\ Edit /\ warranties[w] = None
  /\ warranties' = [warranties EXCEPT ![w] = day]
  /\ UNCHANGED <<day, up, ran, contracts, invoices, breakdown, staff, outbox, inbox, job, faults>>

Leave(t) ==
  /\ Edit /\ t \in staff
  /\ staff' = staff \ {t}
  /\ UNCHANGED <<day, up, ran, contracts, invoices, warranties, breakdown, outbox, inbox, job, faults>>

\* createBreakdown, updateBreakdown: any write that leaves it with an assignee.
WriteBreakdown(j) == \E t \in Techs :
  /\ up /\ job[j] = Rest /\ Edit
  /\ breakdown' = [assignee |-> t, turn |-> IF t = breakdown.assignee THEN breakdown.turn
                                                                     ELSE breakdown.turn + 1]
  /\ Become(j, [Rest EXCEPT !.pc = "read", !.rule = "assignment", !.run = edits + 1])
  /\ UNCHANGED <<day, up, ran, contracts, invoices, warranties, staff, outbox, inbox, faults>>

AskForTest(j) == \E asOf \in day..Horizon :
  /\ up /\ job[j] = Rest /\ Edit
  /\ Become(j, [Rest EXCEPT !.pc = "read", !.rule = "test", !.asOf = asOf, !.run = edits + 1])
  /\ UNCHANGED <<day, up, ran, contracts, invoices, warranties, breakdown, staff, outbox, inbox, faults>>

Next ==
  \/ \E j \in Jobs : ReadDue(j) \/ Enqueue(j) \/ LookForNote(j) \/ InsertNote(j) \/ FailTask(j) \/ Finish(j)
  \/ Boot \/ Cron \/ Crash \/ NewDay
  \/ \E c \in Contracts : ChangeContract(c)
  \/ \E i \in Invoices : Pay(i)
  \/ \E w \in Warranties : HandOver(w)
  \/ \E t \in Techs : Leave(t)
  \/ \E j \in Writers : WriteBreakdown(j) \/ AskForTest(j)

Spec == Init /\ [][Next]_vars
-----------------------------------------------------------------------------
(* Properties.                                                             *)

Texted(to, says) == to \in Consenting => \E m \in outbox : m.to = to /\ m.says = says
Notified(to, says) == \E m \in inbox : m.to = to /\ m.says = says

\* "without it, reassigning a contract ... silently drops the new technician's
\* reminder", "the September notification would suppress October's": of what a
\* job found due, everything has reached the person it is for when the job is
\* done, except what failed and people who have left.
DoneMeansTold ==
  \A j \in Jobs : job[j].pc = "done" => \A n \in DOMAIN job[j].todo \ job[j].failed :
    LET task == job[j].todo[n] IN
    IF task.what = "sms" THEN Texted(task.to, task.says)
                         ELSE Notified(task.to, task.says) \/ task.to \notin staff

\* "Safe to run any number of times: every SMS carries a dedupeKey the outbox
\* swallows repeats of": nobody gets one message twice.
OneSmsPerFact == \A m, n \in outbox : m.to = n.to /\ m.says = n.says => m = n

\* A technician and a customer know of a service when its day is over, if nobody
\* changed it while it was due and not every sweep of the window went wrong.
ToldBeforeTheDay ==
  \A c \in Contracts :
    LET s    == contracts[c]
        fact == <<"due", c, s.next>>
    IN  s.active /\ day > s.next /\ s.since < s.next - WindowDays =>
          /\ Texted(Customer, fact)
          /\ s.tech \in staff => Texted(s.tech, fact) /\ Notified(s.tech, fact)

\* "Safe to run any number of times ... the in-app notification dedupes on its
\* linkPath": on a single instance nobody is notified of one thing twice.
OneNotificationPerFact == \A m, n \in inbox : m.to = n.to /\ m.key = n.key => m = n

\* "reassigning to someone ELSE must still notify them": a breakdown that changes
\* hands is announced to whoever has it now.
ReassignedIsTold ==
  \A j \in Writers :
    /\ job[j].pc = "done" /\ job[j].rule = "assignment" /\ job[j].run = edits
    /\ job[j].failed = {} /\ breakdown.assignee \in staff
    => \E m \in inbox : m.to = breakdown.assignee /\ m.turn = breakdown.turn

\* "so the SMS can never name a date the customer's certificate contradicts":
\* when a sweep has dealt with a warranty, the notice that goes by its key names
\* the date the certificate has (unless the handover came in between).
WarrantySmsMatchesCertificate ==
  \A j \in Jobs : job[j].pc = "done" /\ job[j].rule = "warranty" =>
    \A n \in DOMAIN job[j].todo \ job[j].failed : \A m \in outbox :
      LET task == job[j].todo[n] IN
      m.key = task.key /\ task.says[3] = Expiry(m.says[2]) => m.says[3] = Expiry(m.says[2])
=============================================================================
