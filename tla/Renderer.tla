------------------------------ MODULE Renderer ------------------------------
(***************************************************************************)
(* DocumentPdfService: one Chromium shared by every document of an API     *)
(* process, launched on demand, and a chain of promises that renders one   *)
(* document or fades one image at a time.  Chromium may die, fail to start *)
(* or fail a page at any moment; the service may be shut down at any       *)
(* moment, with renders still waiting.                                     *)
(***************************************************************************)
EXTENDS Integers, Sequences, FiniteSets

CONSTANTS
  Documents,   \* requests for a PDF
  Images,      \* requests for a faded image, made while a Word file is built
  MaxLaunches, \* bound: Chromium processes ever started
  MaxFaults,   \* bound: deaths, failed launches and failed pages
  None

JobsAreApart == Documents \cap Images = {} /\ None \notin Nat /\ None # "failed"

VARIABLES
  queue,     \* renderQueue: the jobs not yet settled, oldest first
  job,       \* each request
  proc,      \* the Chromium processes started so far
  browser,   \* this.browser
  launching, \* this.launching: the process it will resolve to, or has
  pages,     \* pages open in a live Chromium, each with its job
  faulted,   \* jobs something went wrong for while they ran
  down,      \* how far onModuleDestroy has come, and what it closes
  faults

vars == <<queue, job, proc, browser, launching, pages, faulted, down, faults>>

Jobs == Documents \cup Images
Fresh == Len(proc) + 1

Init ==
  /\ queue = <<>> /\ proc = <<>> /\ pages = {} /\ faulted = {}
  /\ job = [j \in Jobs |-> [pc |-> "new", on |-> None, outcome |-> None]]
  /\ browser = None /\ launching = None
  /\ down = [pc |-> "up", on |-> None]
  /\ faults = 0

Fault == faults < MaxFaults /\ faults' = faults + 1

\* browser.connected: a death counts once the 'disconnected' event has fired.
Connected(b) == b # None /\ proc[b] \in {"up", "dying"}

Running == {j \in Jobs : job[j].pc \notin {"new", "queued", "done"}}
Using(b) == {j \in Running : job[j].on = b}

Step(j, pc) == job' = [job EXCEPT ![j].pc = pc]
Settle(j, outcome) == job' = [job EXCEPT ![j].pc = "close", ![j].outcome = outcome]
-----------------------------------------------------------------------------
(* A request.                                                              *)

\* renderDocumentPdf and fadeImage: the job goes behind the tail of the chain.
Ask(j) ==
  /\ job[j].pc = "new"
  /\ Step(j, "queued")
  /\ queue' = Append(queue, j)
  /\ UNCHANGED <<proc, browser, launching, pages, faulted, down, faults>>

\* fadeImage answers null at once for an image it refuses to decode.
Refuse(j) ==
  /\ j \in Images /\ job[j].pc = "new"
  /\ job' = [job EXCEPT ![j].pc = "done", ![j].outcome = "refused"]
  /\ UNCHANGED <<queue, proc, browser, launching, pages, faulted, down, faults>>

\* Mutant: every waiting render starts.
FirstAny(j) == \E i \in 1..Len(queue) : queue[i] = j

First(j) == queue # <<>> /\ Head(queue) = j
BrowserAtHand == IF Connected(browser) THEN browser ELSE launching

\* Its turn: build the HTML and getBrowser(), up to the first await.
Begin(j) ==
  /\ job[j].pc = "queued" /\ First(j)
  /\ IF BrowserAtHand # None
     THEN /\ job' = [job EXCEPT ![j].pc = "await", ![j].on = BrowserAtHand]
          /\ UNCHANGED <<proc, launching>>
     ELSE /\ Len(proc) < MaxLaunches
          /\ job' = [job EXCEPT ![j].pc = "await", ![j].on = Fresh]
          /\ proc' = Append(proc, "starting")
          /\ launching' = Fresh
  /\ UNCHANGED <<queue, browser, pages, faulted, down, faults>>

\* A builder that cannot lay out its document throws before any browser is asked for.
BuildFails(j) ==
  /\ j \in Documents /\ job[j].pc = "queued" /\ First(j) /\ Fault
  /\ Settle(j, "failed") /\ faulted' = faulted \cup {j}
  /\ UNCHANGED <<queue, proc, browser, launching, pages, down>>

\* What is asked of a Chromium that has died is refused with 'disconnected', not before.
Answers(b) == IF b = None THEN TRUE ELSE proc[b] \notin {"starting", "dying"}

\* await getBrowser(); await browser.newPage().
OpenPage(j) ==
  LET b == job[j].on IN
  /\ job[j].pc = "await" /\ Answers(b)
  /\ IF proc[b] = "up" THEN Step(j, "draw") /\ pages' = pages \cup {<<j, b>>}
     ELSE Settle(j, "failed") /\ UNCHANGED pages
  /\ UNCHANGED <<queue, proc, browser, launching, faulted, down, faults>>

\* setContent, evaluate and pdf of a document; decode and draw of an image.
Draw(j) ==
  /\ job[j].pc = "draw" /\ Answers(job[j].on)
  /\ Settle(j, IF proc[job[j].on] = "up" THEN "drawn" ELSE "failed")
  /\ UNCHANGED <<queue, proc, browser, launching, pages, faulted, down, faults>>

\* A slow image, "Printing failed", FADE_TIMEOUT_MS.
DrawFails(j) ==
  /\ job[j].pc = "draw" /\ Fault
  /\ Settle(j, "failed") /\ faulted' = faulted \cup {j}
  /\ UNCHANGED <<queue, proc, browser, launching, pages, down>>

\* Mutant: without the catch a failed render is the end of the chain.
RestOfUnsettled(j) == IF job[j].outcome = "failed" THEN queue ELSE Tail(queue)

\* "The `.catch` keeps one failed render from poisoning the queue": the job at the
\* head of the chain is settled either way.
RestOf(j) == Tail(queue)

\* finally: page.close(), whose failure is swallowed; the next job's turn.
ClosePage(j) ==
  /\ job[j].pc = "close" /\ Answers(job[j].on)
  /\ pages' = {p \in pages : p[1] # j}
  /\ Step(j, "done")
  /\ queue' = RestOf(j)
  /\ UNCHANGED <<proc, browser, launching, faulted, down, faults>>
-----------------------------------------------------------------------------
(* Chromium.                                                               *)

Launched(b) ==
  /\ proc[b] = "starting"
  /\ proc' = [proc EXCEPT ![b] = "up"]
  /\ browser' = b
  /\ UNCHANGED <<queue, job, launching, pages, faulted, down, faults>>

LaunchingAfterFailure == None

\* "A failed launch must not wedge every future request on a rejected promise."
LaunchFails(b) ==
  /\ proc[b] = "starting" /\ Fault
  /\ proc' = [proc EXCEPT ![b] = "failed"]
  /\ launching' = LaunchingAfterFailure
  /\ faulted' = faulted \cup Using(b)
  /\ UNCHANGED <<queue, job, browser, pages, down>>

\* The process is gone; the service has not heard of it yet.
Dies(b) ==
  /\ proc' = [proc EXCEPT ![b] = "dying"]
  /\ pages' = {p \in pages : p[2] # b}
  /\ faulted' = faulted \cup Using(b)

Crash(b) ==
  /\ proc[b] = "up" /\ Fault
  /\ Dies(b)
  /\ UNCHANGED <<queue, job, browser, launching, down>>

LaunchingAfterDeath == None

\* 'disconnected': a job that begins before it still gets the dead browser.
Disconnected(b) ==
  /\ proc[b] = "dying"
  /\ proc' = [proc EXCEPT ![b] = "dead"]
  /\ browser' = None /\ launching' = LaunchingAfterDeath
  /\ faulted' = faulted \cup Using(b)
  /\ UNCHANGED <<queue, job, pages, down, faults>>
-----------------------------------------------------------------------------
(* onModuleDestroy.                                                        *)

Destroy ==
  /\ down.pc = "up"
  /\ down' = IF browser # None THEN [pc |-> "close", on |-> browser]
             ELSE IF launching # None THEN [pc |-> "await", on |-> launching]
             ELSE [pc |-> "closed", on |-> None]
  /\ UNCHANGED <<queue, job, proc, browser, launching, pages, faulted, faults>>

AwaitLaunch ==
  /\ down.pc = "await" /\ proc[down.on] # "starting"
  /\ down' = [down EXCEPT !.pc = IF proc[down.on] = "failed" THEN "closed" ELSE "close"]
  /\ UNCHANGED <<queue, job, proc, browser, launching, pages, faulted, faults>>

CloseBrowser ==
  /\ down.pc = "close"
  /\ down' = [down EXCEPT !.pc = "closed"]
  /\ IF proc[down.on] = "up" THEN Dies(down.on) ELSE UNCHANGED <<proc, pages, faulted>>
  /\ UNCHANGED <<queue, job, browser, launching, faults>>

JobStep(j) == Begin(j) \/ OpenPage(j) \/ Draw(j) \/ ClosePage(j)
Next ==
  \/ \E j \in Jobs : Ask(j) \/ Refuse(j) \/ JobStep(j) \/ BuildFails(j) \/ DrawFails(j)
  \/ \E b \in DOMAIN proc : Launched(b) \/ LaunchFails(b) \/ Crash(b) \/ Disconnected(b)
  \/ Destroy \/ AwaitLaunch \/ CloseBrowser

Spec == Init /\ [][Next]_vars

\* Every await of the service settles: Chromium answers or one of puppeteer's
\* timeouts rejects.  Nothing obliges a fault, a request or a shutdown.
Fairness ==
  /\ \A j \in Jobs : WF_vars(JobStep(j))
  /\ \A b \in 1..MaxLaunches :
       WF_vars(b \in DOMAIN proc /\ (Launched(b) \/ Disconnected(b)))

FairSpec == Spec /\ Fairness
-----------------------------------------------------------------------------
(* Properties.                                                             *)

\* "Renders run ONE AT A TIME": a host sized for one page never holds two, and
\* never two Chromium processes, whatever dies and is launched again.
OneAtATime ==
  /\ Cardinality(Running) <= 1 /\ Cardinality(pages) <= 1
  /\ Cardinality({b \in DOMAIN proc : proc[b] \in {"starting", "up"}}) <= 1

\* One bad document, launch or crash costs the render it happened to and no
\* other: a render fails only if something went wrong in its own course, up to
\* the moment the service hears of a death.
FailuresAreOwn == \A j \in Jobs : job[j].outcome = "failed" => j \in faulted

\* Whoever asks for a document gets it or an error, behind however many others.
EveryRequestIsAnswered == \A j \in Jobs : job[j].pc = "queued" ~> job[j].pc = "done"

\* "or that Chromium process resolves after destroy and is never closed": after
\* onModuleDestroy no Chromium is left that nobody will close.
NothingLeftBehind ==
  down.pc = "closed" => \A b \in DOMAIN proc : proc[b] \notin {"starting", "up"}
=============================================================================
