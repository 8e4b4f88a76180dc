--------------------------- MODULE DevToolsDriver ---------------------------
(***************************************************************************)
(* tests/interface-wasm-browser/driver.mjs: one run of the DevTools client *)
(* against a browser (external) that can answer, refuse, send events in    *)
(* any order and close the connection at any time.  Every await of main()  *)
(* is a point where other events are handled.                              *)
(***************************************************************************)
EXTENDS Naturals, Sequences

CONSTANT MaxFaults   \* bound: refusals, closed connections, failed writes

ASSUME DriverAssumption == MaxFaults \in Nat

VARIABLES
  driver,   \* the Node process, see NewDriver
  socket,   \* "none", "open", "closing" (its close event queued), "closed"
  command,  \* the request the browser works on, or "none"
  inbox,    \* messages and the close event not yet handled, in order
  page,     \* data-status of #result: "blank" before the navigation, and
            \* "missing" in a document without #result
  loaded,   \* Page.loadEventFired was sent
  dom,      \* data-status in the DOM snapshot on disk
  faults    \* faults so far

driverVars == <<driver, socket, command, inbox, page, loaded, dom, faults>>

\* pc: the call main() is at.  waiting: its promise is in client.pending.
\* waiter: the Page.loadEventFired waiter.  target: targetId is set.
\* threw: an exception is propagating.  result, seen: what evaluate and the
\* DOM capture returned.  exit: how the process ended.
NewDriver == [pc |-> "discover", waiting |-> FALSE, waiter |-> "none",
              target |-> FALSE, threw |-> FALSE, result |-> "none",
              seen |-> "none", exit |-> "running"]

\* The request that follows each request's reply in main().
After == [createTarget |-> "attach",         attach        |-> "pageEnable",
          pageEnable   |-> "runtimeEnable",  runtimeEnable |-> "navigate",
          navigate     |-> "load",           evaluate      |-> "capture",
          capture      |-> "writeDom",       closeTarget   |-> "over"]
Requests == DOMAIN After
Pcs == Requests \cup {"discover", "open", "load", "writeDom", "writeResult", "over"}
Statuses == {"blank", "running", "pass", "fail", "missing"}
Messages == [kind : {"reply"}, status : Statuses]
            \cup [kind : {"error", "load", "close"}]

DriverType == [pc : Pcs, waiting : BOOLEAN, waiter : {"none", "armed", "fired"},
               target : BOOLEAN, threw : BOOLEAN, result : Statuses \cup {"none"},
               seen : Statuses \cup {"none"},
               exit : {"running", "ok", "error", "timeout"}]

TypeOK ==
  /\ driver \in DriverType
  /\ driver.waiting => driver.pc \in Requests
  /\ driver.exit # "running" <=> driver.pc = "over"
  /\ socket \in {"none", "open", "closing", "closed"}
  /\ command \in Requests \cup {"none"}
  /\ inbox \in Seq(Messages)
  /\ page \in Statuses /\ dom \in Statuses \cup {"none"}
  /\ loaded \in BOOLEAN
  /\ faults \in 0..MaxFaults
  \* one request at a time: its reply, its error or the close answers it
  /\ command # "none" => driver.waiting /\ command = driver.pc
  /\ \A m, n \in 1..Len(inbox) : inbox[m].kind \in {"reply", "error"} /\
       inbox[n].kind \in {"reply", "error"} => m = n

Init ==
  /\ driver = NewDriver
  /\ socket = "none" /\ command = "none" /\ inbox = <<>>
  /\ page = "blank" /\ loaded = FALSE /\ dom = "none"
  /\ faults = 0

Fault == faults < MaxFaults /\ faults' = faults + 1
Healthy == UNCHANGED faults
Browser == <<command, page, loaded>>

\* The process ends with this status.
Exit(d, status) ==
  [d EXCEPT !.pc = "over", !.waiting = FALSE, !.exit = status]

\* The finally clause: close the target if there is one.  The exception goes
\* on to main().catch, which sets the exit code.
Throw(d) ==
  IF d.target
  THEN [d EXCEPT !.pc = "closeTarget", !.waiting = FALSE, !.threw = TRUE]
  ELSE Exit(d, "error")

-----------------------------------------------------------------------------
(* main() *)

\* discoverBrowser and client.open: nothing to clean up if they fail.
Connect ==
  /\ \/ /\ driver.pc = "discover"
        /\ driver' = [driver EXCEPT !.pc = "open"]
        /\ UNCHANGED socket
     \/ /\ driver.pc = "open"
        /\ driver' = [driver EXCEPT !.pc = "createTarget"]
        /\ socket' = "open"
  /\ Healthy /\ UNCHANGED <<Browser, inbox, dom>>

ConnectFails ==
  /\ driver.pc \in {"discover", "open"}
  /\ driver' = Exit(driver, "error")
  /\ Fault /\ UNCHANGED <<Browser, socket, inbox, dom>>

\* Mutant: the load event is awaited only after the navigation's reply.
SendWithoutWaiter ==
  /\ driver.pc \in Requests /\ ~driver.waiting
  /\ driver' = [driver EXCEPT !.waiting = TRUE]
  /\ command' = IF socket = "open" THEN driver.pc ELSE command
  /\ Healthy /\ UNCHANGED <<socket, inbox, page, loaded, dom>>

\* client.send: on a socket that is no longer open the message is dropped and
\* the promise stays pending.  The waiter is there before Page.navigate.
Send ==
  /\ driver.pc \in Requests /\ ~driver.waiting
  /\ driver' = [driver EXCEPT !.waiting = TRUE,
                  !.waiter = IF driver.pc = "navigate" THEN "armed" ELSE @]
  /\ command' = IF socket = "open" THEN driver.pc ELSE command
  /\ Healthy /\ UNCHANGED <<socket, inbox, page, loaded, dom>>

\* await loaded
Loaded ==
  /\ driver.pc = "load"
  /\ driver.waiter = "fired"
  /\ driver' = [driver EXCEPT !.pc = "evaluate"]
  /\ Healthy /\ UNCHANGED <<Browser, socket, inbox, dom>>

\* Mutant: the result is written and not judged.
WriteUnjudged ==
  /\ \/ /\ driver.pc = "writeDom"
        /\ dom' = driver.seen
        /\ driver' = [driver EXCEPT !.pc = "writeResult"]
     \/ /\ driver.pc = "writeResult"
        /\ driver' = [driver EXCEPT !.pc = "closeTarget"]
        /\ UNCHANGED dom
  /\ Healthy /\ UNCHANGED <<Browser, socket, inbox>>

\* The snapshot, then the result; then the result is judged.
Write ==
  /\ \/ /\ driver.pc = "writeDom"
        /\ dom' = driver.seen
        /\ driver' = [driver EXCEPT !.pc = "writeResult"]
     \/ /\ driver.pc = "writeResult"
        /\ driver' = IF driver.result = "pass"
                     THEN [driver EXCEPT !.pc = "closeTarget"]
                     ELSE Throw(driver)
        /\ UNCHANGED dom
  /\ Healthy /\ UNCHANGED <<Browser, socket, inbox>>

WriteFails ==
  /\ driver.pc \in {"writeDom", "writeResult"}
  /\ driver' = Throw(driver)
  /\ Fault /\ UNCHANGED <<Browser, socket, inbox, dom>>

-----------------------------------------------------------------------------
(* Event handlers of DevToolsClient *)

Receive(kind) == inbox # <<>> /\ Head(inbox).kind = kind /\ inbox' = Tail(inbox)
Finished(d) == Exit(d, IF d.threw THEN "error" ELSE "ok")

\* message, with a result: the pending request's await goes on.
OnReply ==
  /\ Receive("reply")
  /\ LET d == [driver EXCEPT !.waiting = FALSE, !.pc = After[@]]
         status == Head(inbox).status IN
       \/ driver.pc = "createTarget" /\ driver' = [d EXCEPT !.target = TRUE]
       \/ driver.pc = "evaluate" /\ driver' = [d EXCEPT !.result = status]
       \/ driver.pc = "capture" /\ driver' = [d EXCEPT !.seen = status]
       \/ driver.pc = "closeTarget" /\ driver' = Finished(d)
       \/ driver.pc \notin {"createTarget", "evaluate", "capture", "closeTarget"}
          /\ driver' = d
  /\ Healthy /\ UNCHANGED <<Browser, socket, dom>>

\* message, with an error; also errorText, exceptionDetails and the bounds
\* that main() asserts on a result.
OnError ==
  /\ Receive("error")
  /\ driver' = IF driver.pc = "closeTarget" THEN Finished(driver) ELSE Throw(driver)
  /\ Healthy /\ UNCHANGED <<Browser, socket, dom>>

\* message, an event: only a waiter that is there already sees it.
OnLoad ==
  /\ Receive("load")
  /\ driver' = [driver EXCEPT !.waiter = IF @ = "armed" THEN "fired" ELSE @]
  /\ Healthy /\ UNCHANGED <<Browser, socket, dom>>

\* close: rejects the pending request and the waiter.  A waiter nobody awaits
\* yet is an unhandled rejection, which ends the process.
OnClose ==
  /\ Receive("close")
  /\ socket' = "closed"
  /\ LET d == [driver EXCEPT !.waiter = IF @ = "armed" THEN "none" ELSE @] IN
       \/ /\ driver.waiting /\ driver.waiter = "armed"
          /\ driver' = Exit(d, "error")
       \/ /\ driver.waiting /\ driver.waiter # "armed"
          /\ driver' = IF driver.pc = "closeTarget" THEN Finished(d) ELSE Throw(d)
       \/ /\ driver.pc = "load" /\ driver.waiter = "armed"
          /\ driver' = Throw(d)
       \/ /\ ~driver.waiting /\ ~(driver.pc = "load" /\ driver.waiter = "armed")
          /\ driver' = d
  /\ Healthy /\ UNCHANGED <<Browser, dom>>

\* The connection is closed and the awaited promise can never settle: nothing
\* keeps Node alive, and it exits without reaching main().catch.
RunsDry ==
  /\ socket = "closed" /\ inbox = <<>>
  /\ \/ driver.waiting
     \/ driver.pc = "load" /\ driver.waiter # "fired"
  /\ driver' = Exit(driver, "ok")
  /\ Healthy /\ UNCHANGED <<Browser, socket, inbox, dom>>

-----------------------------------------------------------------------------
(* The browser and the page *)

\* A page that will not change any more.
Settled == page \in {"pass", "fail", "missing"}

\* The server serves the contract, or some document without #result.
Navigate(p) == IF p = "blank" THEN {"running", "missing"} ELSE {p}

\* What the evaluated expression resolves with: no #result is a failure.
Verdict == IF page = "missing" THEN "fail" ELSE page
Status == IF command = "evaluate" THEN Verdict ELSE page

\* Mutant: awaitPromise is not set, the evaluation returns at once.
ReplyAtOnce ==
  /\ command # "none" /\ socket = "open"
  /\ page' \in IF command = "navigate" THEN Navigate(page) ELSE {page}
  /\ inbox' = Append(inbox, [kind |-> "reply", status |-> Status])
  /\ command' = "none"
  /\ Healthy /\ UNCHANGED <<driver, socket, loaded, dom>>

\* The evaluation's promise resolves once the contract has a verdict, and at
\* once where there is no #result to wait for.
Reply ==
  /\ command # "none" /\ socket = "open"
  /\ command = "evaluate" => Settled
  /\ page' \in IF command = "navigate" THEN Navigate(page) ELSE {page}
  /\ inbox' = Append(inbox, [kind |-> "reply", status |-> Status])
  /\ command' = "none"
  /\ Healthy /\ UNCHANGED <<driver, socket, loaded, dom>>

Refuse ==
  /\ command # "none" /\ socket = "open"
  /\ inbox' = Append(inbox, [kind |-> "error"])
  /\ command' = "none"
  /\ Fault /\ UNCHANGED <<driver, socket, page, loaded, dom>>

\* The load event, before or after the reply of Page.navigate.
FireLoad ==
  /\ socket = "open" /\ ~loaded
  /\ page # "blank" \/ command = "navigate"
  /\ page' \in Navigate(page)
  /\ loaded' = TRUE
  /\ inbox' = Append(inbox, [kind |-> "load"])
  /\ Healthy /\ UNCHANGED <<driver, socket, command, dom>>

\* contract.mjs writes its verdict.
Settle ==
  /\ page = "running"
  /\ page' \in {"pass", "fail"}
  /\ Healthy /\ UNCHANGED <<driver, socket, command, inbox, loaded, dom>>

\* The browser goes away.
Disconnect ==
  /\ socket = "open"
  /\ socket' = "closing"
  /\ inbox' = Append(inbox, [kind |-> "close"])
  /\ command' = "none"
  /\ Fault /\ UNCHANGED <<driver, page, loaded, dom>>

DriverStep == Connect \/ Send \/ Loaded \/ Write \/ OnReply \/ OnError \/ OnLoad
              \/ OnClose \/ RunsDry
Running == driver.exit = "running"
BrowserStep == Reply \/ FireLoad \/ Settle
FaultStep == ConnectFails \/ WriteFails \/ Refuse \/ Disconnect

Next == Running /\ (DriverStep \/ BrowserStep \/ FaultStep)

Spec == Init /\ [][Next]_driverVars
\* Node runs what it can, and the browser answers.
FairSpec == Spec /\ WF_driverVars(Running /\ DriverStep)
                 /\ WF_driverVars(Running /\ BrowserStep)

-----------------------------------------------------------------------------
(* Properties *)

\* With a browser that does its part, the driver ends with the page's own
\* verdict and the snapshot that shows it: no event is missed, whatever the
\* order of the load event, the replies and the page's verdict, and a document
\* without a verdict to wait for does not hold the driver up.
VerdictIsReported ==
  <>(\/ faults > 0
     \/ ~Running /\ Settled /\ dom = page /\ (driver.exit = "ok" <=> page = "pass"))

\* The snapshot on disk shows what was judged and never the page before it had
\* a verdict: the pass or the fail of the result, or a document without
\* #result, and then the result is a failure.
SnapshotShowsVerdict ==
  dom # "none" =>
    /\ dom = page /\ Settled
    /\ driver.result = IF dom = "missing" THEN "fail" ELSE dom

\* The driver exits 0 with the pass in its snapshot, or because its connection
\* closed while it waited: no error, refusal or failing page ends as a success.
OkMeansPassOrClosed ==
  driver.exit = "ok" => (dom = "pass" /\ page = "pass") \/ socket = "closed"
=============================================================================
