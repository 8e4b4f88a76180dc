--------------------------- MODULE BrowserHarness ---------------------------
(***************************************************************************)
(* tests/interface-wasm-browser/run.sh: attempts, one after the other, to  *)
(* certify the generated package in a browser.  An attempt starts a web    *)
(* server and a browser, runs the driver (DevToolsDriver) under a wall     *)
(* clock and reaps what it started.  All attempts use the same two ports.  *)
(* The server and the browser are external: they bind a port or fail to,   *)
(* and can die or stop answering.                                          *)
(***************************************************************************)
EXTENDS DevToolsDriver

CONSTANTS
  Attempts,   \* bound: runs of the script
  MayHang,    \* a listening process can stop answering
  MayKill     \* the script can be killed (SIGKILL: no trap runs)

ASSUME HarnessAssumption ==
  /\ Attempts \in Nat \ {0}
  /\ MayHang \in BOOLEAN /\ MayKill \in BOOLEAN

VARIABLES
  attempt,  \* the attempt that runs or ran last, 0 before the first
  pc,       \* where its script is
  status,   \* $? when cleanup runs
  server,   \* server[a]: attempt a's http.server
  leader,   \* leader[a]: attempt a's browser process
  helpers,  \* attempts whose browser has descendants alive
  web,      \* the attempt whose server listens on $port, 0 if none
  debug,    \* the attempt whose browser listens on $debug_port, 0 if none
  hung,     \* ports whose listener accepts and does not answer
  origin,   \* the listeners the driver used, a record of attempts
  killed    \* history: attempts whose script was killed

scriptVars == <<attempt, pc, status, server, leader, helpers, web, debug, hung, origin, killed>>
vars == <<scriptVars, driverVars>>

All == 1..Attempts
Over == {"idle", "ended", "killed"}

Life == {"none", "starting", "up", "gone"}
ScriptTypeOK ==
  /\ attempt \in 0..Attempts
  /\ pc \in Over \cup {"awaitServer", "startBrowser", "awaitBrowser", "drive",
                       "cleanup", "grace", "stopServer"}
  /\ status \in {0, 1}
  /\ server \in [All -> Life] /\ leader \in [All -> Life]
  /\ helpers \subseteq All
  /\ web \in 0..Attempts /\ debug \in 0..Attempts
  /\ web # 0 => server[web] = "up"
  /\ debug # 0 => leader[debug] = "up"
  /\ hung \subseteq {"web", "debug"}
  /\ origin \in [web : 0..Attempts, browser : 0..Attempts]
  /\ killed \subseteq All
HarnessTypeOK == TypeOK /\ ScriptTypeOK

HarnessInit ==
  /\ Init
  /\ attempt = 0 /\ pc = "idle" /\ status = 0
  /\ server = [a \in All |-> "none"] /\ leader = [a \in All |-> "none"]
  /\ helpers = {} /\ web = 0 /\ debug = 0 /\ hung = {}
  /\ origin = [web |-> 0, browser |-> 0] /\ killed = {}

DriverKept == UNCHANGED <<driverVars, killed>>
Processes == <<server, leader, helpers, web, debug, hung>>
Fail == status' = 1 /\ pc' = "cleanup"

-----------------------------------------------------------------------------
(* The script *)

\* A new work directory, with no snapshot in it, and the server in the
\* background.
Begin ==
  /\ pc \in Over /\ attempt < Attempts
  /\ attempt' = attempt + 1
  /\ pc' = "awaitServer" /\ status' = 0
  /\ server' = [server EXCEPT ![attempt'] = "starting"]
  /\ driver' = NewDriver /\ dom' = "none"
  /\ socket' = "none" /\ command' = "none" /\ inbox' = <<>>
  /\ page' = "blank" /\ loaded' = FALSE
  /\ origin' = [web |-> 0, browser |-> 0]
  /\ UNCHANGED <<faults, leader, helpers, web, debug, hung, killed>>

\* Mutant: the loop has no end, only a listener or a death stops it.
AwaitPatiently(port, owner, process, next) ==
  /\ port \notin hung
  /\ owner # 0 /\ pc' = next
  /\ UNCHANGED <<status, attempt, Processes, origin, killed, driverVars>>

\* A loop of curl and kill -0, then a last curl.  curl has no time limit, and
\* any listener on the port will do.  The loop gives up on a process that is
\* gone or lives without the port; giving up on a slow start is a fault.
Await(port, owner, process, next) ==
  /\ port \notin hung
  /\ \/ owner # 0 /\ pc' = next /\ UNCHANGED <<status, faults>>
     \/ owner = 0 /\ process \in {"up", "gone"} /\ Fail /\ UNCHANGED faults
     \/ owner = 0 /\ process = "starting" /\ Fail /\ Fault
  /\ UNCHANGED <<attempt, Processes, origin, killed>>
  /\ UNCHANGED <<driver, socket, inbox, Browser, dom>>

AwaitServer == pc = "awaitServer" /\ Await("web", web, server[attempt], "startBrowser")

StartBrowser ==
  /\ pc = "startBrowser"
  /\ pc' = "awaitBrowser"
  /\ leader' = [leader EXCEPT ![attempt] = "starting"]
  /\ UNCHANGED <<attempt, status, server, helpers, web, debug, hung, origin>>
  /\ DriverKept

AwaitBrowser ==
  pc = "awaitBrowser" /\ Await("debug", debug, leader[attempt], "drive")

\* timeout kills the driver at any time before it has ended.
Timeout ==
  /\ pc = "drive" /\ Running
  /\ driver' = Exit(driver, "timeout")
  /\ socket' = "closed" /\ command' = "none" /\ inbox' = <<>>
  /\ UNCHANGED <<page, loaded, dom, faults, scriptVars>>

\* Mutant: the driver's exit code becomes the script's.
JudgePassesOn ==
  /\ pc = "drive" /\ ~Running
  /\ status' = CASE driver.exit = "timeout" -> 124
                 [] driver.exit = "ok" /\ dom = "pass" -> 0
                 [] OTHER -> 1
  /\ pc' = "cleanup"
  /\ UNCHANGED <<attempt, Processes, origin>> /\ DriverKept

\* Mutant: the driver's exit code alone decides.
JudgeExitCode ==
  /\ pc = "drive" /\ ~Running
  /\ status' = IF driver.exit = "ok" THEN 0 ELSE 1
  /\ pc' = "cleanup"
  /\ UNCHANGED <<attempt, Processes, origin>> /\ DriverKept

\* The driver's exit code, and the snapshot must show the pass.
Judge ==
  /\ pc = "drive" /\ ~Running
  /\ status' = IF driver.exit = "ok" /\ dom = "pass" THEN 0 ELSE 1
  /\ pc' = "cleanup"
  /\ UNCHANGED <<attempt, Processes, origin>> /\ DriverKept

-----------------------------------------------------------------------------
(* cleanup(), on EXIT *)

\* TERM to the browser's process group, if a browser was started.
Terminate ==
  /\ pc = "cleanup"
  /\ pc' = IF leader[attempt] = "none" THEN "stopServer" ELSE "grace"
  /\ UNCHANGED <<attempt, status, Processes, origin>> /\ DriverKept

LeaderGone(a) ==
  /\ leader' = [leader EXCEPT ![a] = "gone"]
  /\ debug' = IF debug = a THEN 0 ELSE debug
  /\ hung' = IF debug = a THEN hung \ {"debug"} ELSE hung

\* Mutant: only the leader is killed and waited for.
KillLeader ==
  /\ pc = "grace"
  /\ pc' = "stopServer"
  /\ LeaderGone(attempt)
  /\ UNCHANGED <<attempt, status, server, helpers, web, origin>> /\ DriverKept

\* The group is empty or five seconds are over: KILL to the group, and wait.
Kill ==
  /\ pc = "grace"
  /\ pc' = "stopServer"
  /\ LeaderGone(attempt)
  /\ helpers' = helpers \ {attempt}
  /\ UNCHANGED <<attempt, status, server, web, origin>> /\ DriverKept

ServerGone(a) ==
  /\ server' = [server EXCEPT ![a] = "gone"]
  /\ web' = IF web = a THEN 0 ELSE web
  /\ hung' = IF web = a THEN hung \ {"web"} ELSE hung

\* Mutant: the server is left to the end of the job.
LeaveServer ==
  /\ pc = "stopServer"
  /\ pc' = "ended"
  /\ UNCHANGED <<attempt, status, Processes, origin>> /\ DriverKept

\* kill and wait; then the work directory is removed and the status kept.
StopServer ==
  /\ pc = "stopServer"
  /\ pc' = "ended"
  /\ ServerGone(attempt)
  /\ UNCHANGED <<attempt, status, leader, helpers, debug, origin>> /\ DriverKept

-----------------------------------------------------------------------------
(* The processes it starts *)

\* http.server binds the port, or fails because it is in use.
ServerStarts(a) ==
  /\ server[a] = "starting"
  /\ server' = [server EXCEPT ![a] = IF web = 0 THEN "up" ELSE "gone"]
  /\ web' = IF web = 0 THEN a ELSE web
  /\ UNCHANGED <<attempt, pc, status, leader, helpers, debug, hung, origin>>
  /\ DriverKept

\* The browser goes on without DevTools if the port is in use.
BrowserStarts(a) ==
  /\ leader[a] = "starting"
  /\ leader' = [leader EXCEPT ![a] = "up"]
  /\ helpers' = helpers \cup {a}
  /\ debug' = IF debug = 0 THEN a ELSE debug
  /\ UNCHANGED <<attempt, pc, status, server, web, hung, origin>>
  /\ DriverKept

\* After TERM the leader and its descendants end in any order, or do not.
Dies(a) ==
  /\ pc = "grace" /\ a = attempt
  /\ \/ /\ leader[a] # "gone" /\ LeaderGone(a)
        /\ UNCHANGED helpers
     \/ /\ a \in helpers /\ helpers' = helpers \ {a}
        /\ UNCHANGED <<leader, debug, hung>>
  /\ UNCHANGED <<attempt, pc, status, server, web, origin>> /\ DriverKept

\* A server or a browser dies on its own; its descendants may live on.
Crash(a) ==
  /\ \/ /\ server[a] \in {"starting", "up"} /\ ServerGone(a)
        /\ UNCHANGED <<leader, debug, helpers, socket, command, inbox>>
     \/ /\ leader[a] \in {"starting", "up"} /\ LeaderGone(a)
        /\ IF origin.browser = a /\ socket = "open"
           THEN socket' = "closing" /\ command' = "none"
                /\ inbox' = Append(inbox, [kind |-> "close"])
           ELSE UNCHANGED <<socket, command, inbox>>
        /\ UNCHANGED <<server, web, helpers>>
  /\ Fault
  /\ UNCHANGED <<attempt, pc, status, origin, killed, driver, page, loaded, dom>>

\* A listener accepts connections and answers none of them.
Hang ==
  /\ MayHang
  /\ \E port \in {"web", "debug"} \ hung :
       /\ port = "web" => web # 0
       /\ port = "debug" => debug # 0
       /\ hung' = hung \cup {port}
  /\ Fault
  /\ UNCHANGED <<attempt, pc, status, server, leader, helpers, web, debug, origin, killed>>
  /\ UNCHANGED <<driver, socket, Browser, inbox, dom>>

\* The script is killed, and the processes it started are not.
KillScript ==
  /\ MayKill /\ pc \notin Over
  /\ pc' = "killed"
  /\ killed' = killed \cup {attempt}
  /\ Fault
  /\ UNCHANGED <<attempt, status, Processes, origin, driver, socket, Browser, inbox, dom>>

-----------------------------------------------------------------------------

\* Discovery needs an answer, and the page and the browser that answer are
\* whichever listen then.
Driving ==
  /\ pc = "drive" /\ Running
  /\ \/ /\ DriverStep
        /\ driver.pc = "discover" => debug # 0 /\ "debug" \notin hung
        /\ origin' = IF driver.pc = "discover"
                     THEN [origin EXCEPT !.browser = debug] ELSE origin
     \/ ConnectFails /\ UNCHANGED origin
     \/ WriteFails /\ UNCHANGED origin
     \/ Refuse /\ UNCHANGED origin
  /\ UNCHANGED <<attempt, pc, status, Processes, killed>>

\* The page is served when the browser navigates to it.
Browsing ==
  /\ pc = "drive" /\ Running /\ "debug" \notin hung
  /\ command = "navigate" => web # 0 /\ "web" \notin hung
  /\ BrowserStep
  /\ origin' = IF page = "blank" /\ page' # "blank"
               THEN [origin EXCEPT !.web = web] ELSE origin
  /\ UNCHANGED <<attempt, pc, status, Processes, killed>>

ScriptStep ==
  AwaitServer \/ StartBrowser \/ AwaitBrowser \/ Judge \/ Terminate \/ Kill \/ StopServer

HarnessNext ==
  \/ Begin \/ ScriptStep \/ Timeout \/ Driving \/ Browsing
  \/ \E a \in All : ServerStarts(a) \/ BrowserStarts(a) \/ Dies(a) \/ Crash(a)
  \/ Hang \/ KillScript

HarnessSpec == HarnessInit /\ [][HarnessNext]_vars
\* The shell runs, timeout fires, and started processes start.
HarnessFairSpec ==
  /\ HarnessSpec
  /\ WF_vars(ScriptStep) /\ WF_vars(Timeout)
  /\ \A a \in All : WF_vars(ServerStarts(a)) /\ WF_vars(BrowserStarts(a))

-----------------------------------------------------------------------------
(* Properties *)

\* The script exits 0 only if the page of this attempt reached its pass, even
\* when the driver exits 0 without having seen it.
CertifiedMeansPass == pc = "ended" /\ status = 0 => page = "pass"

\* An attempt that passes tested its own server and its own browser, not
\* those of an earlier attempt (the readiness loops of run.sh).
CertifiesOwnProcesses ==
  pc = "ended" /\ status = 0 => origin = [web |-> attempt, browser |-> attempt]

\* What an attempt that passes tested is its own, or was left behind by a
\* script that was killed: cleanup leaves nothing for a later attempt to find,
\* whatever crashed, hung or was refused.
CertifiesOwnOrOrphaned ==
  pc = "ended" /\ status = 0 =>
    origin.web \in killed \cup {attempt} /\ origin.browser \in killed \cup {attempt}

\* An attempt that ends leaves no server, no browser, no descendant of the
\* browser and no used port behind.
NothingLeaks ==
  pc = "ended" =>
    /\ server[attempt] = "gone" /\ web # attempt
    /\ leader[attempt] \in {"none", "gone"} /\ attempt \notin helpers
    /\ debug # attempt

\* The script waits for an answer of a listener that gives none.
Held == \/ pc = "awaitServer" /\ "web" \in hung
        \/ pc = "awaitBrowser" /\ "debug" \in hung

\* Every attempt ends, unless a listener accepts curl and does not answer: the
\* driver's wait is bounded by the wall clock, the other waits by their loops.
AttemptEnds == pc \notin Over ~> pc \in Over \/ Held
=============================================================================
