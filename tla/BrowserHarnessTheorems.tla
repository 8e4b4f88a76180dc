------------------------ MODULE BrowserHarnessTheorems ------------------------
(***************************************************************************)
(* What a run of the DevTools client leaves on disk and exits with, for    *)
(* any number of refusals, failed writes and closed connections and any    *)
(* order of the browser's messages; and what an attempt of run.sh          *)
(* certifies and leaves behind, for any number of attempts and faults.     *)
(***************************************************************************)
EXTENDS BrowserHarness, SequenceTheorems, TLAPS

Answer(i) == inbox[i].kind \in {"reply", "error"}
Final == {"pass", "fail", "missing"}

\* An answer in the queue is that of the request main() waits for, and there is
\* no other.
Answers ==
  \A i \in 1..Len(inbox) : Answer(i) =>
    /\ driver.waiting /\ command = "none"
    /\ \A j \in 1..Len(inbox) : Answer(j) => i = j

\* Nothing comes after the close, and the browser works on nothing then.
Closing ==
  /\ socket # "open" => command = "none"
  /\ driver.pc \in {"discover", "open"} => socket = "none"
  /\ \A i \in 1..Len(inbox) : inbox[i].kind = "close" =>
       i = Len(inbox) /\ socket = "closing"

Protocol == TypeOK /\ Answers /\ Closing

Judged == driver.pc = "closeTarget" /\ ~driver.threw

\* The page that was awaited is final, and what main() holds is what it shows.
Evidence ==
  /\ \A i \in 1..Len(inbox) :
       inbox[i].kind = "reply" /\ driver.pc \in {"evaluate", "capture"} =>
         /\ inbox[i].status = IF driver.pc = "evaluate" THEN Verdict ELSE page
         /\ page \in Final
  /\ driver.pc \in {"capture", "writeDom", "writeResult"} \/ Judged =>
       driver.result = Verdict /\ page \in Final
  /\ driver.pc \in {"writeDom", "writeResult"} => driver.seen = page
  /\ driver.pc = "writeResult" \/ Judged => dom = page
  /\ Judged => driver.result = "pass"
  /\ dom # "none" => /\ driver.pc \in {"writeResult", "closeTarget", "over"}
                     /\ dom = page /\ driver.result = Verdict /\ page \in Final

\* How the process can have ended, and what an exception leads to.
Ending ==
  /\ driver.exit = "ok" => (dom = "pass" /\ page = "pass") \/ socket = "closed"
  /\ driver.threw => driver.pc \in {"closeTarget", "over"}

-----------------------------------------------------------------------------
USE DEF Requests, After, Pcs, Statuses, Final, Verdict

\* The driver has not started anything.
LEMMA InitHolds == Init => Protocol /\ Evidence /\ Ending
<1> SUFFICES ASSUME Init PROVE Protocol /\ Evidence /\ Ending
  OBVIOUS
<1>1. driver \in DriverType /\ driver.pc = "discover" /\ driver.waiting = FALSE
      /\ driver.exit = "running" /\ driver.threw = FALSE
  BY DEF Init, NewDriver, DriverType
<1>2. inbox \in Seq(Messages) /\ Len(inbox) = 0
  BY DEF Init
<1>3. TypeOK
  <2>1. faults \in 0..MaxFaults
    BY DriverAssumption DEF Init
  <2>2. \A m, n \in 1..Len(inbox) : FALSE
    BY <1>2
  <2>3. socket = "none" /\ command = "none" /\ page = "blank" /\ dom = "none"
        /\ loaded = FALSE
    BY DEF Init
  <2> QED
    BY <1>1, <1>2, <2>1, <2>2, <2>3 DEF TypeOK
<1> QED
  BY <1>1, <1>2, <1>3 DEF Init, Protocol, Answers, Closing, Evidence, Ending, Judged

\* The next message, and the messages left.
LEMMA Received ==
  ASSUME TypeOK, NEW kind, Receive(kind)
  PROVE  /\ inbox' \in Seq(Messages) /\ Len(inbox') = Len(inbox) - 1
         /\ Len(inbox) \in Nat \ {0} /\ 1 \in 1..Len(inbox)
         /\ inbox[1] = Head(inbox) /\ inbox[1].kind = kind
         /\ \A i \in 1..Len(inbox') : inbox'[i] = inbox[i + 1]
         /\ \A i \in 1..Len(inbox') : i + 1 \in 1..Len(inbox) /\ i + 1 # 1
<1>1. inbox \in Seq(Messages) /\ inbox # <<>>
  BY DEF TypeOK, Receive
<1>2. inbox' = Tail(inbox) /\ Head(inbox).kind = kind
  BY DEF Receive
<1>3. Len(inbox) \in Nat \ {0} /\ inbox[1] = Head(inbox)
  BY <1>1
<1>4. inbox' \in Seq(Messages) /\ Len(inbox') = Len(inbox) - 1
      /\ \A i \in 1..Len(inbox') : inbox'[i] = inbox[i + 1]
  BY <1>1, <1>2, HeadTailProperties
<1> QED
  BY <1>2, <1>3, <1>4

\* A message that is put in the queue comes last.
LEMMA Queued ==
  ASSUME TypeOK, NEW m \in Messages, inbox' = Append(inbox, m)
  PROVE  /\ inbox' \in Seq(Messages) /\ Len(inbox') = Len(inbox) + 1
         /\ Len(inbox) \in Nat /\ inbox'[Len(inbox')] = m
         /\ \A i \in 1..Len(inbox') : i = Len(inbox') \/ i \in 1..Len(inbox)
         /\ \A i \in 1..Len(inbox) : inbox'[i] = inbox[i] /\ i # Len(inbox')
<1>1. inbox \in Seq(Messages)
  BY DEF TypeOK
<1>2. inbox' \in Seq(Messages) /\ Len(inbox') = Len(inbox) + 1
      /\ inbox'[Len(inbox) + 1] = m
      /\ \A i \in 1..Len(inbox) : inbox'[i] = inbox[i]
  BY <1>1, AppendProperties
<1>3. Len(inbox) \in Nat
  BY <1>1
<1> QED
  BY <1>2, <1>3

\* An exception keeps the record of the driver in shape.
LEMMA Thrown ==
  ASSUME NEW d \in DriverType, d.exit = "running"
  PROVE  /\ Throw(d) \in DriverType /\ Throw(d).waiting = FALSE
         /\ Throw(d).exit # "running" <=> Throw(d).pc = "over"
         /\ Throw(d).pc \in {"closeTarget", "over"}
         /\ Throw(d).pc = "closeTarget" => Throw(d).threw
         /\ Throw(d).exit \in {"running", "error"}
         /\ Throw(d).result = d.result
BY DEF Throw, Exit, DriverType

\* The process ends.
LEMMA Exited ==
  ASSUME NEW d \in DriverType, NEW code \in {"ok", "error"}
  PROVE  /\ Exit(d, code) \in DriverType /\ Exit(d, code).waiting = FALSE
         /\ Exit(d, code).exit = code /\ Exit(d, code).pc = "over"
         /\ Exit(d, code).result = d.result
BY DEF Exit, DriverType

-----------------------------------------------------------------------------
(* main() *)

Inv == Protocol /\ Evidence /\ Ending

\* While main() waits for no reply there is none, and nothing to answer.
LEMMA NothingAsked ==
  ASSUME Protocol, ~driver.waiting
  PROVE  command = "none" /\ \A i \in 1..Len(inbox) : ~Answer(i)
BY DEF Protocol, TypeOK, Answers

\* main() goes on by itself: the browser and its messages are not touched.
LEMMA Goes ==
  ASSUME Protocol, ~driver.waiting, UNCHANGED <<command, page, loaded, inbox>>,
         driver' \in DriverType, driver'.waiting = FALSE,
         driver'.exit # "running" <=> driver'.pc = "over",
         socket' \in {"none", "open", "closing", "closed"},
         socket' = socket \/ (socket' = "open" /\ socket = "none"),
         driver'.pc \in {"discover", "open"} => socket' = "none",
         dom' \in Statuses \cup {"none"}, faults' \in 0..MaxFaults
  PROVE  Protocol'
<1>1. command = "none" /\ \A i \in 1..Len(inbox) : ~Answer(i)
  BY NothingAsked
<1>2. TypeOK'
  BY <1>1 DEF Protocol, TypeOK, Answer
<1>3. Answers' /\ Closing'
  BY <1>1 DEF Protocol, Answers, Answer, Closing
<1> QED
  BY <1>2, <1>3 DEF Protocol

\* Connecting fails, or leads to the next call.
LEMMA ConnectStep == Inv /\ Running /\ (Connect \/ ConnectFails) => Inv'
<1> SUFFICES ASSUME Protocol, Evidence, Ending, Running, Connect \/ ConnectFails
             PROVE  Inv'
  BY DEF Inv
<1>1. driver \in DriverType /\ driver.pc \in {"discover", "open"} /\ ~driver.waiting
      /\ driver.exit = "running" /\ faults \in 0..MaxFaults
  BY DEF Protocol, TypeOK, Connect, ConnectFails, Running
<1>2. driver' \in DriverType /\ driver'.waiting = FALSE
      /\ (driver'.exit # "running" <=> driver'.pc = "over")
      /\ driver'.pc \in {"open", "createTarget", "over"}
      /\ driver'.exit \in {"running", "error"} /\ driver'.threw = driver.threw
      /\ UNCHANGED <<command, page, loaded, inbox, dom>>
  <2>1. CASE Connect
    BY <1>1, <2>1 DEF Connect, DriverType, Browser
  <2>2. CASE ConnectFails
    BY <1>1, <2>2 DEF ConnectFails, DriverType, Browser, Exit
  <2> QED
    BY <2>1, <2>2
<1>3. socket' \in {"none", "open", "closing", "closed"}
      /\ (socket' = socket \/ (socket' = "open" /\ socket = "none"))
      /\ (driver'.pc \in {"discover", "open"} => socket' = "none")
      /\ faults' \in 0..MaxFaults /\ dom' \in Statuses \cup {"none"}
  BY <1>1, <1>2, DriverAssumption
  DEF Protocol, TypeOK, Closing, Connect, ConnectFails, Healthy, Fault, DriverType
<1>4. dom' = "none" /\ ~driver'.threw
  BY <1>1, <1>2 DEF Evidence, Ending
<1>5. Protocol'
  BY <1>1, <1>2, <1>3, Goes
<1>6. Evidence'
  BY <1>2, <1>4 DEF Evidence, Judged
<1>7. Ending'
  BY <1>2, <1>4 DEF Ending
<1> QED
  BY <1>5, <1>6, <1>7 DEF Inv

\* A request is sent, or dropped on a socket that is not open.
LEMMA SendStep == Inv /\ Send => Inv'
<1> SUFFICES ASSUME Protocol, Evidence, Ending, Send PROVE Inv'
  BY DEF Inv
<1>1. driver \in DriverType /\ driver.pc \in Requests /\ ~driver.waiting
      /\ driver.exit = "running"
  BY DEF Send, Protocol, TypeOK
<1>2. driver' \in DriverType /\ driver'.waiting /\ driver'.pc = driver.pc
      /\ driver'.exit = driver.exit /\ driver'.threw = driver.threw
      /\ driver'.result = driver.result /\ driver'.seen = driver.seen
  BY <1>1 DEF Send, DriverType
<1>3. command = "none" /\ \A i \in 1..Len(inbox) : ~Answer(i)
  BY <1>1, NothingAsked
<1>4. /\ UNCHANGED <<socket, inbox, page, loaded, dom, faults>>
      /\ command' \in {"none", driver.pc} /\ (socket # "open" => command' = "none")
  BY <1>3 DEF Send, Healthy
<1>5. Protocol'
  <2>1. TypeOK'
    BY <1>1, <1>2, <1>3, <1>4 DEF Protocol, TypeOK, Answer
  <2>2. Answers' /\ Closing'
    BY <1>1, <1>2, <1>3, <1>4 DEF Protocol, Answers, Answer, Closing
  <2> QED
    BY <2>1, <2>2 DEF Protocol
<1>6. Evidence' /\ Ending'
  BY <1>2, <1>4 DEF Evidence, Ending, Judged
<1> QED
  BY <1>5, <1>6 DEF Inv

\* The load event was there.
LEMMA LoadedStep == Inv /\ Loaded => Inv'
<1> SUFFICES ASSUME Protocol, Evidence, Ending, Loaded PROVE Inv'
  BY DEF Inv
<1>1. driver \in DriverType /\ driver.pc = "load" /\ ~driver.waiting
      /\ driver.exit = "running"
  BY DEF Loaded, Protocol, TypeOK
<1>2. driver' \in DriverType /\ driver'.waiting = FALSE /\ driver'.pc = "evaluate"
      /\ driver'.exit = "running" /\ driver'.threw = driver.threw
  BY <1>1 DEF Loaded, DriverType
<1>3. UNCHANGED <<command, page, loaded, socket, inbox, dom, faults>>
  BY DEF Loaded, Healthy, Browser
<1>4. Protocol'
  <2>1. /\ socket \in {"none", "open", "closing", "closed"}
        /\ dom \in Statuses \cup {"none"} /\ faults \in 0..MaxFaults
    BY DEF Protocol, TypeOK
  <2> QED
    BY <1>1, <1>2, <1>3, <2>1, Goes
<1>5. \A i \in 1..Len(inbox) : ~Answer(i)
  BY <1>1, NothingAsked
<1>6. dom = "none" /\ ~driver.threw
  BY <1>1 DEF Evidence, Ending
<1>7. Evidence' /\ Ending'
  BY <1>2, <1>3, <1>5, <1>6 DEF Evidence, Ending, Judged, Answer
<1> QED
  BY <1>4, <1>7 DEF Inv

\* The snapshot and the result are written and judged, or writing fails.
LEMMA WriteStep == Inv /\ Running /\ (Write \/ WriteFails) => Inv'
<1> SUFFICES ASSUME Protocol, Evidence, Ending, Running, Write \/ WriteFails
             PROVE  Inv'
  BY DEF Inv
<1>1. driver \in DriverType /\ driver.pc \in {"writeDom", "writeResult"}
      /\ ~driver.waiting /\ driver.exit = "running"
  BY DEF Write, WriteFails, Protocol, TypeOK, Running
<1>2. UNCHANGED <<command, page, loaded, socket, inbox>>
  BY DEF Write, WriteFails, Browser
<1>3. faults' \in 0..MaxFaults
  BY DriverAssumption DEF Protocol, TypeOK, Write, WriteFails, Healthy, Fault
<1>4. \A i \in 1..Len(inbox) : ~Answer(i)
  BY <1>1, NothingAsked
<1>5. driver.result = Verdict /\ page \in Final /\ driver.seen = page /\ ~driver.threw
      /\ dom \in {"none", page}
  BY <1>1 DEF Evidence, Ending
<1>6. ASSUME driver' \in DriverType, driver'.waiting = FALSE,
             (driver'.exit # "running") <=> (driver'.pc = "over"),
             driver'.pc \in {"writeResult", "closeTarget", "over"}, dom' \in {"none", page}
      PROVE  Protocol'
  <2>1. socket' \in {"none", "open", "closing", "closed"} /\ socket' = socket
        /\ dom' \in Statuses \cup {"none"}
    BY <1>2, <1>5, <1>6 DEF Protocol, TypeOK
  <2> QED
    BY <1>1, <1>2, <1>3, <1>6, <2>1, Goes
<1>7. CASE driver.pc = "writeDom" /\ Write
  <2>1. driver' \in DriverType /\ driver'.waiting = FALSE /\ driver'.pc = "writeResult"
        /\ driver'.exit = "running" /\ driver'.threw = driver.threw
        /\ driver'.result = driver.result /\ driver'.seen = driver.seen /\ dom' = page
    BY <1>1, <1>5, <1>7 DEF Write, DriverType
  <2>2. Protocol'
    BY <1>6, <2>1
  <2>3. Evidence' /\ Ending'
    BY <1>2, <1>4, <1>5, <2>1 DEF Evidence, Ending, Judged, Answer
  <2> QED
    BY <2>2, <2>3 DEF Inv
<1>8. CASE driver' = Throw(driver) /\ UNCHANGED dom
  <2>1. driver' \in DriverType /\ driver'.waiting = FALSE
        /\ (driver'.exit # "running" <=> driver'.pc = "over")
        /\ driver'.pc \in {"closeTarget", "over"}
        /\ (driver'.pc = "closeTarget" => driver'.threw)
        /\ driver'.exit \in {"running", "error"} /\ driver'.result = driver.result
    BY <1>1, <1>8, Thrown
  <2>2. Protocol'
    BY <1>5, <1>6, <1>8, <2>1
  <2>3. Evidence' /\ Ending'
    BY <1>2, <1>5, <1>8, <2>1 DEF Evidence, Ending, Judged
  <2> QED
    BY <2>2, <2>3 DEF Inv
<1>9. CASE driver.pc = "writeResult" /\ driver.result = "pass" /\ Write
  <2>1. driver' \in DriverType /\ driver'.waiting = FALSE /\ driver'.pc = "closeTarget"
        /\ driver'.exit = "running" /\ driver'.threw = driver.threw
        /\ driver'.result = driver.result /\ dom' = dom
    BY <1>1, <1>9 DEF Write, DriverType
  <2>2. Protocol'
    BY <1>5, <1>6, <2>1
  <2>3. dom = page
    BY <1>9 DEF Evidence
  <2>4. Evidence' /\ Ending'
    BY <1>2, <1>5, <1>9, <2>1, <2>3 DEF Evidence, Ending, Judged
  <2> QED
    BY <2>2, <2>4 DEF Inv
<1> QED
  BY <1>1, <1>7, <1>8, <1>9 DEF Write, WriteFails

-----------------------------------------------------------------------------
(* The browser and the page *)

\* The browser answers what it was asked, and the page moves towards a verdict.
LEMMA ReplyStep == Inv /\ (Reply \/ Refuse) => Inv'
<1> SUFFICES ASSUME Protocol, Evidence, Ending, Reply \/ Refuse PROVE Inv'
  BY DEF Inv
<1>1. PICK m \in Messages :
        /\ inbox' = Append(inbox, m) /\ m.kind \in {"reply", "error"}
        /\ m.kind = "reply" => m.status = Status
                               /\ (command = "evaluate" => page \in Final)
  <2>1. [kind |-> "reply", status |-> Status] \in Messages /\ [kind |-> "error"] \in Messages
    BY DEF Messages, Protocol, TypeOK, Status
  <2> QED
    BY <2>1 DEF Reply, Refuse, Settled
<1>2. /\ UNCHANGED <<driver, socket, loaded, dom>> /\ socket = "open"
      /\ command # "none" /\ command' = "none" /\ faults' \in 0..MaxFaults
      /\ page' \in Statuses /\ (page # "blank" => page' = page)
      /\ (command # "navigate" => page' = page)
  BY DriverAssumption DEF Reply, Refuse, Navigate, Healthy, Fault, Protocol, TypeOK
<1>3. driver.waiting /\ command = driver.pc
  BY <1>2 DEF Protocol, TypeOK
<1>4. \A i \in 1..Len(inbox) : ~Answer(i)
  BY <1>2 DEF Protocol, Answers
<1>5. /\ inbox' \in Seq(Messages) /\ Len(inbox') = Len(inbox) + 1
      /\ Len(inbox) \in Nat /\ inbox'[Len(inbox')] = m
      /\ \A i \in 1..Len(inbox') : i = Len(inbox') \/ i \in 1..Len(inbox)
      /\ \A i \in 1..Len(inbox) : inbox'[i] = inbox[i] /\ i # Len(inbox')
  BY <1>1, Queued DEF Protocol
<1>6. \A i \in 1..Len(inbox') : Answer(i)' => i = Len(inbox')
  BY <1>4, <1>5 DEF Answer
<1>7. Protocol'
  <2>1. TypeOK'
    BY <1>2, <1>3, <1>5, <1>6 DEF Protocol, TypeOK, Answer
  <2>2. Answers'
    BY <1>2, <1>3, <1>6 DEF Answers
  <2>3. Closing'
    BY <1>1, <1>2, <1>5 DEF Protocol, Closing
  <2> QED
    BY <2>1, <2>2, <2>3 DEF Protocol
<1>8. Evidence'
  <2>1. driver.pc = "capture" => page \in Final
    BY DEF Evidence
  <2>2. driver.pc \in {"evaluate", "capture"} => page' = page
    BY <1>2, <1>3
  <2>3. \A i \in 1..Len(inbox') :
          inbox'[i].kind = "reply" /\ driver.pc \in {"evaluate", "capture"} =>
            /\ inbox'[i].status = IF driver.pc = "evaluate" THEN Verdict ELSE page
            /\ page \in Final
    BY <1>1, <1>2, <1>3, <1>5, <1>6, <2>1, <2>2 DEF Answer, Status
  <2>4. page \in Final => page' = page
    BY <1>2
  <2> QED
    BY <1>2, <2>2, <2>3, <2>4 DEF Evidence, Judged
<1>9. Ending'
  BY <1>2 DEF Ending
<1> QED
  BY <1>7, <1>8, <1>9 DEF Inv

\* Events of the browser: the page has loaded, or the connection is gone.
LEMMA EventStep == Inv /\ (FireLoad \/ Disconnect) => Inv'
<1> SUFFICES ASSUME Protocol, Evidence, Ending, FireLoad \/ Disconnect PROVE Inv'
  BY DEF Inv
<1>1. PICK m \in Messages :
        /\ inbox' = Append(inbox, m) /\ m.kind \in {"load", "close"}
        /\ m.kind = "load" => socket' = socket /\ command' = command
        /\ m.kind = "close" => socket' = "closing" /\ command' = "none"
  <2>1. [kind |-> "load"] \in Messages /\ [kind |-> "close"] \in Messages
    BY DEF Messages
  <2> QED
    BY <2>1 DEF FireLoad, Disconnect
<1>2. /\ UNCHANGED <<driver, dom>> /\ socket = "open"
      /\ faults' \in 0..MaxFaults /\ loaded' \in BOOLEAN
      /\ page' \in Statuses /\ (page # "blank" => page' = page)
  <2>1. faults \in 0..MaxFaults /\ loaded \in BOOLEAN /\ page \in Statuses
    BY DEF Protocol, TypeOK
  <2>2. CASE FireLoad
    <3>1. page' \in IF page = "blank" THEN {"running", "missing"} ELSE {page}
      BY <2>2 DEF FireLoad, Navigate
    <3>2. UNCHANGED <<driver, dom, faults>> /\ socket = "open" /\ loaded' = TRUE
      BY <2>2 DEF FireLoad, Healthy
    <3> QED
      BY <2>1, <3>1, <3>2
  <2>3. CASE Disconnect
    BY <2>1, <2>3, DriverAssumption DEF Disconnect, Fault
  <2> QED
    BY <2>2, <2>3
<1>3. /\ inbox' \in Seq(Messages) /\ Len(inbox') = Len(inbox) + 1
      /\ Len(inbox) \in Nat /\ inbox'[Len(inbox')] = m
      /\ \A i \in 1..Len(inbox') : i = Len(inbox') \/ i \in 1..Len(inbox)
      /\ \A i \in 1..Len(inbox) : inbox'[i] = inbox[i] /\ i # Len(inbox')
  BY <1>1, Queued DEF Protocol
<1>4. \A i \in 1..Len(inbox') : Answer(i)' => i \in 1..Len(inbox) /\ Answer(i)
  BY <1>1, <1>3 DEF Answer
<1>5. Protocol'
  <2>1. TypeOK'
    <3>1. \A k, n \in 1..Len(inbox') : Answer(k)' /\ Answer(n)' => k = n
      BY <1>4 DEF Protocol, Answers
    <3> QED
      BY <1>1, <1>2, <1>3, <3>1 DEF Protocol, TypeOK, Answer
  <2>2. Answers'
    BY <1>1, <1>2, <1>4 DEF Protocol, Answers
  <2>3. Closing'
    BY <1>1, <1>2, <1>3 DEF Protocol, Closing
  <2> QED
    BY <2>1, <2>2, <2>3 DEF Protocol
<1>6. Evidence'
  <2>1. \A i \in 1..Len(inbox') :
          inbox'[i].kind = "reply" => i \in 1..Len(inbox) /\ inbox'[i] = inbox[i]
    BY <1>3, <1>4 DEF Answer
  <2>2. page \in Final => page' = page
    BY <1>2
  <2> QED
    BY <1>2, <2>1, <2>2 DEF Evidence, Judged
<1>7. Ending'
  <2>1. page = "pass" => page' = page
    BY <1>2
  <2> QED
    BY <1>2, <2>1 DEF Ending
<1> QED
  BY <1>5, <1>6, <1>7 DEF Inv

\* The page gets its verdict.
LEMMA SettleStep == Inv /\ Settle => Inv'
<1> SUFFICES ASSUME Protocol, Evidence, Ending, Settle PROVE Inv'
  BY DEF Inv
<1>1. /\ UNCHANGED <<driver, socket, command, inbox, loaded, dom, faults>>
      /\ page = "running" /\ page' \in Final
  BY DEF Settle, Healthy
<1>2. TypeOK' /\ Answers' /\ Closing'
  BY <1>1 DEF Protocol, TypeOK, Answers, Answer, Closing
<1>3. Evidence' /\ Ending'
  BY <1>1 DEF Evidence, Ending, Judged
<1> QED
  BY <1>2, <1>3 DEF Protocol, Inv

-----------------------------------------------------------------------------
(* Event handlers *)

\* The one answer is handled; main() goes on, throws or ends.
LEMMA AnswerStep == Inv /\ Running /\ (OnReply \/ OnError) => Inv'
<1> SUFFICES ASSUME Protocol, Evidence, Ending, Running, OnReply \/ OnError
             PROVE  Inv'
  BY DEF Inv
<1>1. PICK kind \in {"reply", "error"} :
        Receive(kind) /\ (kind = "reply" => OnReply) /\ (kind = "error" => OnError)
  BY DEF OnReply, OnError
<1>2. /\ inbox' \in Seq(Messages) /\ Len(inbox') = Len(inbox) - 1
      /\ Len(inbox) \in Nat \ {0} /\ 1 \in 1..Len(inbox)
      /\ inbox[1] = Head(inbox) /\ inbox[1].kind = kind
      /\ \A i \in 1..Len(inbox') : inbox'[i] = inbox[i + 1]
      /\ \A i \in 1..Len(inbox') : i + 1 \in 1..Len(inbox) /\ i + 1 # 1
  BY <1>1, Received DEF Protocol
<1>3. /\ driver.waiting /\ command = "none"
      /\ \A j \in 1..Len(inbox) : Answer(j) => j = 1
  BY <1>1, <1>2 DEF Protocol, Answers, Answer
<1>4. \A i \in 1..Len(inbox') : ~Answer(i)'
  BY <1>2, <1>3 DEF Answer
<1>5. UNCHANGED <<command, page, loaded, socket, dom, faults>>
  BY DEF OnReply, OnError, Healthy, Browser
<1>6. driver \in DriverType /\ driver.pc \in Requests /\ driver.exit = "running"
      /\ page \in Statuses
  BY <1>3 DEF Protocol, TypeOK, Running
<1>7. ASSUME driver' \in DriverType, driver'.waiting = FALSE,
             (driver'.exit # "running") <=> (driver'.pc = "over"),
             driver'.pc \notin {"discover", "open"}
      PROVE  Protocol'
  <2>1. TypeOK'
    BY <1>2, <1>3, <1>4, <1>5, <1>7 DEF Protocol, TypeOK, Answer
  <2>2. Answers' /\ Closing'
    BY <1>2, <1>4, <1>5, <1>7 DEF Protocol, Answers, Closing
  <2> QED
    BY <2>1, <2>2 DEF Protocol
<1>8. driver.pc # "closeTarget" => ~driver.threw
  BY <1>6 DEF Ending
<1>9. CASE kind = "error" /\ driver.pc # "closeTarget"
  <2>1. driver' = Throw(driver)
    BY <1>1, <1>9 DEF OnError
  <2>2. driver' \in DriverType /\ driver'.waiting = FALSE
        /\ (driver'.exit # "running" <=> driver'.pc = "over")
        /\ driver'.pc \in {"closeTarget", "over"}
        /\ (driver'.pc = "closeTarget" => driver'.threw)
        /\ driver'.exit \in {"running", "error"} /\ driver'.result = driver.result
    BY <1>6, <2>1, Thrown
  <2>3. Protocol'
    BY <1>7, <2>2
  <2>4. dom # "none" => driver.pc \in {"writeResult", "closeTarget", "over"}
    BY DEF Evidence
  <2>5. Evidence' /\ Ending'
    BY <1>4, <1>5, <1>6, <1>9, <2>2, <2>4 DEF Evidence, Ending, Judged, Answer
  <2> QED
    BY <2>3, <2>5 DEF Inv
<1>10. CASE driver.pc = "closeTarget"
  <2>1. PICK d \in DriverType : driver' = Finished(d) /\ d.threw = driver.threw
                                /\ d.result = driver.result
    <3>1. CASE kind = "error"
      BY <1>1, <1>6, <1>10, <3>1 DEF OnError
    <3>2. CASE kind = "reply"
      <4> DEFINE d == [driver EXCEPT !.waiting = FALSE, !.pc = "over"]
      <4>1. d \in DriverType /\ d.threw = driver.threw /\ d.result = driver.result
        BY <1>6 DEF DriverType
      <4>2. After[driver.pc] = "over"
        BY <1>10
      <4>3. driver' = Finished(d)
        BY <1>1, <1>10, <3>2, <4>2 DEF OnReply
      <4> HIDE DEF d
      <4> QED
        BY <4>1, <4>3
    <3> QED
      BY <3>1, <3>2
  <2>2. PICK code \in {"ok", "error"} :
          driver' = Exit(d, code) /\ (code = "ok" => ~driver.threw)
    BY <2>1 DEF Finished
  <2>3. driver' \in DriverType /\ driver'.waiting = FALSE /\ driver'.exit = code
        /\ driver'.pc = "over" /\ driver'.result = driver.result
    <3>1. /\ Exit(d, code) \in DriverType /\ Exit(d, code).waiting = FALSE
          /\ Exit(d, code).exit = code /\ Exit(d, code).pc = "over"
          /\ Exit(d, code).result = d.result
      BY Exited, Zenon
    <3> QED
      BY <2>1, <2>2, <3>1
  <2>4. Protocol'
    BY <1>7, <2>3
  <2>5. Evidence'
    BY <1>4, <1>5, <2>3 DEF Evidence, Judged, Answer
  <2>6. Ending'
    BY <1>5, <1>10, <2>2, <2>3 DEF Ending, Evidence, Judged
  <2> QED
    BY <2>4, <2>5, <2>6 DEF Inv
<1>11. CASE kind = "reply" /\ driver.pc # "closeTarget"
  <2> DEFINE code == Head(inbox).status
             next == After[driver.pc]
  <2>1. OnReply
    BY <1>1, <1>11
  <2>2. next \in {"attach", "pageEnable", "runtimeEnable", "navigate", "load",
                  "capture", "writeDom"}
        /\ (next = "capture" <=> driver.pc = "evaluate")
        /\ (next = "writeDom" <=> driver.pc = "capture")
    BY <1>6, <1>11
  <2>3. driver.pc \in {"evaluate", "capture"} =>
          /\ code = IF driver.pc = "evaluate" THEN Verdict ELSE page
          /\ page \in Final
    BY <1>2, <1>11 DEF Evidence
  <2>4. /\ driver' \in DriverType /\ driver'.waiting = FALSE /\ driver'.pc = next
        /\ driver'.exit = "running" /\ driver'.threw = driver.threw
        /\ driver'.result = IF driver.pc = "evaluate" THEN Verdict ELSE driver.result
        /\ driver.pc = "capture" => driver'.seen = page
    <3> DEFINE d == [driver EXCEPT !.waiting = FALSE, !.pc = next]
    <3>1. /\ d \in DriverType /\ d.waiting = FALSE /\ d.pc = next
          /\ d.exit = "running" /\ d.threw = driver.threw /\ d.result = driver.result
      <4>1. next \in Pcs
        BY <2>2
      <4> HIDE DEF next
      <4> QED
        BY <1>6, <4>1 DEF DriverType
    <3>2. \/ driver' = [d EXCEPT !.target = TRUE] /\ driver.pc = "createTarget"
          \/ driver' = [d EXCEPT !.result = code] /\ driver.pc = "evaluate"
          \/ driver' = [d EXCEPT !.seen = code] /\ driver.pc = "capture"
          \/ driver' = d /\ driver.pc \notin {"evaluate", "capture"}
      BY <1>11, <2>1 DEF OnReply
    <3> HIDE DEF d, next, code
    <3>3. CASE driver' = [d EXCEPT !.target = TRUE] /\ driver.pc = "createTarget"
      BY <3>1, <3>3 DEF DriverType
    <3>4. CASE driver' = [d EXCEPT !.result = code] /\ driver.pc = "evaluate"
      BY <1>6, <2>3, <3>1, <3>4 DEF DriverType
    <3>5. CASE driver' = [d EXCEPT !.seen = code] /\ driver.pc = "capture"
      BY <1>6, <2>3, <3>1, <3>5 DEF DriverType
    <3>6. CASE driver' = d /\ driver.pc \notin {"evaluate", "capture"}
      BY <3>1, <3>6
    <3> QED
      BY <3>2, <3>3, <3>4, <3>5, <3>6
  <2> HIDE DEF next
  <2>5. Protocol'
    BY <1>7, <2>2, <2>4
  <2>6. dom = "none" /\ ~driver.threw
    BY <1>6, <1>8, <1>11 DEF Evidence
  <2>7. driver.pc = "capture" => driver.result = Verdict
    BY DEF Evidence
  <2>8. Evidence' /\ Ending'
    BY <1>4, <1>5, <2>2, <2>3, <2>4, <2>6, <2>7 DEF Evidence, Ending, Judged, Answer
  <2> QED
    BY <2>5, <2>8 DEF Inv
<1> QED
  BY <1>1, <1>9, <1>10, <1>11

\* A waiter that is there sees the load event.
LEMMA LoadEventStep == Inv /\ OnLoad => Inv'
<1> SUFFICES ASSUME Protocol, Evidence, Ending, OnLoad PROVE Inv'
  BY DEF Inv
<1>1. /\ inbox' \in Seq(Messages) /\ Len(inbox') = Len(inbox) - 1
      /\ Len(inbox) \in Nat \ {0}
      /\ \A i \in 1..Len(inbox') : inbox'[i] = inbox[i + 1]
      /\ \A i \in 1..Len(inbox') : i + 1 \in 1..Len(inbox) /\ i + 1 # 1
  BY Received DEF Protocol, OnLoad
<1>2. driver \in DriverType
  BY DEF Protocol, TypeOK
<1>3. /\ driver' \in DriverType /\ driver'.waiting = driver.waiting
      /\ driver'.pc = driver.pc /\ driver'.exit = driver.exit
      /\ driver'.threw = driver.threw /\ driver'.result = driver.result
      /\ driver'.seen = driver.seen
  BY <1>2 DEF OnLoad, DriverType
<1>4. UNCHANGED <<command, page, loaded, socket, dom, faults>>
  BY DEF OnLoad, Healthy, Browser
<1>5. Protocol'
  <2>1. TypeOK'
    <3>1. \A k, n \in 1..Len(inbox') : Answer(k)' /\ Answer(n)' => k = n
      <4> SUFFICES ASSUME NEW k \in 1..Len(inbox'), NEW n \in 1..Len(inbox'),
                          Answer(k)', Answer(n)'
                   PROVE  k = n
        OBVIOUS
      <4>1. k + 1 = n + 1
        BY <1>1 DEF Answer, Protocol, Answers
      <4> QED
        BY <1>1, <4>1
    <3> QED
      BY <1>1, <1>3, <1>4, <3>1 DEF Protocol, TypeOK, Answer
  <2>2. Answers'
    <3>1. \A k, n \in 1..Len(inbox') : Answer(k)' /\ Answer(n)' => k = n
      BY <2>1 DEF TypeOK, Answer
    <3> QED
      BY <1>1, <1>3, <1>4, <3>1 DEF Protocol, Answers, Answer
  <2>3. Closing'
    BY <1>1, <1>3, <1>4 DEF Protocol, Closing
  <2> QED
    BY <2>1, <2>2, <2>3 DEF Protocol
<1>6. Evidence' /\ Ending'
  BY <1>1, <1>3, <1>4 DEF Evidence, Ending, Judged
<1> QED
  BY <1>5, <1>6 DEF Inv

\* The close rejects what main() waits for; Node ends when nothing is left.
LEMMA CloseStep == Inv /\ Running /\ (OnClose \/ RunsDry) => Inv'
<1> SUFFICES ASSUME Protocol, Evidence, Ending, Running, OnClose \/ RunsDry
             PROVE  Inv'
  BY DEF Inv
<1>1. driver \in DriverType /\ driver.exit = "running" /\ driver.pc # "over"
  BY DEF Protocol, TypeOK, Running
<1>2. UNCHANGED <<command, page, loaded, dom, faults>>
  BY DEF OnClose, RunsDry, Healthy, Browser
<1>3. inbox' \in Seq(Messages) /\ Len(inbox') = 0 /\ socket' = "closed"
      /\ command = "none" /\ driver.pc \notin {"discover", "open"}
  <2>1. CASE OnClose
    <3>1. /\ inbox' \in Seq(Messages) /\ Len(inbox') = Len(inbox) - 1
          /\ Len(inbox) \in Nat \ {0} /\ 1 \in 1..Len(inbox) /\ inbox[1].kind = "close"
      BY <2>1, Received DEF Protocol, OnClose
    <3>2. Len(inbox) = 1 /\ socket = "closing"
      BY <3>1 DEF Protocol, Closing
    <3> QED
      BY <2>1, <3>1, <3>2 DEF OnClose, Protocol, Closing
  <2>2. CASE RunsDry
    BY <2>2 DEF RunsDry, Protocol, Closing
  <2> QED
    BY <2>1, <2>2
<1>4. ASSUME driver' \in DriverType, driver'.waiting = FALSE,
             (driver'.exit # "running") <=> (driver'.pc = "over"),
             driver'.pc \notin {"discover", "open"}
      PROVE  Protocol'
  <2>1. TypeOK'
    BY <1>2, <1>3, <1>4 DEF Protocol, TypeOK
  <2>2. Answers' /\ Closing'
    BY <1>2, <1>3, <1>4 DEF Protocol, Answers, Closing
  <2> QED
    BY <2>1, <2>2 DEF Protocol
<1>5. ASSUME NEW d \in DriverType, d.exit = "running", driver' = Throw(d),
             d.result = driver.result, driver.pc # "closeTarget"
      PROVE  Inv'
  <2>1. driver' \in DriverType /\ driver'.waiting = FALSE
        /\ (driver'.exit # "running" <=> driver'.pc = "over")
        /\ driver'.pc \in {"closeTarget", "over"}
        /\ (driver'.pc = "closeTarget" => driver'.threw)
        /\ driver'.result = driver.result
    BY <1>5, Thrown
  <2>2. Protocol'
    BY <1>4, <2>1
  <2>3. Evidence' /\ Ending'
    BY <1>2, <1>3, <2>1 DEF Evidence, Ending, Judged
  <2> QED
    BY <2>2, <2>3 DEF Inv
<1>6. ASSUME NEW d \in DriverType, NEW code \in {"ok", "error"},
             driver' = Exit(d, code), d.result = driver.result
      PROVE  Inv'
  <2>1. driver' \in DriverType /\ driver'.waiting = FALSE /\ driver'.exit = code
        /\ driver'.pc = "over" /\ driver'.result = driver.result
    BY <1>6, Exited
  <2>2. Protocol'
    BY <1>4, <2>1
  <2>3. Evidence' /\ Ending'
    BY <1>2, <1>3, <2>1 DEF Evidence, Ending, Judged
  <2> QED
    BY <2>2, <2>3 DEF Inv
<1>7. CASE RunsDry
  BY <1>1, <1>6, <1>7 DEF RunsDry
<1>8. CASE OnClose
  <2> DEFINE waiter == IF driver.waiter = "armed" THEN "none" ELSE driver.waiter
             d == [driver EXCEPT !.waiter = waiter]
  <2>1. /\ d \in DriverType /\ d.exit = "running" /\ d.result = driver.result
        /\ d.pc = driver.pc /\ d.waiting = driver.waiting /\ d.threw = driver.threw
        /\ d.seen = driver.seen
    BY <1>1 DEF DriverType
  <2>2. \/ driver' = Exit(d, "error")
        \/ driver' = Finished(d)
        \/ driver' = Throw(d) /\ driver.pc # "closeTarget"
        \/ driver' = d /\ ~driver.waiting
    BY <1>8 DEF OnClose
  <2> HIDE DEF d, waiter
  <2>3. CASE driver' = Exit(d, "error")
    BY <1>6, <2>1, <2>3
  <2>4. CASE driver' = Finished(d)
    BY <1>6, <2>1, <2>4 DEF Finished
  <2>5. CASE driver' = Throw(d) /\ driver.pc # "closeTarget"
    BY <1>5, <2>1, <2>5
  <2>6. CASE driver' = d /\ ~driver.waiting
    <3>1. Protocol'
      <4>1. driver.waiting \in BOOLEAN
        BY <1>1 DEF DriverType
      <4>2. driver'.waiting = FALSE /\ driver'.exit = "running"
        BY <2>1, <2>6, <4>1
      <4>3. driver'.pc # "over" /\ driver'.pc \notin {"discover", "open"}
            /\ driver' \in DriverType
        BY <1>1, <1>3, <2>1, <2>6
      <4> QED
        BY <1>4, <4>2, <4>3
    <3>2. Evidence' /\ Ending'
      BY <1>1, <1>2, <1>3, <2>1, <2>6 DEF Evidence, Ending, Judged
    <3> QED
      BY <3>1, <3>2 DEF Inv
  <2> QED
    BY <2>2, <2>3, <2>4, <2>5, <2>6
<1> QED
  BY <1>7, <1>8

-----------------------------------------------------------------------------
(* Theorems *)

\* Every step keeps the invariant.
LEMMA InvStep == Inv /\ [Next]_driverVars => Inv'
<1>1. Inv /\ UNCHANGED driverVars => Inv'
  BY DEF driverVars, Inv, Protocol, TypeOK, Answers, Answer, Closing, Evidence, Ending, Judged
<1> QED
  BY <1>1, ConnectStep, SendStep, LoadedStep, WriteStep, ReplyStep, EventStep,
     SettleStep, AnswerStep, LoadEventStep, CloseStep
  DEF Next, DriverStep, BrowserStep, FaultStep

\* The invariant holds of every run of the driver.
LEMMA Inductive == Spec => []Inv
<1>1. Init => Inv
  BY InitHolds DEF Inv
<1> QED
  BY <1>1, InvStep, PTL DEF Spec

\* One request at a time is waited for and has at most one answer in the queue
\* (DevToolsClient.pending), in every reachable state.
THEOREM TypeCorrect == Spec => []TypeOK
<1>1. Inv => TypeOK
  BY DEF Inv, Protocol
<1> QED
  BY <1>1, Inductive, PTL

\* The snapshot on disk shows the verdict that was awaited and judged, or a page
\* without #result, which is judged a failure, in any order of load events,
\* replies, errors and the close (driver.mjs's evaluated expression and capture).
THEOREM Snapshot == Spec => []SnapshotShowsVerdict
<1>1. Inv => SnapshotShowsVerdict
  BY DEF Inv, Evidence, Settled, SnapshotShowsVerdict
<1> QED
  BY <1>1, Inductive, PTL

\* The driver exits 0 with the pass on disk, or after its connection closed.
THEOREM SuccessfulExit == Spec => []OkMeansPassOrClosed
<1>1. Inv => OkMeansPassOrClosed
  BY DEF Inv, Ending, OkMeansPassOrClosed
<1> QED
  BY <1>1, Inductive, PTL

-----------------------------------------------------------------------------
(* The harness: its invariant *)

\* Nothing of an attempt exists before the script has started it.
Unborn ==
  /\ pc = "idle" <=> attempt = 0
  /\ \A a \in All : a > attempt => server[a] = "none" /\ leader[a] = "none"
  /\ \A a \in helpers : leader[a] # "none"
  /\ pc \in {"awaitServer", "startBrowser"} => leader[attempt] = "none"

\* Nothing of attempt a is left.
Clean(a) == /\ server[a] = "gone" /\ web # a
            /\ leader[a] \in {"none", "gone"} /\ a \notin helpers /\ debug # a

\* What cleanup has removed by now, in this attempt and in the earlier ones.
Cleaned ==
  /\ pc \in {"stopServer", "ended"} =>
       leader[attempt] \in {"none", "gone"} /\ attempt \notin helpers
  /\ pc = "ended" => server[attempt] = "gone"
  /\ pc = "killed" => attempt \in killed
  /\ \A a \in All : a < attempt /\ a \notin killed => Clean(a)

Ours == killed \cup {attempt}

\* What the driver has used is ours, and a page that was loaded came from what
\* it used.
Used ==
  /\ origin.web \in Ours \cup {0} /\ origin.browser \in Ours \cup {0}
  /\ driver.pc \notin {"discover", "over"} => origin.browser # 0
  /\ page # "blank" => origin.web # 0 /\ origin.browser # 0

\* From the judgement on, a status of 0 stands for a pass in the snapshot.
Accepted ==
  pc \in {"cleanup", "grace", "stopServer", "ended"} /\ status = 0 => dom = "pass"

Housekeeping == ScriptTypeOK /\ Unborn /\ Cleaned
HarnessInv == Inv /\ Housekeeping /\ Used /\ Accepted

-----------------------------------------------------------------------------
(* The driver's invariant under the harness *)

\* A driver that has not started, whatever went wrong before.
Fresh ==
  /\ driver = NewDriver
  /\ socket = "none" /\ command = "none" /\ inbox = <<>>
  /\ page = "blank" /\ loaded = FALSE /\ dom = "none"
  /\ faults \in 0..MaxFaults

LEMMA FreshHolds == Fresh => Inv
<1> SUFFICES ASSUME Fresh PROVE Inv
  OBVIOUS
<1>1. driver \in DriverType /\ driver.pc = "discover" /\ driver.waiting = FALSE
      /\ driver.exit = "running" /\ driver.threw = FALSE
  BY DEF Fresh, NewDriver, DriverType
<1>2. inbox \in Seq(Messages) /\ Len(inbox) = 0
  BY DEF Fresh
<1>3. TypeOK
  <2>1. \A m, n \in 1..Len(inbox) : FALSE
    BY <1>2
  <2> QED
    BY <1>1, <1>2, <2>1 DEF Fresh, TypeOK
<1> QED
  BY <1>1, <1>2, <1>3 DEF Fresh, Inv, Protocol, Answers, Closing, Evidence, Ending, Judged

LEMMA BeginDriver == Inv /\ Begin => Inv'
<1>1. Inv /\ Begin => Fresh'
  BY DEF Begin, Fresh, Inv, Protocol, TypeOK
<1>2. Fresh' => Inv'
  BY FreshHolds, PTL
<1> QED
  BY <1>1, <1>2

\* Of the driver's state, at most the count of faults changes.
LEMMA FaultsDriver ==
  ASSUME Inv, UNCHANGED <<driver, socket, command, inbox, page, loaded, dom>>,
         faults' \in 0..MaxFaults
  PROVE  Inv'
BY DEF Inv, Protocol, TypeOK, Answers, Answer, Closing, Evidence, Ending, Judged

LEMMA FaultCounted ==
  ASSUME Inv, Fault \/ UNCHANGED faults
  PROVE  faults' \in 0..MaxFaults
BY DriverAssumption DEF Fault, Inv, Protocol, TypeOK

\* The wall clock ends the driver, whatever it waits for.
LEMMA TimeoutDriver == Inv /\ Timeout => Inv'
<1> SUFFICES ASSUME Protocol, Evidence, Ending, Timeout PROVE Inv'
  BY DEF Inv
<1>1. driver \in DriverType /\ driver.exit = "running"
  BY DEF Protocol, TypeOK, Timeout, Running
<1>2. /\ driver' \in DriverType /\ driver'.waiting = FALSE /\ driver'.exit = "timeout"
      /\ driver'.pc = "over" /\ driver'.result = driver.result
  BY <1>1 DEF Timeout, Exit, DriverType
<1>3. /\ socket' = "closed" /\ command' = "none"
      /\ inbox' \in Seq(Messages) /\ Len(inbox') = 0
      /\ UNCHANGED <<page, loaded, dom, faults>>
  BY DEF Timeout
<1>4. TypeOK' /\ Answers' /\ Closing'
  BY <1>2, <1>3 DEF Protocol, TypeOK, Answers, Closing
<1>5. Evidence' /\ Ending'
  BY <1>2, <1>3 DEF Evidence, Ending, Judged
<1> QED
  BY <1>4, <1>5 DEF Inv, Protocol

\* A browser that dies closes its connection.
LEMMA CrashDriver == ASSUME Inv, NEW a \in All, Crash(a) PROVE Inv'
<1>1. CASE UNCHANGED <<socket, command, inbox>>
  <2>1. UNCHANGED <<driver, page, loaded, dom>> /\ Fault
    BY DEF Crash
  <2> QED
    BY <1>1, <2>1, FaultsDriver, FaultCounted
<1>2. CASE socket = "open" /\ socket' = "closing" /\ command' = "none"
           /\ inbox' = Append(inbox, [kind |-> "close"])
  <2>1. Disconnect
    BY <1>2 DEF Crash, Disconnect
  <2> QED
    BY <2>1, EventStep
<1> QED
  BY <1>1, <1>2 DEF Crash

\* The driver and the browser go on as they do without a harness.
LEMMA DrivingDriver == Inv /\ (Driving \/ Browsing) => Inv'
BY ConnectStep, SendStep, LoadedStep, WriteStep, ReplyStep, EventStep, SettleStep,
   AnswerStep, LoadEventStep, CloseStep
DEF Driving, Browsing, DriverStep, BrowserStep

\* Every step of the harness keeps the invariant of the driver.
LEMMA DriverInvStep == Inv /\ [HarnessNext]_vars => Inv'
<1> SUFFICES ASSUME Inv, [HarnessNext]_vars PROVE Inv'
  OBVIOUS
<1>1. ASSUME UNCHANGED <<driver, socket, command, inbox, page, loaded, dom>>,
             Fault \/ UNCHANGED faults
      PROVE  Inv'
  BY <1>1, FaultsDriver, FaultCounted
<1>2. CASE UNCHANGED driverVars
  BY <1>1, <1>2 DEF driverVars
<1>3. CASE AwaitServer \/ AwaitBrowser
  <2>1. Fault \/ UNCHANGED faults
    BY <1>3 DEF AwaitServer, AwaitBrowser, Await
  <2> QED
    BY <1>1, <1>3, <2>1 DEF AwaitServer, AwaitBrowser, Await, Browser
<1>4. CASE Hang \/ KillScript
  BY <1>1, <1>4 DEF Hang, KillScript, Browser
<1>5. CASE StartBrowser \/ Judge \/ Terminate \/ Kill \/ StopServer
  BY <1>2, <1>5 DEF StartBrowser, Judge, Terminate, Kill, StopServer, DriverKept
<1>6. ASSUME NEW a \in All, ServerStarts(a) \/ BrowserStarts(a) \/ Dies(a)
      PROVE  Inv'
  BY <1>2, <1>6 DEF ServerStarts, BrowserStarts, Dies, DriverKept
<1>7. CASE UNCHANGED vars
  BY <1>2, <1>7 DEF vars
<1> QED
  BY <1>3, <1>4, <1>5, <1>6, <1>7, BeginDriver, TimeoutDriver, CrashDriver, DrivingDriver
  DEF HarnessNext, ScriptStep

-----------------------------------------------------------------------------
(* What exists, and what is cleaned up *)

USE DEF Over, All, Life

\* The script moves on, and starts or removes nothing.
LEMMA Moves ==
  ASSUME Housekeeping, UNCHANGED <<attempt, Processes, origin, killed>>,
         pc' \in {"startBrowser", "awaitBrowser", "drive", "cleanup", "grace"},
         pc' = "startBrowser" => pc = "awaitServer",
         pc # "idle", status' \in {0, 1}
  PROVE  Housekeeping'
BY DEF Housekeeping, ScriptTypeOK, Unborn, Cleaned, Clean, Processes

\* Driver, browser and page: the script waits.
LEMMA Waits ==
  ASSUME Housekeeping, UNCHANGED <<attempt, pc, status, server, leader, helpers, web, debug>>,
         killed' = killed, hung' \subseteq {"web", "debug"},
         origin' \in [web : 0..Attempts, browser : 0..Attempts]
  PROVE  Housekeeping'
BY DEF Housekeeping, ScriptTypeOK, Unborn, Cleaned, Clean

\* A new attempt finds the earlier ones cleaned up, or killed.
LEMMA BeginKeeps == Housekeeping /\ Begin => Housekeeping'
<1> SUFFICES ASSUME ScriptTypeOK, Unborn, Cleaned, Begin PROVE Housekeeping'
  BY DEF Housekeeping
<1>1. attempt \in Nat /\ Attempts \in Nat /\ attempt' = attempt + 1 /\ attempt' \in All
      /\ attempt < Attempts
  BY HarnessAssumption DEF ScriptTypeOK, Begin
<1>2. /\ server' = [server EXCEPT ![attempt'] = "starting"] /\ pc' = "awaitServer"
      /\ UNCHANGED <<leader, helpers, web, debug, hung, killed>>
      /\ origin' = [web |-> 0, browser |-> 0] /\ status' = 0
  BY DEF Begin
<1>3. server[attempt'] = "none" /\ leader[attempt'] = "none"
  BY <1>1 DEF Unborn
<1>4. ScriptTypeOK'
  BY <1>1, <1>2, <1>3 DEF ScriptTypeOK
<1>5. Unborn'
  BY <1>1, <1>2, <1>3 DEF Unborn, ScriptTypeOK
<1>6. ASSUME NEW a \in All, a < attempt', a \notin killed PROVE Clean(a)'
  <2>1. Clean(a)
    <3>1. CASE a < attempt
      BY <1>6, <3>1 DEF Cleaned
    <3>2. CASE a = attempt
      <4>1. pc = "ended"
        BY <1>1, <1>6, <3>2 DEF Begin, Unborn, Cleaned
      <4> QED
        BY <1>1, <3>2, <4>1 DEF Cleaned, Clean, ScriptTypeOK
    <3> QED
      BY <1>1, <1>6, <3>1, <3>2
  <2> QED
    BY <1>1, <1>2, <1>6, <2>1 DEF Clean, ScriptTypeOK
<1>7. Cleaned'
  BY <1>2, <1>6 DEF Cleaned
<1> QED
  BY <1>4, <1>5, <1>7 DEF Housekeeping

\* A browser's process ends, and its port is free.
LEMMA LeaderEnds ==
  ASSUME Housekeeping, NEW a \in All, LeaderGone(a),
         leader[a] # "none" \/ (pc = "grace" /\ a = attempt),
         helpers' \in {helpers, helpers \ {a}},
         UNCHANGED <<attempt, status, server, web, origin, killed>>,
         \/ pc' = pc
         \/ pc = "grace" /\ pc' = "stopServer" /\ a = attempt /\ attempt \notin helpers'
  PROVE  Housekeeping'
<1>1. /\ leader' = [leader EXCEPT ![a] = "gone"] /\ leader \in [All -> Life]
      /\ debug' \in {0, debug} /\ (debug = a => debug' = 0)
      /\ hung' \subseteq hung
  BY DEF LeaderGone, Housekeeping, ScriptTypeOK
<1>2. ScriptTypeOK'
  BY <1>1, HarnessAssumption DEF Housekeeping, ScriptTypeOK
<1>3. Unborn'
  BY <1>1 DEF Housekeeping, ScriptTypeOK, Unborn
<1>4. Cleaned'
  BY <1>1 DEF Housekeeping, ScriptTypeOK, Unborn, Cleaned, Clean
<1> QED
  BY <1>2, <1>3, <1>4 DEF Housekeeping

\* A server's process ends, and its port is free.
LEMMA ServerEnds ==
  ASSUME Housekeeping, NEW a \in All, ServerGone(a),
         server[a] # "none" \/ (pc = "stopServer" /\ a = attempt),
         UNCHANGED <<attempt, status, leader, helpers, debug, origin, killed>>,
         \/ pc' = pc
         \/ pc = "stopServer" /\ pc' = "ended" /\ a = attempt
  PROVE  Housekeeping'
<1>1. /\ server' = [server EXCEPT ![a] = "gone"] /\ server \in [All -> Life]
      /\ web' \in {0, web} /\ (web = a => web' = 0)
      /\ hung' \subseteq hung
  BY DEF ServerGone, Housekeeping, ScriptTypeOK
<1>2. ScriptTypeOK'
  BY <1>1, HarnessAssumption DEF Housekeeping, ScriptTypeOK
<1>3. Unborn'
  BY <1>1 DEF Housekeeping, ScriptTypeOK, Unborn
<1>4. Cleaned'
  BY <1>1 DEF Housekeeping, ScriptTypeOK, Unborn, Cleaned, Clean
<1> QED
  BY <1>2, <1>3, <1>4 DEF Housekeeping

\* A browser is started: by the script, or the process itself gets to run.
LEMMA BrowserBegins ==
  ASSUME Housekeeping, NEW a \in All, (StartBrowser /\ a = attempt) \/ BrowserStarts(a)
  PROVE  Housekeeping'
<1>1. attempt \in 0..Attempts /\ Attempts \in Nat
  BY HarnessAssumption DEF Housekeeping, ScriptTypeOK
<1>2. CASE StartBrowser /\ a = attempt
  <2>1. /\ leader' = [leader EXCEPT ![a] = "starting"] /\ leader[a] = "none"
        /\ pc' = "awaitBrowser" /\ a = attempt
        /\ UNCHANGED <<attempt, status, server, helpers, web, debug, hung, origin, killed>>
    BY <1>2 DEF StartBrowser, DriverKept, Housekeeping, Unborn
  <2> QED
    BY <1>1, <2>1 DEF Housekeeping, ScriptTypeOK, Unborn, Cleaned, Clean
<1>3. CASE BrowserStarts(a)
  <2>1. /\ leader[a] = "starting" /\ leader' = [leader EXCEPT ![a] = "up"]
        /\ helpers' = helpers \cup {a} /\ debug' \in {debug, a}
        /\ UNCHANGED <<attempt, pc, status, server, web, hung, origin, killed>>
    BY <1>3 DEF BrowserStarts, DriverKept
  <2>2. ScriptTypeOK'
    BY <1>1, <2>1 DEF Housekeeping, ScriptTypeOK
  <2>3. Unborn'
    BY <1>1, <2>1 DEF Housekeeping, ScriptTypeOK, Unborn
  <2>4. ~(a < attempt /\ a \notin killed) /\ (a = attempt => pc \notin {"stopServer", "ended"})
    BY <2>1 DEF Housekeeping, Cleaned, Clean
  <2>5. Cleaned'
    BY <1>1, <2>1, <2>4 DEF Housekeeping, ScriptTypeOK, Cleaned, Clean
  <2> QED
    BY <2>2, <2>3, <2>5 DEF Housekeeping
<1> QED
  BY <1>2, <1>3

\* A server gets to run, and binds the port or ends.
LEMMA ServerBegins ==
  ASSUME Housekeeping, NEW a \in All, ServerStarts(a)
  PROVE  Housekeeping'
<1>1. attempt \in 0..Attempts /\ Attempts \in Nat
  BY HarnessAssumption DEF Housekeeping, ScriptTypeOK
<1>2. /\ server[a] = "starting" /\ server' = [server EXCEPT ![a] = IF web = 0 THEN "up" ELSE "gone"]
      /\ web' = IF web = 0 THEN a ELSE web
      /\ UNCHANGED <<attempt, pc, status, leader, helpers, debug, hung, origin, killed>>
  BY DEF ServerStarts, DriverKept
<1>3. ~(a < attempt /\ a \notin killed) /\ (a = attempt => pc # "ended")
  BY <1>2 DEF Housekeeping, Cleaned, Clean
<1>4. ScriptTypeOK'
  BY <1>1, <1>2 DEF Housekeeping, ScriptTypeOK
<1>5. Unborn' /\ Cleaned'
  BY <1>1, <1>2, <1>3 DEF Housekeeping, ScriptTypeOK, Unborn, Cleaned, Clean
<1> QED
  BY <1>4, <1>5 DEF Housekeeping

\* What the driver is served from is a listener there is.
LEMMA OriginTyped ==
  ASSUME ScriptTypeOK, Driving \/ Browsing
  PROVE  origin' \in [web : 0..Attempts, browser : 0..Attempts]
<1>1. /\ origin \in [web : 0..Attempts, browser : 0..Attempts]
      /\ web \in 0..Attempts /\ debug \in 0..Attempts
  BY DEF ScriptTypeOK
<1>2. origin' \in {origin, [origin EXCEPT !.browser = debug], [origin EXCEPT !.web = web]}
  BY DEF Driving, Browsing
<1> QED
  BY <1>1, <1>2

\* The script is killed: its attempt is one of those that may leave something.
LEMMA KillKeeps == Housekeeping /\ KillScript => Housekeeping'
<1> SUFFICES ASSUME Housekeeping, KillScript PROVE Housekeeping'
  OBVIOUS
<1>1. /\ UNCHANGED <<attempt, status, server, leader, helpers, web, debug, hung, origin>>
      /\ pc' = "killed" /\ pc # "idle" /\ killed' = killed \cup {attempt}
  BY DEF KillScript, Processes
<1>2. attempt \in All
  BY <1>1, HarnessAssumption DEF Housekeeping, ScriptTypeOK, Unborn
<1> QED
  BY <1>1, <1>2 DEF Housekeeping, ScriptTypeOK, Unborn, Cleaned, Clean

\* Every step keeps account of what exists.
LEMMA HousekeepingStep == Housekeeping /\ [HarnessNext]_vars => Housekeeping'
<1> SUFFICES ASSUME Housekeeping, [HarnessNext]_vars PROVE Housekeeping'
  OBVIOUS
<1>1. attempt \in 0..Attempts /\ Attempts \in Nat /\ status \in {0, 1}
      /\ (pc # "idle" => attempt \in All) /\ ScriptTypeOK
  BY HarnessAssumption DEF Housekeeping, ScriptTypeOK, Unborn
<1>2. CASE AwaitServer
  <2>1. pc' \in {"startBrowser", "cleanup"} /\ status' \in {0, 1} /\ pc = "awaitServer"
        /\ UNCHANGED <<attempt, Processes, origin, killed>>
    BY <1>1, <1>2 DEF AwaitServer, Await, Fail
  <2> QED
    BY <2>1, Moves
<1>3. CASE AwaitBrowser
  <2>1. pc' \in {"drive", "cleanup"} /\ status' \in {0, 1} /\ pc = "awaitBrowser"
        /\ UNCHANGED <<attempt, Processes, origin, killed>>
    BY <1>1, <1>3 DEF AwaitBrowser, Await, Fail
  <2> QED
    BY <2>1, Moves
<1>4. CASE Judge
  <2>1. pc' = "cleanup" /\ status' \in {0, 1} /\ pc = "drive"
        /\ UNCHANGED <<attempt, Processes, origin, killed>>
    BY <1>4 DEF Judge, DriverKept
  <2> QED
    BY <2>1, Moves
<1>5. CASE Terminate
  <2>1. pc = "cleanup" /\ UNCHANGED <<attempt, status, Processes, origin, killed>>
    BY <1>5 DEF Terminate, DriverKept
  <2>2. CASE leader[attempt] # "none"
    BY <1>1, <1>5, <2>1, <2>2, Moves DEF Terminate
  <2>3. CASE leader[attempt] = "none"
    <3>1. pc' = "stopServer" /\ attempt \notin helpers
      BY <1>5, <2>3 DEF Terminate, Housekeeping, Unborn
    <3> QED
      BY <2>1, <2>3, <3>1 DEF Housekeeping, ScriptTypeOK, Unborn, Cleaned, Clean, Processes
  <2> QED
    BY <2>2, <2>3
<1>6. CASE Kill
  BY <1>1, <1>6, LeaderEnds DEF Kill, DriverKept
<1>7. CASE StopServer
  BY <1>1, <1>7, ServerEnds DEF StopServer, DriverKept
<1>8. ASSUME NEW a \in All, Dies(a) PROVE Housekeeping'
  <2>1. UNCHANGED <<attempt, pc, status, server, web, origin, killed>> /\ pc = "grace"
        /\ a = attempt
    BY <1>8 DEF Dies, DriverKept
  <2>2. CASE LeaderGone(a) /\ UNCHANGED helpers
    BY <2>1, <2>2, LeaderEnds
  <2>3. CASE helpers' = helpers \ {a} /\ UNCHANGED <<leader, debug, hung>>
    BY <2>1, <2>3 DEF Housekeeping, ScriptTypeOK, Unborn, Cleaned, Clean
  <2> QED
    BY <1>8, <2>2, <2>3 DEF Dies
<1>9. ASSUME NEW a \in All, Crash(a) PROVE Housekeeping'
  <2>1. UNCHANGED <<attempt, pc, status, origin, killed>>
    BY <1>9 DEF Crash
  <2>2. CASE ServerGone(a) /\ server[a] \in {"starting", "up"}
             /\ UNCHANGED <<leader, debug, helpers>>
    <3>1. server[a] # "none" /\ pc' = pc
          /\ UNCHANGED <<attempt, status, leader, helpers, debug, origin, killed>>
      BY <2>1, <2>2
    <3> QED
      BY <2>2, <3>1, ServerEnds
  <2>3. CASE LeaderGone(a) /\ leader[a] \in {"starting", "up"}
             /\ UNCHANGED <<server, web, helpers>>
    <3>1. leader[a] # "none" /\ pc' = pc /\ helpers' \in {helpers, helpers \ {a}}
          /\ UNCHANGED <<attempt, status, server, web, origin, killed>>
      BY <2>1, <2>3
    <3> QED
      BY <2>3, <3>1, LeaderEnds
  <2> QED
    BY <1>9, <2>2, <2>3 DEF Crash
<1>10. CASE Driving \/ Browsing
  BY <1>1, <1>10, OriginTyped, Waits
  DEF Driving, Browsing, Processes, Housekeeping, ScriptTypeOK
<1>11. CASE Timeout \/ Hang \/ UNCHANGED vars
  BY <1>1, <1>11, Waits DEF Timeout, Hang, vars, scriptVars, ScriptTypeOK
<1> QED
  BY <1>1, <1>2, <1>3, <1>4, <1>5, <1>6, <1>7, <1>8, <1>9, <1>10, <1>11,
     BeginKeeps, BrowserBegins, ServerBegins, KillKeeps
  DEF HarnessNext, ScriptStep, StartBrowser

-----------------------------------------------------------------------------
(* What is certified *)

\* Whoever listens belongs to this attempt or to one whose script was killed.
LEMMA ListenersAreOurs ==
  ASSUME Housekeeping
  PROVE  web \in Ours \cup {0} /\ debug \in Ours \cup {0}
BY HarnessAssumption DEF Housekeeping, ScriptTypeOK, Unborn, Cleaned, Clean, Ours

\* The page leaves "blank" only when it is navigated to.
LEMMA Navigates ==
  ASSUME Inv, BrowserStep, page = "blank", page' # "blank"
  PROVE  command = "navigate" /\ driver.pc = "navigate"
<1>1. command = "navigate"
  BY DEF BrowserStep, Reply, FireLoad, Settle, Navigate
<1> QED
  BY <1>1 DEF Inv, Protocol, TypeOK

\* The driver's own steps leave "discover" only by discovering a listener.
LEMMA DrivingUsed == HarnessInv /\ Driving => Used'
<1> SUFFICES ASSUME HarnessInv, Driving PROVE Used'
  OBVIOUS
<1>1. UNCHANGED <<attempt, killed, page>>
  <2>1. CASE Refuse \/ ConnectFails \/ WriteFails
    BY <2>1 DEF Driving, Refuse, ConnectFails, WriteFails, Browser
  <2>2. CASE DriverStep
    BY <2>2 DEF Driving, DriverStep, Connect, Send, Loaded, Write, OnReply, OnError,
                OnLoad, OnClose, RunsDry, Browser
  <2> QED
    BY <2>1, <2>2 DEF Driving
<1>2. origin \in [web : 0..Attempts, browser : 0..Attempts] /\ Used
  BY DEF HarnessInv, Housekeeping, ScriptTypeOK
<1>3. CASE driver.pc = "discover" /\ origin' = [origin EXCEPT !.browser = debug]
           /\ debug # 0
  BY <1>1, <1>2, <1>3, ListenersAreOurs DEF HarnessInv, Used, Ours
<1>4. CASE driver.pc # "discover" /\ UNCHANGED origin
  <2>1. driver.pc # "over"
    BY DEF Driving, Running, HarnessInv, Inv, Protocol, TypeOK
  <2> QED
    BY <1>1, <1>2, <1>4, <2>1 DEF Used, Ours
<1>5. CASE ConnectFails /\ UNCHANGED origin
  <2>1. driver'.pc = "over"
    BY <1>5 DEF ConnectFails, Exit, HarnessInv, Inv, Protocol, TypeOK, DriverType
  <2> QED
    BY <1>1, <1>2, <1>5, <2>1 DEF Used, Ours
<1>6. CASE (Refuse \/ WriteFails) /\ UNCHANGED origin
  <2>1. driver.pc # "discover"
    BY <1>6 DEF Refuse, WriteFails, HarnessInv, Inv, Protocol, TypeOK
  <2> QED
    BY <1>4, <1>6, <2>1
<1> QED
  BY <1>3, <1>4, <1>5, <1>6 DEF Driving

\* What is certified was used: on every step of the harness.
LEMMA UsedStep == HarnessInv /\ [HarnessNext]_vars => Used'
<1> SUFFICES ASSUME HarnessInv, [HarnessNext]_vars PROVE Used'
  OBVIOUS
<1>1. origin \in [web : 0..Attempts, browser : 0..Attempts] /\ Used
  BY DEF HarnessInv, Housekeeping, ScriptTypeOK
<1>2. ASSUME UNCHANGED <<attempt, origin, driver, page>>, killed \subseteq killed'
      PROVE  Used'
  BY <1>1, <1>2 DEF Used, Ours
<1>3. CASE Begin
  <2>1. driver' = NewDriver /\ page' = "blank" /\ origin' = [web |-> 0, browser |-> 0]
    BY <1>3 DEF Begin
  <2> QED
    BY <2>1 DEF Used, Ours, NewDriver
<1>4. CASE Timeout
  <2>1. driver'.pc = "over" /\ UNCHANGED <<page, attempt, origin, killed>>
    BY <1>4 DEF Timeout, Exit, scriptVars, HarnessInv, Inv, Protocol, TypeOK, DriverType
  <2> QED
    BY <1>1, <2>1 DEF Used, Ours
<1>5. CASE Browsing
  <2>1. UNCHANGED <<attempt, killed, driver>>
    BY <1>5 DEF Browsing, BrowserStep, Reply, FireLoad, Settle
  <2>2. CASE page = "blank" /\ page' # "blank"
    <3>1. command = "navigate" /\ driver.pc = "navigate"
      BY <1>5, <2>2, Navigates DEF Browsing, HarnessInv
    <3>2. origin' = [origin EXCEPT !.web = web] /\ web # 0
      BY <1>5, <2>2, <3>1 DEF Browsing
    <3>3. origin.browser # 0
      BY <1>1, <3>1 DEF Used
    <3> QED
      BY <1>1, <2>1, <2>2, <3>2, <3>3, ListenersAreOurs DEF HarnessInv, Used, Ours
  <2>3. CASE UNCHANGED origin /\ (page # "blank" \/ page' = page)
    BY <1>1, <2>1, <2>3 DEF Used, Ours
  <2> QED
    BY <1>5, <2>2, <2>3 DEF Browsing
<1>6. CASE AwaitServer \/ AwaitBrowser
  BY <1>2, <1>6 DEF AwaitServer, AwaitBrowser, Await, Browser
<1>7. CASE StartBrowser \/ Judge \/ Terminate \/ Kill \/ StopServer
  BY <1>2, <1>7 DEF StartBrowser, Judge, Terminate, Kill, StopServer, DriverKept, driverVars
<1>8. ASSUME NEW a \in All, ServerStarts(a) \/ BrowserStarts(a) \/ Dies(a) \/ Crash(a)
      PROVE  Used'
  BY <1>2, <1>8 DEF ServerStarts, BrowserStarts, Dies, Crash, DriverKept, driverVars
<1>9. CASE Hang \/ KillScript \/ UNCHANGED vars
  BY <1>2, <1>9 DEF Hang, KillScript, Browser, vars, scriptVars, driverVars
<1> QED
  BY <1>3, <1>4, <1>5, <1>6, <1>7, <1>8, <1>9, DrivingUsed DEF HarnessNext, ScriptStep

\* After the judgement nobody writes a snapshot or changes the status.
LEMMA AcceptedStep == HarnessInv /\ [HarnessNext]_vars => Accepted'
<1> SUFFICES ASSUME HarnessInv, [HarnessNext]_vars PROVE Accepted'
  OBVIOUS
<1>1. Accepted
  BY DEF HarnessInv
<1>2. CASE Begin \/ StartBrowser \/ KillScript
  BY <1>2 DEF Begin, StartBrowser, KillScript, Accepted
<1>3. CASE AwaitServer \/ AwaitBrowser
  BY <1>3 DEF AwaitServer, AwaitBrowser, Await, Fail, Accepted
<1>4. CASE Timeout \/ Driving \/ Browsing
  <2>1. pc = "drive" /\ pc' = pc
    BY <1>4 DEF Timeout, Driving, Browsing, scriptVars
  <2> QED
    BY <2>1 DEF Accepted
<1>5. CASE Judge
  BY <1>5 DEF Judge, DriverKept, driverVars, Accepted
<1>6. CASE Terminate \/ Kill \/ StopServer
  BY <1>1, <1>6 DEF Terminate, Kill, StopServer, DriverKept, driverVars, Accepted
<1>7. ASSUME NEW a \in All, ServerStarts(a) \/ BrowserStarts(a) \/ Dies(a) \/ Crash(a)
      PROVE  Accepted'
  BY <1>1, <1>7 DEF ServerStarts, BrowserStarts, Dies, Crash, DriverKept, driverVars, Accepted
<1>8. CASE Hang \/ UNCHANGED vars
  BY <1>1, <1>8 DEF Hang, vars, scriptVars, driverVars, Accepted
<1> QED
  BY <1>2, <1>3, <1>4, <1>5, <1>6, <1>7, <1>8 DEF HarnessNext, ScriptStep

-----------------------------------------------------------------------------
(* The harness: theorems *)

\* The invariant holds of every sequence of attempts.
LEMMA HarnessInductive == HarnessSpec => []HarnessInv
<1>1. HarnessInit => HarnessInv
  <2> SUFFICES ASSUME HarnessInit PROVE HarnessInv
    OBVIOUS
  <2>1. Inv
    BY InitHolds DEF HarnessInit, Inv
  <2>2. Housekeeping
    BY HarnessAssumption
    DEF HarnessInit, Housekeeping, ScriptTypeOK, Unborn, Cleaned
  <2>3. Used /\ Accepted
    BY DEF HarnessInit, Init, NewDriver, Used, Ours, Accepted
  <2> QED
    BY <2>1, <2>2, <2>3 DEF HarnessInv
<1>2. HarnessInv /\ [HarnessNext]_vars => HarnessInv'
  BY DriverInvStep, HousekeepingStep, UsedStep, AcceptedStep DEF HarnessInv
<1> QED
  BY <1>1, <1>2, PTL DEF HarnessSpec

\* Processes, ports and the driver are in one of their states, and a port in use
\* is that of a process that runs, in every attempt of run.sh.
THEOREM HarnessTypeCorrect == HarnessSpec => []HarnessTypeOK
<1>1. HarnessInv => HarnessTypeOK
  BY DEF HarnessInv, Inv, Protocol, Housekeeping, HarnessTypeOK
<1> QED
  BY <1>1, HarnessInductive, PTL

\* run.sh exits 0 only after the page of that attempt reached its pass, for any
\* number of crashes, hangs, refusals and kills.
THEOREM Certification == HarnessSpec => []CertifiedMeansPass
<1>1. HarnessInv => CertifiedMeansPass
  BY DEF HarnessInv, Accepted, Inv, Evidence, CertifiedMeansPass
<1> QED
  BY <1>1, HarnessInductive, PTL

\* What an attempt that passes has tested is its own, or an orphan of a killed
\* script: no attempt that ended by itself left anything to be mistaken for it.
THEOREM OwnOrOrphaned == HarnessSpec => []CertifiesOwnOrOrphaned
<1>1. HarnessInv => CertifiesOwnOrOrphaned
  <2> SUFFICES ASSUME HarnessInv, pc = "ended", status = 0
               PROVE  origin.web \in Ours /\ origin.browser \in Ours
    BY DEF CertifiesOwnOrOrphaned, Ours
  <2>1. page = "pass"
    BY DEF HarnessInv, Accepted, Inv, Evidence
  <2> QED
    BY <2>1 DEF HarnessInv, Used
<1> QED
  BY <1>1, HarnessInductive, PTL

\* An attempt that ends leaves no process and no used port (cleanup).
THEOREM CleanEnd == HarnessSpec => []NothingLeaks
<1>1. HarnessInv => NothingLeaks
  <2> SUFFICES ASSUME HarnessInv, pc = "ended" PROVE NothingLeaks
    BY DEF NothingLeaks
  <2>1. attempt # 0 /\ server[attempt] = "gone" /\ leader[attempt] \in {"none", "gone"}
        /\ attempt \notin helpers
    BY DEF HarnessInv, Housekeeping, Unborn, Cleaned
  <2> QED
    BY <2>1 DEF HarnessInv, Housekeeping, ScriptTypeOK, NothingLeaks
<1> QED
  BY <1>1, HarnessInductive, PTL

\* What the driver promises alone it promises under run.sh as well, where it is
\* started again, cut off and killed: the snapshot shows the verdict it judged,
\* and an exit with 0 is a pass or a closed connection.
THEOREM DriverInHarness == HarnessSpec => [](SnapshotShowsVerdict /\ OkMeansPassOrClosed)
<1>1. HarnessInv => SnapshotShowsVerdict /\ OkMeansPassOrClosed
  <2>1. HarnessInv => Inv
    BY DEF HarnessInv
  <2>2. Inv => SnapshotShowsVerdict
    BY DEF Inv, Evidence, Settled, SnapshotShowsVerdict
  <2>3. Inv => OkMeansPassOrClosed
    BY DEF Inv, Ending, OkMeansPassOrClosed
  <2> QED
    BY <2>1, <2>2, <2>3
<1> QED
  BY <1>1, HarnessInductive, PTL
=============================================================================
