----------------------------- MODULE DeviceAuth -----------------------------
(***************************************************************************)
(* The device authorization of the publisher in real time: authorize() of  *)
(* scripts/ops-create-meta-agent-repo-selfhosted.py.  Publisher abstracts  *)
(* the loop to a number of polls; this module keeps its clock.  GitHub     *)
(* (external) starts its own expiry when it issues the code, the script    *)
(* starts its deadline only after the invitation was posted.               *)
(***************************************************************************)
EXTENDS Naturals

CONSTANTS
  ExpiresIn,   \* life of the code, in units of the polling step
  Interval,    \* the polling interval GitHub asks for
  SlowStep,    \* what slow_down adds (5 s in the code)
  MaxPost,     \* bound: how long posting the invitation may take, one request
  MaxLatency,  \* bound: how long a request may take (timeout=30)
  MaxSlow      \* bound: slow_down replies

ASSUME DeviceAuthAssumption ==
  /\ ExpiresIn \in Nat \ {0} /\ Interval \in Nat \ {0}
  /\ SlowStep \in Nat \ {0}
  /\ MaxPost \in Nat /\ MaxLatency \in Nat /\ MaxSlow \in Nat
  /\ MaxPost <= MaxLatency

VARIABLES
  now,        \* the monotonic clock
  pc,         \* "post", "loop", "asleep", "request" or "end"
  deadline,   \* time.monotonic() + expires_in, once posted
  interval,   \* the interval of the next sleep
  wakeAt,     \* when the current sleep is over
  sentAt,     \* when the last poll was sent
  reply,      \* what GitHub decided when that poll arrived
  result,     \* how authorize() ended
  answer,     \* what the owner answered on GitHub's page
  \* history, read by the properties only
  answeredAt, \* when the owner answered
  slows,      \* slow_down replies so far
  slowSince,  \* a slow_down was sent after the answer
  gap         \* time between the last two polls (from the code's issue on)

vars == <<now, pc, deadline, interval, wakeAt, sentAt, reply, result, answer,
          answeredAt, slows, slowSince, gap>>

Results == {"none", "token", "denied", "expired", "error"}
Replies == {"none", "pending", "slow_down", "token", "denied", "expired"}

\* No poll is later than this.
Horizon == MaxPost + ExpiresIn + Interval + SlowStep * MaxSlow
           + MaxLatency

TypeOK ==
  /\ now \in 0..Horizon
  /\ pc \in {"post", "loop", "asleep", "request", "end"}
  /\ deadline \in 0..(MaxPost + ExpiresIn)
  /\ interval \in Interval..(Interval + SlowStep * MaxSlow)
  /\ wakeAt \in 0..Horizon /\ sentAt \in 0..Horizon /\ gap \in 0..Horizon
  /\ reply \in Replies
  /\ result \in Results
  /\ answer \in {"none", "approve", "deny"}
  /\ answeredAt \in 0..Horizon
  /\ slows \in 0..MaxSlow
  /\ slowSince \in BOOLEAN

Init ==
  /\ now = 0 /\ pc = "post" /\ deadline = 0 /\ interval = Interval
  /\ wakeAt = 0 /\ sentAt = 0 /\ reply = "none" /\ result = "none"
  /\ answer = "none" /\ answeredAt = 0
  /\ slows = 0 /\ slowSince = FALSE /\ gap = 0

End(r) == pc' = "end" /\ result' = r

\* add_comment returns (or raises); the deadline starts to run.
Posted ==
  /\ pc = "post"
  /\ \/ pc' = "loop" /\ deadline' = now + ExpiresIn /\ UNCHANGED result
     \/ End("error") /\ UNCHANGED deadline
  /\ UNCHANGED <<now, interval, wakeAt, sentAt, reply, answer, answeredAt,
                 slows, slowSince, gap>>

\* Mutant: the loop gives up when two intervals no longer fit.
LoopGivesUpEarly ==
  /\ pc = "loop"
  /\ IF now + 2 * Interval < deadline
     THEN pc' = "asleep" /\ wakeAt' = now + interval /\ UNCHANGED result
     ELSE End("expired") /\ UNCHANGED wakeAt
  /\ UNCHANGED <<now, deadline, interval, sentAt, reply, answer, answeredAt,
                 slows, slowSince, gap>>

\* Mutant: the deadline is not looked at any more.
LoopForever ==
  /\ pc = "loop"
  /\ pc' = "asleep" /\ wakeAt' = now + interval
  /\ UNCHANGED <<now, deadline, interval, sentAt, reply, result, answer,
                 answeredAt, slows, slowSince, gap>>

\* while time.monotonic() < deadline: time.sleep(interval)
Loop ==
  /\ pc = "loop"
  /\ IF now < deadline
     THEN pc' = "asleep" /\ wakeAt' = now + interval /\ UNCHANGED result
     ELSE End("expired") /\ UNCHANGED wakeAt
  /\ UNCHANGED <<now, deadline, interval, sentAt, reply, answer, answeredAt,
                 slows, slowSince, gap>>

\* GitHub decides when the poll arrives; it may ask to slow down at any poll.
Decides(r) ==
  \/ r = "slow_down" /\ slows < MaxSlow
  \/ r = "expired" /\ now >= ExpiresIn
  \/ r = "token" /\ now < ExpiresIn /\ answer = "approve"
  \/ r = "denied" /\ now < ExpiresIn /\ answer = "deny"
  \/ r = "pending" /\ now < ExpiresIn /\ answer = "none"

\* The sleep is over and the poll is sent.
Send ==
  /\ pc = "asleep" /\ now = wakeAt
  /\ pc' = "request"
  /\ reply' \in {r \in Replies : Decides(r)}
  /\ slowSince' = (slowSince \/ (reply' = "slow_down" /\ answer # "none"))
  /\ gap' = now - sentAt
  /\ sentAt' = now
  /\ UNCHANGED <<now, deadline, interval, wakeAt, result, answer, answeredAt,
                 slows>>

\* Mutant: slow_down is treated like authorization_pending.
ReceiveKeepingInterval ==
  /\ pc = "request"
  /\ \/ /\ reply \in {"pending", "slow_down"}
        /\ pc' = "loop" /\ UNCHANGED <<interval, result>>
     \/ /\ reply \in {"token", "denied", "expired"}
        /\ End(reply) /\ UNCHANGED interval
  /\ slows' = IF reply = "slow_down" THEN slows + 1 ELSE slows
  /\ UNCHANGED <<now, deadline, wakeAt, sentAt, reply, answer, answeredAt,
                 slowSince, gap>>

\* Mutant: every reply that is not final slows the loop down.
ReceiveBackingOff ==
  /\ pc = "request"
  /\ \/ /\ reply \in {"pending", "slow_down"}
        /\ pc' = "loop" /\ interval' = interval + SlowStep /\ UNCHANGED result
     \/ /\ reply \in {"token", "denied", "expired"}
        /\ End(reply) /\ UNCHANGED interval
  /\ slows' = IF reply = "slow_down" THEN slows + 1 ELSE slows
  /\ UNCHANGED <<now, deadline, wakeAt, sentAt, reply, answer, answeredAt,
                 slowSince, gap>>

\* Mutant: a reply that does not say to continue is taken for the token.
ReceiveAnyToken ==
  /\ pc = "request"
  /\ \/ reply = "pending" /\ pc' = "loop" /\ UNCHANGED <<interval, result>>
     \/ /\ reply = "slow_down" /\ pc' = "loop" /\ UNCHANGED result
        /\ interval' = interval + SlowStep
     \/ /\ reply \in {"token", "denied", "expired"}
        /\ End("token") /\ UNCHANGED interval
  /\ slows' = IF reply = "slow_down" THEN slows + 1 ELSE slows
  /\ UNCHANGED <<now, deadline, wakeAt, sentAt, reply, answer, answeredAt,
                 slowSince, gap>>

\* The reply arrives: continue, slow down, return the token, or raise.
Receive ==
  /\ pc = "request"
  /\ \/ reply = "pending" /\ pc' = "loop" /\ UNCHANGED <<interval, result>>
     \/ /\ reply = "slow_down" /\ pc' = "loop" /\ UNCHANGED result
        /\ interval' = interval + SlowStep
     \/ /\ reply \in {"token", "denied", "expired"}
        /\ End(reply) /\ UNCHANGED interval
  /\ slows' = IF reply = "slow_down" THEN slows + 1 ELSE slows
  /\ UNCHANGED <<now, deadline, wakeAt, sentAt, reply, answer, answeredAt,
                 slowSince, gap>>

\* The request fails or times out.
RequestFails ==
  /\ pc = "request"
  /\ End("error")
  /\ UNCHANGED <<now, deadline, interval, wakeAt, sentAt, reply, answer,
                 answeredAt, slows, slowSince, gap>>

\* The owner answers while GitHub still accepts the code.
Answer ==
  /\ answer = "none" /\ now < ExpiresIn /\ pc # "end"
  /\ answer' \in {"approve", "deny"}
  /\ answeredAt' = now
  /\ UNCHANGED <<now, pc, deadline, interval, wakeAt, sentAt, reply, result,
                 slows, slowSince, gap>>

\* Time passes, but not beyond a step that is due.
Tick ==
  /\ \/ pc = "post" /\ now < MaxPost
     \/ pc = "asleep" /\ now < wakeAt
     \/ pc = "request" /\ now < sentAt + MaxLatency
  /\ now' = now + 1
  /\ UNCHANGED <<pc, deadline, interval, wakeAt, sentAt, reply, result, answer,
                 answeredAt, slows, slowSince, gap>>

Next ==
  Posted \/ Loop \/ Send \/ Receive \/ RequestFails \/ Answer \/ Tick

Spec == Init /\ [][Next]_vars

-----------------------------------------------------------------------------
(* Properties *)

\* What GitHub demands now: the first interval and every slow_down since.
Demanded == Interval + SlowStep * slows

\* Two polls are never closer than GitHub demanded when the second was sent.
PollsKeepTheirDistance == pc = "request" => gap >= Demanded

\* The loop's deadline is checked before the sleep, so a poll may be late,
\* but by less than one interval.
NoPollLongAfterDeadline == pc = "request" => sentAt < deadline + interval

\* An owner who approves early enough for one more poll gets through: the
\* script does not end as expired, however its sleeps and requests fall.
TimelyApprovalCounts ==
  result = "expired" /\ answer = "approve" /\ ~slowSince =>
    answeredAt + MaxLatency + Demanded >= ExpiresIn

\* What this run of authorize() is to its caller.
Verdict == IF answer = "approve" THEN "approved"
           ELSE IF answer = "deny" THEN "denied" ELSE "none"
Outcome == IF pc # "end" THEN "none"
           ELSE IF result = "token" THEN "token" ELSE "raised"

Grant == INSTANCE DeviceGrant WITH verdict <- Verdict, outcome <- Outcome

\* The loop with its clock implements the promise: no reply, however late or
\* out of step with the owner's answer, becomes a token that was not granted.
ImplementsGrant == Grant!Spec
=============================================================================
