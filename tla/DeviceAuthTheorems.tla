------------------------- MODULE DeviceAuthTheorems -------------------------
(***************************************************************************)
(* The polling loop for every interval, every life of the code and all     *)
(* bounds.  Clock is the inductive invariant: it says how far the clock    *)
(* can be from the last poll and, once the owner has approved, from the    *)
(* answer in each state of the loop.                                       *)
(***************************************************************************)
EXTENDS DeviceAuth, TLAPS

Types ==
  /\ now \in Nat /\ deadline \in Nat /\ interval \in Nat /\ wakeAt \in Nat
  /\ sentAt \in Nat /\ answeredAt \in Nat /\ gap \in Nat
  /\ pc \in {"post", "loop", "asleep", "request", "end"}
  /\ reply \in Replies /\ result \in Results
  /\ answer \in {"none", "approve", "deny"}
  /\ slows \in 0..MaxSlow /\ slowSince \in BOOLEAN

\* The interval is what GitHub demands, and each phase keeps the clock near.
Pace ==
  /\ interval = Demanded
  /\ sentAt <= now
  /\ pc = "post" => now <= MaxPost /\ deadline = 0
  /\ deadline <= MaxPost + ExpiresIn
  /\ pc \in {"loop", "asleep", "request"} => deadline >= ExpiresIn
  /\ pc = "asleep" => /\ now <= wakeAt
                      /\ wakeAt <= now + interval
                      /\ sentAt + interval <= wakeAt
                      /\ wakeAt < deadline + interval
  /\ pc = "request" => /\ now <= sentAt + MaxLatency
                       /\ sentAt < deadline + interval
                       /\ gap >= interval
                       /\ reply = "slow_down" => slows < MaxSlow
                       /\ reply = "expired" => sentAt >= ExpiresIn

\* After an approval, and without a slow_down since, the clock is less than a
\* request and an interval away from the answer.
Approval ==
  answer = "approve" /\ ~slowSince =>
    /\ pc \in {"post", "loop"} => now <= answeredAt + MaxLatency
    /\ pc = "asleep" => wakeAt <= answeredAt + MaxLatency + interval
    /\ pc = "request" =>
         /\ reply \in {"pending", "slow_down"} => sentAt <= answeredAt
         /\ reply = "expired" => answeredAt + MaxLatency + interval >= ExpiresIn
    /\ result = "expired" => answeredAt + MaxLatency + interval >= ExpiresIn

Unended == pc # "end" => result = "none"

Clock == Types /\ Pace /\ Approval /\ Unended

LEMMA Initially == Init => Clock
<1> SUFFICES ASSUME Init PROVE Clock
  OBVIOUS
<1> USE DeviceAuthAssumption DEF Init
<1>1. Types
  <2>1. slowSince \in BOOLEAN
    BY Zenon
  <2> QED
    BY <2>1 DEF Types, Replies, Results
<1>2. Pace
  <2>1. SlowStep * 0 = 0
    OBVIOUS
  <2> QED
    BY <2>1 DEF Pace, Demanded
<1>3. Approval /\ Unended
  BY DEF Approval, Unended
<1> QED
  BY <1>1, <1>2, <1>3 DEF Clock

LEMMA Inductive == Clock /\ [Next]_vars => Clock'
<1> SUFFICES ASSUME Clock, [Next]_vars PROVE Clock'
  OBVIOUS
<1> USE DeviceAuthAssumption DEF Clock, Types, Replies, Results
<1>1. CASE Posted
  BY <1>1 DEF Posted, End, Pace, Approval, Unended, Demanded
<1>2. CASE Loop
  BY <1>2 DEF Loop, End, Pace, Approval, Unended, Demanded
<1>3. CASE Send
  <2> USE <1>3 DEF Send, Decides
  <2>1. slowSince' \in BOOLEAN
    BY Zenon
  <2>2. Types' /\ Unended'
    BY <2>1 DEF Pace, Unended
  <2>3. Pace'
    BY DEF Pace, Demanded
  <2>4. Approval'
    <3> SUFFICES ASSUME answer' = "approve", ~slowSince'
                 PROVE  Approval'
      BY DEF Approval
    <3>1. ~slowSince /\ reply' # "slow_down"
      BY Zenon
    <3> QED
      BY <3>1 DEF Pace, Approval, Unended
  <2> QED
    BY <2>2, <2>3, <2>4
<1>4. CASE Receive
  <2> USE <1>4 DEF Receive, End
  <2>1. Types' /\ Unended'
    BY DEF Pace, Unended
  <2>2. Pace'
    <3>1. SlowStep * (slows + 1) = SlowStep * slows + SlowStep
      OBVIOUS
    <3>2. CASE reply = "slow_down"
      BY <3>1, <3>2 DEF Pace, Demanded
    <3>3. CASE reply # "slow_down"
      BY <3>3 DEF Pace, Demanded
    <3> QED
      BY <3>2, <3>3
  <2>3. Approval'
    BY DEF Pace, Approval, Unended
  <2> QED
    BY <2>1, <2>2, <2>3
<1>5. CASE RequestFails
  BY <1>5 DEF RequestFails, End, Pace, Approval, Unended, Demanded
<1>6. CASE Answer
  <2> USE <1>6 DEF Answer
  <2>1. Types' /\ Unended'
    BY DEF Unended
  <2>2. Pace'
    BY DEF Pace, Demanded
  <2>3. Approval'
    BY DEF Pace, Approval, Unended
  <2> QED
    BY <2>1, <2>2, <2>3
<1>7. CASE Tick
  BY <1>7 DEF Tick, Pace, Approval, Unended, Demanded
<1>8. CASE UNCHANGED vars
  BY <1>8 DEF vars, Pace, Approval, Unended, Demanded
<1> QED
  BY <1>1, <1>2, <1>3, <1>4, <1>5, <1>6, <1>7, <1>8 DEF Next

LEMMA Invariant == Spec => []Clock
  BY Initially, Inductive, PTL DEF Spec

\* Two polls are never closer than the interval GitHub asked for, with every
\* slow_down it sent added: the loop of authorize() for any timing.
THEOREM Distance == Spec => []PollsKeepTheirDistance
<1>1. Clock => PollsKeepTheirDistance
  BY DeviceAuthAssumption DEF Clock, Types, Pace, PollsKeepTheirDistance
<1> QED
  BY <1>1, Invariant, PTL

\* No poll of authorize() is an interval or more after the deadline.
THEOREM LastPoll == Spec => []NoPollLongAfterDeadline
<1>1. Clock => NoPollLongAfterDeadline
  BY DEF Clock, Pace, NoPollLongAfterDeadline
<1> QED
  BY <1>1, Invariant, PTL

-----------------------------------------------------------------------------
\* The last instant at which a poll can be sent.
LastSend == MaxPost + ExpiresIn + Interval + SlowStep * MaxSlow

\* How far the clock can get.
Bounds ==
  /\ wakeAt <= LastSend /\ sentAt <= LastSend
  /\ now <= LastSend + MaxLatency
  /\ gap <= LastSend + MaxLatency /\ answeredAt <= LastSend + MaxLatency

\* The interval is bounded because the slow_down replies are.
LEMMA IntervalBound ==
  Clock => /\ Interval <= interval
           /\ interval <= Interval + SlowStep * MaxSlow
<1> SUFFICES ASSUME Clock
             PROVE  /\ Interval <= interval
                    /\ interval <= Interval + SlowStep * MaxSlow
  OBVIOUS
<1> USE DeviceAuthAssumption DEF Clock, Types
<1> DEFINE left == MaxSlow - slows
<1>1. left \in Nat /\ MaxSlow = slows + left
  OBVIOUS
<1>2. SlowStep * slows \in Nat /\ SlowStep * left \in Nat
  BY <1>1
<1>3. SlowStep * (slows + left) = SlowStep * slows + SlowStep * left
  BY <1>1
<1> HIDE DEF left
<1> QED
  BY <1>1, <1>2, <1>3 DEF Pace, Demanded

LEMMA BoundsInductive == Clock /\ Bounds /\ [Next]_vars => Bounds'
<1> SUFFICES ASSUME Clock, Bounds, [Next]_vars PROVE Bounds'
  OBVIOUS
<1> DEFINE top == SlowStep * MaxSlow
<1>1. top \in Nat
  BY DeviceAuthAssumption
<1>2. interval <= Interval + top
  BY IntervalBound
<1>3. LastSend = MaxPost + ExpiresIn + Interval + top
  BY DEF LastSend
<1> HIDE DEF top
<1> USE <1>1, <1>2, <1>3, DeviceAuthAssumption DEF Clock, Types, Bounds, Pace
<1>4. CASE Loop
  BY <1>4 DEF Loop, End
<1>5. CASE Send
  BY <1>5 DEF Send
<1>6. CASE Answer
  BY <1>6 DEF Answer
<1>7. CASE Tick
  BY <1>7 DEF Tick
<1>8. CASE Posted \/ Receive \/ RequestFails \/ UNCHANGED vars
  BY <1>8 DEF Posted, Receive, RequestFails, End, vars
<1> QED
  BY <1>4, <1>5, <1>6, <1>7, <1>8 DEF Next

\* Every variable of the loop keeps its type, and the clock never passes the
\* horizon: authorize() cannot run on.
THEOREM TypeCorrect == Spec => []TypeOK
<1>1. Init => Bounds
  <2>1. SlowStep * MaxSlow \in Nat
    BY DeviceAuthAssumption
  <2> QED
    BY <2>1, DeviceAuthAssumption DEF Init, Bounds, LastSend
<1>2. Clock /\ Bounds => TypeOK
  <2> SUFFICES ASSUME Clock, Bounds PROVE TypeOK
    OBVIOUS
  <2>1. SlowStep * MaxSlow \in Nat
    BY DeviceAuthAssumption
  <2>2. interval \in Interval..(Interval + SlowStep * MaxSlow)
    BY <2>1, IntervalBound, DeviceAuthAssumption DEF Clock, Types
  <2>3. LastSend + MaxLatency = Horizon /\ LastSend <= Horizon
    BY <2>1, DeviceAuthAssumption DEF LastSend, Horizon
  <2>4. Horizon \in Nat /\ LastSend \in Nat
    BY <2>1, DeviceAuthAssumption DEF LastSend, Horizon
  <2>5. /\ now <= Horizon /\ wakeAt <= Horizon /\ sentAt <= Horizon
        /\ gap <= Horizon /\ answeredAt <= Horizon
    BY <2>3, <2>4 DEF Clock, Types, Bounds
  <2> QED
    BY <2>2, <2>4, <2>5, DeviceAuthAssumption DEF Clock, Types, Pace, TypeOK
<1> QED
  BY <1>1, <1>2, Invariant, BoundsInductive, PTL DEF Spec

\* An approval that leaves time for one more request and one more interval is
\* never answered with "expired", if posting takes no longer than a request.
THEOREM TimelyApproval == Spec => []TimelyApprovalCounts
<1>1. Clock => TimelyApprovalCounts
  BY DeviceAuthAssumption
  DEF Clock, Types, Pace, Approval, TimelyApprovalCounts, Demanded
<1> QED
  BY <1>1, Invariant, PTL

-----------------------------------------------------------------------------
\* A token on its way was granted: the answer cannot change any more.
Granted == pc = "request" /\ reply = "token" => answer = "approve"

LEMMA GrantedStep == Granted /\ [Next]_vars => Granted'
  BY DEF Granted, Next, vars, Posted, Loop, Send, Decides, Receive,
         RequestFails, Answer, Tick, End

\* Every step of the loop is a step of the promise, or none.
LEMMA GrantStep ==
  Clock /\ Granted /\ [Next]_vars => [Grant!Next]_(Grant!vars)
<1> SUFFICES ASSUME Clock, Granted, [Next]_vars
             PROVE  [Grant!Next]_(Grant!vars)
  OBVIOUS
<1> USE DEF Grant!vars, Grant!Next, Grant!Decide, Grant!Return, Grant!Raise,
            Verdict, Outcome, Clock, Types, Results, Replies
<1>1. CASE Posted \/ Loop \/ RequestFails
  BY <1>1 DEF Posted, Loop, RequestFails, End
<1>2. CASE Receive
  BY <1>2 DEF Receive, End, Granted
<1>3. CASE Answer
  BY <1>3 DEF Answer
<1>4. CASE Send \/ Tick \/ UNCHANGED vars
  BY <1>4 DEF Send, Tick, vars
<1> QED
  BY <1>1, <1>2, <1>3, <1>4 DEF Next

\* The polling loop implements DeviceGrant: it returns a token only after an
\* approval, and ends once, for any timing.
THEOREM Implements == Spec => ImplementsGrant
<1>1. Init => Granted /\ Grant!Init
  BY DEF Init, Granted, Grant!Init, Verdict, Outcome
<1> QED
  BY <1>1, Invariant, GrantedStep, GrantStep, PTL
  DEF Spec, ImplementsGrant, Grant!Spec
=============================================================================
