---------------------------- MODULE TickerProofs ----------------------------
(***************************************************************************)
(* That no timer escapes stopTicking and that a sequence is dispatched     *)
(* value by value, for every set of operations, any number of them and     *)
(* every pool.                                                             *)
(***************************************************************************)
EXTENDS Ticker, TLAPS

Cancelled(t) == \E i \in DOMAIN io : io[i] = Cancel(t)

(* startTicking: no timer is there until the new one is, and a callback    *)
(* without timer is the one that startTicking has just set.                *)
Starting ==
    /\ apc # "idle" => ops >= 1
    /\ apc \in {"start", "arm"} => timer = NoTimer
    /\ callback => timer # NoTimer \/ apc = "arm"

(* What was dispatched is behind the sequence, except during a tick.       *)
Behind ==
    /\ ~twice
    /\ from <= seq
    /\ \A v \in lap : from <= v /\ (v < seq \/ (v = seq /\ tpc = "count"))

(* The sequence is still that of the range before.                         *)
NewRange == apc = "reset" /\ RangeProvided

(* What was dispatched is the range up to the sequence, which leaves it    *)
(* only between the increment and the test.                                *)
Dispatched ==
    /\ \A v \in Int : begin <= v /\ from <= v /\ v < seq => v \in lap
    /\ tpc = "count" => seq \in lap \/ seq < begin
    /\ callback => begin - 1 <= seq /\ (seq <= end \/ tpc = "check")
    /\ lap \subseteq begin - 1 .. end

InStep == stale \/ NewRange \/ Dispatched

Inv == TypeOK /\ NoOrphanTimer /\ Starting /\ Behind /\ InStep

Entries == [do: {"tick", "cancel"}, timer: Timers]

-----------------------------------------------------------------------------
(* A parameter that is not given leaves what there is.                     *)
LEMMA GivenType ==
    ASSUME NEW D, NEW S \in SUBSET D, NEW d \in D
    PROVE  Given(S, d) \in D /\ (S = {} => Given(S, d) = d)
<1>1. \E v \in S \cup {d} : S # {} => v \in S
  OBVIOUS
<1>2. Given(S, d) \in S \cup {d}
  BY <1>1 DEF Given
<1> QED BY <1>2

(* The timers and their entries in the queue of the timers thread.         *)
LEMMA EntryType ==
    ASSUME NEW t \in Timers
    PROVE  Tick(t) \in Entries /\ Cancel(t) \in Entries /\ t # NoTimer /\ NoTimer \notin Timers
BY TickerAssumption DEF Tick, Cancel, Entries, Timers, NoTimer

(* An entry that is queued leaves those before it, a cancellation among    *)
(* them.                                                                   *)
LEMMA AppendKeeps ==
    ASSUME NEW e \in Entries, io \in Seq(Entries), io' = Append(io, e), NEW t
    PROVE  /\ io' \in Seq(Entries)
           /\ Cancelled(t) => Cancelled(t)'
           /\ e = Cancel(t) => Cancelled(t)'
<1>1. /\ DOMAIN io = 1 .. Len(io) /\ Len(io) \in Nat /\ DOMAIN io' = 1 .. Len(io) + 1
      /\ io'[Len(io) + 1] = e /\ \A i \in DOMAIN io : io'[i] = io[i]
      /\ io' \in Seq(Entries)
  OBVIOUS
<1> QED BY <1>1 DEF Cancelled

(* An entry that is taken is the only one that goes.                       *)
LEMMA TailKeeps ==
    ASSUME io \in Seq(Entries), io # <<>>, io' = Tail(io), NEW t, Head(io) # Cancel(t)
    PROVE  io' \in Seq(Entries) /\ (Cancelled(t) => Cancelled(t)')
<1>1. /\ DOMAIN io = 1 .. Len(io) /\ Len(io) \in Nat /\ Len(io) >= 1
      /\ DOMAIN io' = 1 .. Len(io) - 1 /\ Head(io) = io[1]
      /\ \A i \in 1 .. Len(io) - 1 : io'[i] = io[i + 1]
      /\ io' \in Seq(Entries)
  OBVIOUS
<1>2. ASSUME NEW i \in DOMAIN io, io[i] = Cancel(t)
      PROVE  i - 1 \in DOMAIN io' /\ io'[i - 1] = Cancel(t)
  BY <1>1, <1>2
<1> QED BY <1>1, <1>2 DEF Cancelled

(* What stopTicking does to the timers.                                    *)
LEMMA Stops ==
    ASSUME TypeOK, stopTicking
    PROVE  /\ timer' = NoTimer
           /\ io' \in Seq(Entries) /\ armed' = armed
           /\ callback' = IF timer = NoTimer THEN callback ELSE FALSE
           /\ \A t \in Timers : Cancelled(t) \/ t = timer => Cancelled(t)'
<1>0. io \in Seq(Entries)
  BY DEF TypeOK, Entries
<1>1. CASE timer = NoTimer
  <2>1. UNCHANGED <<timer, callback, armed, io>>
    BY <1>1 DEF stopTicking, ticking
  <2>2. \A t \in Timers : Cancelled(t)' = Cancelled(t) /\ t # timer
    BY <1>1, <2>1, EntryType DEF Cancelled
  <2> QED BY <1>0, <1>1, <2>1, <2>2
<1>2. CASE timer # NoTimer
  <2>1. timer \in Timers
    BY <1>2 DEF TypeOK
  <2>2. Cancel(timer) \in Entries /\ io' = Append(io, Cancel(timer))
    BY <1>2, <2>1, EntryType DEF stopTicking
  <2> QED BY <1>0, <1>2, <2>2, AppendKeeps DEF stopTicking
<1> QED BY <1>1, <1>2

-----------------------------------------------------------------------------
AdminStep == Trigger \/ Admin
Step ==
    \/ AdminStep \/ TimersThread
    \/ \E t \in Timers : Expire(t)
    \/ \E w \in Pool : TakeJob(w) \/ SendJob(w)

(* The numbers keep their types, and the range is never empty.             *)
LEMMA NumberTypes ==
    ASSUME TypeOK, Step
    PROVE  /\ seq' \in Int /\ begin' \in Int /\ end' \in Int /\ from' \in Int /\ begin' <= end'
           /\ lap' \subseteq Int /\ ops' \in 0 .. MaxOps /\ op' \in OpType /\ cps' \in {0, 1}
<1>0. /\ seq \in Int /\ begin \in Int /\ end \in Int /\ from \in Int /\ begin <= end
      /\ lap \subseteq Int /\ ops \in 0 .. MaxOps /\ op \in OpType /\ NoOp \in OpType /\ MaxOps \in Nat
      /\ cps \in {0, 1}
  BY TickerAssumption DEF TypeOK, NoOp, OpType
<1>1. ASSUME NEW o \in Operations
      PROVE  /\ o \in OpType /\ Given(o.begin, begin) \in Int /\ Given(o.end, end) \in Int
             /\ Given(o.sequence, seq) \in Int
  <2>1. /\ o \in OpType /\ o.begin \in SUBSET Int /\ o.end \in SUBSET Int
        /\ o.sequence \in SUBSET Int
    BY TickerAssumption DEF OpType
  <2> QED BY <1>0, <2>1, GivenType
<1>2. CASE Trigger
  <2>1. PICK o \in Operations :
         \/ UNCHANGED <<op, begin, end, seq, from, lap, cps>>
         \/ /\ op' = o /\ seq' = Given(o.sequence, seq) /\ from' = seq' /\ lap' = {}
            /\ UNCHANGED <<begin, end, cps>>
         \/ op' = o /\ UNCHANGED <<begin, end, seq, from, lap, cps>>
         \/ /\ ~Rejected(o) /\ Dynamics(o) /\ op' = o /\ begin' = Given(o.begin, begin)
            /\ end' = Given(o.end, end)
            /\ UNCHANGED <<seq, from, lap, cps>>
    BY <1>2 DEF Trigger, SetSequence, dynamics
  <2>2. ops' = ops + 1 /\ ops < MaxOps
    BY <1>2 DEF Trigger
  <2>3. ~Rejected(o) /\ Dynamics(o) => Given(o.begin, begin) <= Given(o.end, end)
    BY <1>1 DEF Rejected
  <2>4. ops' \in 0 .. MaxOps
    BY <1>0, <2>2
  <2>5. CASE UNCHANGED <<begin, end, cps>>
    BY <1>0, <1>1, <2>1, <2>4, <2>5
  <2>6. CASE /\ ~Rejected(o) /\ Dynamics(o) /\ op' = o /\ begin' = Given(o.begin, begin)
             /\ end' = Given(o.end, end)
             /\ UNCHANGED <<seq, from, lap, cps>>
    BY <1>0, <1>1, <2>3, <2>4, <2>6
  <2> QED BY <2>1, <2>5, <2>6
<1>3. CASE ResetSequence \/ StartTicking
  <2>1. \/ seq' = begin - 1 /\ from' = begin - 1 /\ lap' = {}
        \/ UNCHANGED <<seq, from, lap>>
    BY <1>3 DEF ResetSequence, StartTicking, SetSequence
  <2>2. UNCHANGED <<begin, end, cps, op, ops>>
    BY <1>3 DEF ResetSequence, StartTicking
  <2>3. seq' \in Int /\ from' \in Int
    BY <1>0, <2>1
  <2>4. lap' \subseteq Int
    BY <1>0, <2>1
  <2> QED BY <1>0, <2>2, <2>3, <2>4
<1>4. CASE UpdateRate
  <2>1. Given(op.cps, cps) \in {0, 1}
    <3>1. op.cps \in SUBSET {0, 1}
      BY <1>0 DEF OpType
    <3> QED BY <1>0, <3>1, GivenType
  <2> QED BY <1>0, <1>4, <2>1 DEF UpdateRate, Answered, ghosts
<1>5. CASE UpdateRepeat \/ Refuse \/ SendOnce \/ Decide \/ StartTimer
  BY <1>0, <1>5 DEF UpdateRepeat, Refuse, SendOnce, Decide, StartTimer, Answered,
                    dynamics, ghosts
<1>6. CASE RunCancel \/ RunTick \/ ScheduleTick \/ Rearm
  BY <1>0, <1>6 DEF RunCancel, RunTick, ScheduleTick, Rearm, dynamics, ghosts
<1>7. CASE TestCallback \/ InvokeCallback
  BY <1>0, <1>7 DEF TestCallback, InvokeCallback, dynamics
<1>8. CASE CountTick \/ CheckEnd
  <2>1. \/ seq' = begin /\ from' = begin /\ lap' = {}
        \/ seq' \in {seq, seq + 1} /\ UNCHANGED <<from, lap>>
    BY <1>8 DEF CountTick, CheckEnd, SetSequence, ghosts
  <2>2. UNCHANGED <<begin, end, cps, op, ops>>
    BY <1>8 DEF CountTick, CheckEnd
  <2>3. seq' \in Int /\ from' \in Int
    BY <1>0, <2>1
  <2>4. lap' \subseteq Int
    BY <1>0, <2>1
  <2> QED BY <1>0, <2>2, <2>3, <2>4
<1>9. CASE (\E t \in Timers : Expire(t)) \/ (\E w \in Pool : TakeJob(w) \/ SendJob(w))
  BY <1>0, <1>9 DEF Expire, TakeJob, SendJob, dynamics, ghosts
<1> QED BY <1>2, <1>3, <1>4, <1>5, <1>6, <1>7, <1>8, <1>9
        DEF Step, AdminStep, Admin, TimersThread

(* The timers, and what is queued for them.                                *)
Tracked ==
    /\ timer \in Timers \cup {NoTimer} /\ armed \subseteq Timers /\ io \in Seq(Entries)
    /\ \A t \in Timers : t \in armed => t = timer \/ Cancelled(t)

(* A step that leaves the timers alone.                                    *)
LEMMA TrackedStay ==
    ASSUME Tracked, UNCHANGED <<timer, armed, io>>
    PROVE  Tracked'
BY DEF Tracked, Cancelled

(* stopTicking leaves no armed timer that is not cancelled.                *)
LEMMA StopsTracked ==
    ASSUME TypeOK, Tracked, stopTicking
    PROVE  Tracked'
<1>1. \A t \in Timers : t \in armed' => Cancelled(t)'
  BY Stops DEF Tracked
<1> QED BY <1>1, Stops DEF Tracked

(* A timer that is armed is the one of the provision, or is going to be    *)
(* cancelled.                                                              *)
LEMMA TrackedStep ==
    ASSUME TypeOK, Starting, Tracked, Step
    PROVE  Tracked'
<1>1. CASE \/ Trigger \/ ResetSequence \/ UpdateRate \/ UpdateRepeat \/ Refuse \/ SendOnce
           \/ TestCallback \/ InvokeCallback \/ CountTick
  <2>1. UNCHANGED <<timer, armed, io>>
    BY <1>1 DEF Trigger, ResetSequence, UpdateRate, UpdateRepeat, Refuse, SendOnce,
                TestCallback, InvokeCallback, CountTick, ticking
  <2> QED BY <2>1, TrackedStay
<1>2. CASE \E w \in Pool : TakeJob(w) \/ SendJob(w)
  <2>1. UNCHANGED <<timer, armed, io>>
    BY <1>2 DEF TakeJob, SendJob, ticking
  <2> QED BY <2>1, TrackedStay
<1>3. CASE Decide \/ ScheduleTick \/ CheckEnd
  <2>1. stopTicking \/ UNCHANGED <<timer, armed, io>>
    BY <1>3 DEF Decide, ScheduleTick, CheckEnd, ticking
  <2> QED BY <2>1, TrackedStay, StopsTracked
<1>4. CASE StartTicking
  <2>1. UNCHANGED <<timer, armed, io>>
    BY <1>4 DEF StartTicking, Starting
  <2> QED BY <2>1, TrackedStay
<1>5. CASE StartTimer
  <2>1. timer = NoTimer /\ ops \in Timers
    BY <1>5, TickerAssumption DEF StartTimer, Starting, TypeOK, Timers
  <2>2. \A t \in Timers : t \in armed => Cancelled(t)
    BY <2>1, EntryType DEF Tracked
  <2>3. CASE cps = 0
    <3>1. timer' = NoTimer /\ armed' = armed /\ io' = Append(io, Cancel(ops))
      BY <1>5, <2>3 DEF StartTimer
    <3>2. io' \in Seq(Entries) /\ \A t \in Timers : Cancelled(t) => Cancelled(t)'
      BY <2>1, <3>1, EntryType, AppendKeeps DEF Tracked
    <3> QED BY <2>2, <3>1, <3>2 DEF Tracked
  <2>4. CASE cps # 0
    <3>1. timer' = ops /\ armed' = armed \cup {ops} /\ UNCHANGED io
      BY <1>5, <2>4 DEF StartTimer
    <3> QED BY <2>1, <2>2, <3>1 DEF Tracked, Cancelled
  <2> QED BY <2>3, <2>4
<1>6. CASE \E t \in Timers : Expire(t)
  <2>1. PICK t \in Timers : io' = Append(io, Tick(t)) /\ armed' = armed \ {t} /\ UNCHANGED timer
    BY <1>6 DEF Expire
  <2>2. io' \in Seq(Entries) /\ \A u \in Timers : Cancelled(u) => Cancelled(u)'
    BY <2>1, EntryType, AppendKeeps DEF Tracked
  <2> QED BY <2>1, <2>2 DEF Tracked
<1>7. CASE RunCancel \/ RunTick
  <2>1. io # <<>> /\ io' = Tail(io) /\ UNCHANGED timer /\ io \in Seq(Entries)
    BY <1>7 DEF RunCancel, RunTick, Tracked
  <2>2. armed' \subseteq armed /\ \A t \in armed' : Head(io) # Cancel(t)
    BY <1>7 DEF RunCancel, RunTick, Cancel
  <2>3. \A t \in armed' : Cancelled(t) => Cancelled(t)'
    BY <2>1, <2>2, TailKeeps
  <2>4. io' \in Seq(Entries)
    BY <2>1
  <2> QED BY <2>1, <2>2, <2>3, <2>4 DEF Tracked
<1>8. CASE Rearm
  <2>1. UNCHANGED <<timer, io>> /\ (armed' = armed \/ (timer # NoTimer /\ armed' = armed \cup {timer}))
    BY <1>8 DEF Rearm
  <2> QED BY <2>1 DEF Tracked, Cancelled
<1> QED BY <1>1, <1>2, <1>3, <1>4, <1>5, <1>6, <1>7, <1>8
        DEF Step, AdminStep, Admin, TimersThread

Flags == /\ repeat \in BOOLEAN /\ callback \in BOOLEAN /\ twice \in BOOLEAN
         /\ changed \in BOOLEAN /\ stale \in BOOLEAN /\ down \in BOOLEAN
TimersStages == {"idle", "schedule", "arm", "test", "invoke", "count", "check"}
AdminStages == {"idle", "reset", "rate", "repeat", "once", "decide", "start", "arm"}
Jobs ==
    /\ queue \in Seq(Int) /\ hand \in [Pool -> Seq(Int)]
    /\ \A w \in Pool : Len(hand[w]) <= 1

(* Every step keeps the types of the flags and of the control.             *)
LEMMA FlagTypes ==
    ASSUME TypeOK, Step
    PROVE  Flags' /\ tpc' \in TimersStages /\ apc' \in AdminStages
<1>0. Flags /\ tpc \in TimersStages /\ apc \in AdminStages /\ op \in OpType
  BY DEF TypeOK, Flags, TimersStages, AdminStages
<1>1. CASE Trigger
  BY <1>0, <1>1 DEF Trigger, Flags, AdminStages, dynamics, ticking
<1>2. CASE ResetSequence \/ UpdateRate \/ Refuse \/ SendOnce
  BY <1>0, <1>2 DEF ResetSequence, UpdateRate, Refuse, SendOnce, Answered, Flags, AdminStages,
                    dynamics, ticking, ghosts
<1>3. CASE UpdateRepeat
  <2>1. Given(op.repeat, repeat) \in BOOLEAN
    <3>1. op.repeat \in SUBSET BOOLEAN
      BY <1>0 DEF OpType
    <3> QED BY <1>0, <3>1, GivenType DEF Flags
  <2> QED BY <1>0, <1>3, <2>1 DEF UpdateRepeat, Answered, Flags, AdminStages, ticking, ghosts
<1>4. CASE Decide
  <2>1. callback' \in BOOLEAN
    BY <1>0, <1>4, Stops DEF Decide, ticking, Flags
  <2> QED BY <1>0, <1>4, <2>1 DEF Decide, Answered, Flags, AdminStages, dynamics, ghosts
<1>5. CASE StartTicking \/ StartTimer
  BY <1>0, <1>5 DEF StartTicking, StartTimer, Answered, Flags, AdminStages, dynamics, ghosts
<1>6. CASE RunCancel \/ RunTick \/ Rearm
  BY <1>0, <1>6 DEF RunCancel, RunTick, Rearm, Flags, TimersStages, dynamics, ghosts
<1>7. CASE ScheduleTick
  <2>1. callback' \in BOOLEAN
    BY <1>0, <1>7, Stops DEF ScheduleTick, ticking, Flags
  <2> QED BY <1>0, <1>7, <2>1 DEF ScheduleTick, Flags, TimersStages, dynamics, ghosts
<1>8. CASE TestCallback \/ InvokeCallback \/ CountTick
  BY <1>0, <1>8 DEF TestCallback, InvokeCallback, CountTick, Flags, TimersStages,
                    dynamics, ticking, ghosts
<1>9. CASE CheckEnd
  <2>1. callback' \in BOOLEAN
    BY <1>0, <1>9, Stops DEF CheckEnd, ticking, Flags
  <2> QED BY <1>0, <1>9, <2>1 DEF CheckEnd, Flags, TimersStages
<1>10. CASE (\E t \in Timers : Expire(t)) \/ (\E w \in Pool : TakeJob(w) \/ SendJob(w))
  BY <1>0, <1>10 DEF Expire, TakeJob, SendJob, Flags, dynamics, ticking, ghosts
<1> QED BY <1>1, <1>2, <1>3, <1>4, <1>5, <1>6, <1>7, <1>8, <1>9, <1>10
        DEF Step, AdminStep, Admin, TimersThread

(* Every step keeps the types of the jobs and their bookkeeping.           *)
LEMMA JobTypes ==
    ASSUME TypeOK, Step
    PROVE  Jobs'
<1>0. Jobs /\ seq \in Int
  BY DEF TypeOK, Jobs
<1>1. CASE AdminStep
  BY <1>0, <1>1 DEF AdminStep, Trigger, Admin, ResetSequence, UpdateRate, UpdateRepeat, Refuse,
                    SendOnce, Decide, StartTicking, StartTimer, pool, Jobs
<1>2. CASE TimersThread /\ ~InvokeCallback
  BY <1>0, <1>2 DEF TimersThread, RunCancel, RunTick, ScheduleTick, Rearm, TestCallback,
                    CountTick, CheckEnd, pool, Jobs
<1>3. CASE InvokeCallback
  <2>1. queue' \in {queue, Append(queue, seq)} /\ UNCHANGED hand
    BY <1>3 DEF InvokeCallback
  <2>2. queue \in Seq(Int) /\ Append(queue, seq) \in Seq(Int)
    BY <1>0 DEF Jobs
  <2> QED BY <1>0, <2>1, <2>2 DEF Jobs
<1>4. CASE \E t \in Timers : Expire(t)
  BY <1>0, <1>4 DEF Expire, pool, Jobs
<1>5. ASSUME NEW w \in Pool, TakeJob(w)
      PROVE  Jobs'
  <2>1. Head(queue) \in Int /\ Tail(queue) \in Seq(Int)
    BY <1>0, <1>5 DEF TakeJob, Jobs
  <2>2. <<Head(queue)>> \in Seq(Int) /\ Len(<<Head(queue)>>) = 1
    BY <2>1
  <2> DEFINE job == <<Head(queue)>>
  <2>3. hand' = [hand EXCEPT ![w] = job] /\ queue' \in Seq(Int)
    BY <1>5, <2>1 DEF TakeJob
  <2>4. job \in Seq(Int) /\ Len(job) <= 1
    BY <2>2
  <2> QED
    <3> HIDE DEF job
    <3> QED BY <1>0, <2>3, <2>4 DEF Jobs
<1>6. ASSUME NEW w \in Pool, SendJob(w)
      PROVE  Jobs'
  BY <1>0, <1>6 DEF SendJob, Jobs
<1> QED BY <1>1, <1>2, <1>3, <1>4, <1>5, <1>6 DEF Step

(* No step leaves the types, and no timer is lost track of.                *)
LEMMA TypesStep ==
    ASSUME TypeOK, NoOrphanTimer, Starting, Step
    PROVE  TypeOK' /\ NoOrphanTimer'
<1>1. Tracked
  BY DEF TypeOK, NoOrphanTimer, Tracked, Entries, Cancelled
<1>2. Tracked'
  BY <1>1, TrackedStep
<1>3. TypeOK'
  BY <1>2, NumberTypes, FlagTypes, JobTypes
     DEF TypeOK, Tracked, Entries, Flags, Jobs, TimersStages, AdminStages
<1> QED BY <1>2, <1>3 DEF NoOrphanTimer, Tracked, Cancelled

-----------------------------------------------------------------------------
(* startTicking and stopTicking keep timer and callback together.          *)
LEMMA StartingStep ==
    ASSUME TypeOK, Starting, Step
    PROVE  Starting'
<1>0. ops \in Nat /\ callback \in BOOLEAN
  BY TickerAssumption DEF TypeOK
<1>1. CASE Trigger
  <2>1. ops' = ops + 1 /\ apc' \in {"idle", "once", "reset"} /\ UNCHANGED <<timer, callback>> /\ apc = "idle"
    BY <1>1 DEF Trigger, ticking
  <2> QED BY <1>0, <2>1 DEF Starting
<1>2. CASE ResetSequence \/ UpdateRate \/ UpdateRepeat \/ Refuse \/ SendOnce
  <2>1. /\ apc' \in {"idle", "rate", "repeat", "decide"} /\ apc \notin {"idle", "arm"}
        /\ UNCHANGED <<timer, callback, ops>>
    BY <1>2 DEF ResetSequence, UpdateRate, UpdateRepeat, Refuse, SendOnce, Answered, ticking
  <2> QED BY <1>0, <2>1 DEF Starting
<1>3. CASE Decide
  <2>1. /\ apc = "decide" /\ UNCHANGED ops
        /\ \/ apc' = "start" /\ timer = NoTimer /\ UNCHANGED <<timer, callback>>
           \/ apc' = "idle" /\ UNCHANGED <<timer, callback>>
           \/ apc' = "idle" /\ stopTicking
    BY <1>3 DEF Decide, Answered, ticking
  <2> QED BY <1>0, <2>1, Stops DEF Starting
<1>4. CASE StartTicking
  BY <1>0, <1>4 DEF StartTicking, Starting
<1>5. CASE StartTimer
  <2>1. /\ apc = "arm" /\ apc' = "idle"
        /\ \/ callback' = FALSE
           \/ timer' = ops
    BY <1>5 DEF StartTimer, Answered
  <2> QED BY <1>0, <2>1 DEF Starting, NoTimer
<1>6. CASE ScheduleTick \/ CheckEnd
  <2>1. UNCHANGED <<apc, ops>> /\ (stopTicking \/ UNCHANGED <<timer, callback>>)
    BY <1>6 DEF ScheduleTick, CheckEnd, ticking
  <2>2. CASE stopTicking
    <3>1. timer' = NoTimer /\ callback' = IF timer = NoTimer THEN callback ELSE FALSE
      BY <2>2, Stops
    <3> QED BY <2>1, <3>1 DEF Starting
  <2>3. CASE UNCHANGED <<timer, callback>>
    BY <2>1, <2>3 DEF Starting
  <2> QED BY <2>1, <2>2, <2>3
<1>7. CASE RunCancel \/ RunTick \/ Rearm \/ TestCallback \/ InvokeCallback \/ CountTick
  <2>1. UNCHANGED <<apc, ops, timer, callback>>
    BY <1>7 DEF RunCancel, RunTick, Rearm, TestCallback, InvokeCallback, CountTick, ticking
  <2> QED BY <2>1 DEF Starting
<1>8. CASE (\E t \in Timers : Expire(t)) \/ (\E w \in Pool : TakeJob(w) \/ SendJob(w))
  <2>1. UNCHANGED <<apc, ops, timer, callback>>
    BY <1>8 DEF Expire, TakeJob, SendJob, ticking
  <2> QED BY <2>1 DEF Starting
<1> QED BY <1>1, <1>2, <1>3, <1>4, <1>5, <1>6, <1>7, <1>8
        DEF Step, AdminStep, Admin, TimersThread

(* A new lap.                                                              *)
LEMMA NewLap ==
    ASSUME NEW v \in Int, SetSequence(v), ~twice, UNCHANGED twice
    PROVE  Behind'
BY DEF SetSequence, Behind

(* A step of the others: the sequence and what was dispatched stay.        *)
LEMMA BehindStay ==
    ASSUME Behind, UNCHANGED <<seq, from, lap, twice>>, tpc = "count" => tpc' = "count"
    PROVE  Behind'
BY DEF Behind

(* A value is dispatched only while what was dispatched is behind it.      *)
LEMMA BehindStep ==
    ASSUME TypeOK, Behind, Step
    PROVE  Behind'
<1>0. /\ seq \in Int /\ begin \in Int /\ end \in Int /\ from \in Int /\ lap \subseteq Int
      /\ ~twice /\ op \in OpType
  BY DEF TypeOK, Behind
<1>1. CASE Trigger
  <2>1. UNCHANGED <<twice, tpc>>
    BY <1>1 DEF Trigger
  <2>2. \/ UNCHANGED <<seq, from, lap>>
        \/ \E o \in Operations : SetSequence(Given(o.sequence, seq))
    BY <1>1 DEF Trigger, dynamics
  <2>3. \A o \in Operations : Given(o.sequence, seq) \in Int
    <3> TAKE o \in Operations
    <3>1. o.sequence \in SUBSET Int
      BY TickerAssumption DEF OpType
    <3> QED BY <1>0, <3>1, GivenType
  <2> QED BY <1>0, <2>1, <2>2, <2>3, NewLap, BehindStay
<1>2. CASE ResetSequence \/ StartTicking
  <2>1. UNCHANGED <<twice, tpc>> /\ (UNCHANGED <<seq, from, lap>> \/ SetSequence(begin - 1))
    BY <1>2 DEF ResetSequence, StartTicking
  <2>2. begin - 1 \in Int
    BY <1>0
  <2> QED BY <1>0, <2>1, <2>2, NewLap, BehindStay
<1>3. CASE UpdateRate \/ UpdateRepeat \/ Refuse \/ SendOnce \/ Decide \/ StartTimer
  <2>1. UNCHANGED <<seq, from, lap, twice, tpc>>
    BY <1>3 DEF UpdateRate, UpdateRepeat, Refuse, SendOnce, Decide, StartTimer, dynamics, ghosts
  <2> QED BY <2>1, BehindStay
<1>4. CASE RunCancel \/ RunTick \/ ScheduleTick \/ Rearm \/ TestCallback
  <2>1. UNCHANGED <<seq, from, lap, twice>> /\ tpc # "count"
    BY <1>4 DEF RunCancel, RunTick, ScheduleTick, Rearm, TestCallback, dynamics, ghosts
  <2> QED BY <2>1, BehindStay
<1>5. CASE InvokeCallback
  <2>1. /\ UNCHANGED <<seq, from>> /\ tpc = "invoke"
        /\ \/ UNCHANGED <<lap, twice>>
           \/ lap' = lap \cup {seq} /\ twice' = (twice \/ seq \in lap) /\ tpc' = "count"
    BY <1>5 DEF InvokeCallback, dynamics
  <2>2. \A v \in lap : from <= v /\ v < seq
    BY <2>1 DEF Behind
  <2>3. seq \notin lap /\ from <= seq
    BY <1>0, <2>2 DEF Behind
  <2>4. ~twice'
    BY <1>0, <2>1, <2>3
  <2>5. \A v \in lap' : from <= v /\ (v < seq \/ (v = seq /\ tpc' = "count"))
    BY <2>1, <2>2, <2>3
  <2> QED BY <2>1, <2>3, <2>4, <2>5 DEF Behind
<1>6. CASE CountTick
  <2>1. seq' = seq + 1 /\ UNCHANGED <<from, lap, twice>>
    BY <1>6 DEF CountTick, ghosts
  <2> QED BY <1>0, <2>1 DEF Behind
<1>7. CASE CheckEnd
  <2>1. tpc # "count" /\ UNCHANGED twice /\ (UNCHANGED <<seq, from, lap>> \/ SetSequence(begin))
    BY <1>7 DEF CheckEnd
  <2> QED BY <1>0, <2>1, NewLap, BehindStay
<1>8. CASE (\E t \in Timers : Expire(t)) \/ (\E w \in Pool : TakeJob(w) \/ SendJob(w))
  <2>1. UNCHANGED <<seq, from, lap, twice, tpc>>
    BY <1>8 DEF Expire, TakeJob, SendJob, dynamics, ghosts
  <2> QED BY <2>1, BehindStay
<1> QED BY <1>1, <1>2, <1>3, <1>4, <1>5, <1>6, <1>7, <1>8
        DEF Step, AdminStep, Admin, TimersThread

-----------------------------------------------------------------------------
(* A step that leaves the sequence and the counting alone keeps            *)
(* Dispatched.                                                             *)
LEMMA DispatchedStay ==
    ASSUME Dispatched, UNCHANGED <<seq, from, lap, begin, end>>, callback' => callback,
           tpc = "check" => tpc' = "check", tpc' = "count" => tpc = "count"
    PROVE  Dispatched'
BY DEF Dispatched

(* A lap starts at the beginning of the range, or one before it while a    *)
(* tick is still to be counted.                                            *)
LEMMA DispatchedLap ==
    ASSUME TypeOK, NEW v \in {begin - 1, begin}, SetSequence(v), UNCHANGED <<begin, end>>,
           v = begin => tpc' # "count"
    PROVE  Dispatched'
<1>1. /\ begin \in Int /\ end \in Int /\ begin <= end /\ v \in Int
      /\ seq' = v /\ from' = v /\ lap' = {}
  BY DEF TypeOK, SetSequence
<1>2. lap' \subseteq begin' - 1 .. end'
  BY <1>1
<1>3. begin' - 1 <= seq' /\ seq' <= end' /\ (tpc' = "count" => seq' < begin')
  BY <1>1
<1>4. \A x \in Int : ~(from' <= x /\ x < seq')
  BY <1>1
<1> QED BY <1>2, <1>3, <1>4 DEF Dispatched

(* Once a race has happened, it has happened.                              *)
LEMMA StaleStays ==
    ASSUME TypeOK, stale, Step
    PROVE  stale'
BY DEF Step, AdminStep, Trigger, Admin, TimersThread, ResetSequence, UpdateRate, UpdateRepeat,
       Refuse, SendOnce, Decide, StartTicking, StartTimer, RunCancel, RunTick, ScheduleTick,
       Rearm, TestCallback, InvokeCallback, CountTick, CheckEnd, Expire, TakeJob, SendJob, ghosts

(* Unless one of the three races happens, what is dispatched is the range. *)
LEMMA InStepStep ==
    ASSUME TypeOK, Starting, InStep, Step
    PROVE  InStep'
<1> SUFFICES ASSUME ~stale'
             PROVE  NewRange' \/ Dispatched'
  BY DEF InStep
<1>0. /\ seq \in Int /\ begin \in Int /\ end \in Int /\ from \in Int /\ lap \subseteq Int
      /\ begin <= end /\ ~stale /\ (NewRange \/ Dispatched)
  BY StaleStays DEF TypeOK, InStep
<1>1. CASE Trigger
  <2>1. Dispatched /\ apc = "idle" /\ UNCHANGED <<timer, callback, tpc>>
    BY <1>0, <1>1 DEF NewRange, Trigger, ticking
  <2>2. PICK o \in Operations :
          \/ UNCHANGED <<seq, from, lap, begin, end>>
          \/ /\ SetSequence(Given(o.sequence, seq)) /\ UNCHANGED <<begin, end>>
             /\ stale' = (stale \/ timer # NoTimer \/ tpc # "idle")
          \/ /\ apc' = "reset" /\ op' = o /\ begin' = Given(o.begin, begin)
             /\ end' = Given(o.end, end) /\ UNCHANGED <<seq, from, lap>>
    BY <1>1 DEF Trigger, dynamics
  <2>3. /\ Given(o.sequence, seq) \in Int
        /\ o.begin = {} => Given(o.begin, begin) = begin
        /\ o.end = {} => Given(o.end, end) = end
    <3>1. /\ o.sequence \in SUBSET Int /\ o.begin \in SUBSET Int /\ o.end \in SUBSET Int
      BY TickerAssumption DEF OpType
    <3> QED BY <1>0, <3>1, GivenType
  <2>4. CASE UNCHANGED <<seq, from, lap, begin, end>>
    BY <2>1, <2>4, DispatchedStay
  <2>5. CASE /\ SetSequence(Given(o.sequence, seq)) /\ UNCHANGED <<begin, end>>
             /\ stale' = (stale \/ timer # NoTimer \/ tpc # "idle")
    <3>1. timer = NoTimer /\ tpc = "idle"
      BY <2>5
    <3>2. ~callback' /\ tpc' = "idle"
      BY <2>1, <3>1 DEF Starting
    <3>3. lap' = {} /\ seq' \in Int /\ from' = seq'
      BY <2>3, <2>5 DEF SetSequence
    <3>4. lap' \subseteq begin' - 1 .. end' /\ \A x \in Int : ~(from' <= x /\ x < seq')
      BY <3>3
    <3> QED BY <3>2, <3>4 DEF Dispatched
  <2>6. CASE /\ apc' = "reset" /\ op' = o /\ begin' = Given(o.begin, begin)
             /\ end' = Given(o.end, end) /\ UNCHANGED <<seq, from, lap>>
    <3>1. CASE o.begin = {} /\ o.end = {}
      BY <2>1, <2>3, <2>6, <3>1, DispatchedStay
    <3>2. CASE ~(o.begin = {} /\ o.end = {})
      BY <2>6, <3>2 DEF NewRange, RangeProvided
    <3> QED BY <3>1, <3>2
  <2> QED BY <2>2, <2>4, <2>5, <2>6
<1>2. CASE ResetSequence
  <2>1. UNCHANGED <<begin, end, tpc, callback>>
    BY <1>2 DEF ResetSequence, ticking
  <2>2. CASE RangeProvided
    BY <1>0, <1>2, <2>1, <2>2, DispatchedLap DEF ResetSequence
  <2>3. CASE ~RangeProvided
    <3>1. Dispatched /\ UNCHANGED <<seq, from, lap>>
      BY <1>0, <1>2, <2>3 DEF ResetSequence, NewRange
    <3> QED BY <2>1, <3>1, DispatchedStay
  <2> QED BY <2>2, <2>3
<1>3. CASE UpdateRate \/ UpdateRepeat \/ Refuse \/ SendOnce \/ Decide \/ StartTimer
  <2>1. Dispatched
    BY <1>0, <1>3 DEF NewRange, UpdateRate, UpdateRepeat, Refuse, SendOnce, Decide, StartTimer
  <2>2. UNCHANGED <<seq, from, lap, begin, end, tpc>>
    BY <1>3 DEF UpdateRate, UpdateRepeat, Refuse, SendOnce, Decide, StartTimer, dynamics, ghosts
  <2>3. callback' => callback
    BY <1>3, Stops DEF UpdateRate, UpdateRepeat, Refuse, SendOnce, Decide, StartTimer, ticking
  <2> QED BY <2>1, <2>2, <2>3, DispatchedStay
<1>4. CASE StartTicking
  <2>1. Dispatched /\ UNCHANGED <<begin, end, tpc>>
    BY <1>0, <1>4 DEF NewRange, StartTicking
  <2>2. CASE seq < begin - 1 \/ seq > end
    BY <1>0, <1>4, <2>1, <2>2, DispatchedLap DEF StartTicking
  <2>3. CASE ~(seq < begin - 1 \/ seq > end)
    <3>1. UNCHANGED <<seq, from, lap>>
      BY <1>4, <2>3 DEF StartTicking
    <3>2. begin - 1 <= seq /\ seq <= end
      BY <1>0, <2>3
    <3> QED BY <2>1, <3>1, <3>2 DEF Dispatched
  <2> QED BY <2>2, <2>3
<1>5. CASE RunCancel \/ RunTick \/ ScheduleTick \/ Rearm \/ TestCallback
  <2>1. /\ UNCHANGED <<seq, from, lap, begin, end, apc, op>>
        /\ tpc # "check"
    BY <1>5 DEF RunCancel, RunTick, ScheduleTick, Rearm, TestCallback, dynamics, ghosts
  <2>2. tpc' # "count" \/ tpc' = tpc
    BY <1>0, <1>5 DEF RunCancel, RunTick, ScheduleTick, Rearm, TestCallback
  <2>3. callback' => callback
    BY <1>5, Stops DEF RunCancel, RunTick, ScheduleTick, Rearm, TestCallback, ticking
  <2>4. NewRange => NewRange'
    BY <2>1 DEF NewRange, RangeProvided
  <2> QED BY <1>0, <2>1, <2>2, <2>3, <2>4, DispatchedStay
<1>6. CASE InvokeCallback
  <2>1. /\ UNCHANGED <<seq, from, begin, end, apc, op, callback>> /\ tpc = "invoke"
        /\ \/ lap' = lap /\ tpc' = "idle"
           \/ callback /\ lap' = lap \cup {seq} /\ tpc' = "count"
    BY <1>6 DEF InvokeCallback, dynamics, ticking
  <2>2. NewRange => NewRange'
    BY <2>1 DEF NewRange, RangeProvided
  <2>3. CASE Dispatched /\ lap' = lap /\ tpc' = "idle"
    BY <2>1, <2>3, DispatchedStay
  <2>4. CASE Dispatched /\ callback /\ lap' = lap \cup {seq} /\ tpc' = "count"
    <3>1. begin - 1 <= seq /\ seq <= end
      BY <2>1, <2>4 DEF Dispatched
    <3>2. seq \in begin - 1 .. end
      BY <1>0, <3>1
    <3> QED BY <2>1, <2>4, <3>1, <3>2 DEF Dispatched
  <2> QED BY <1>0, <2>1, <2>2, <2>3, <2>4
<1>7. CASE CountTick
  <2>1. /\ UNCHANGED <<from, lap, begin, end, apc, op, callback>> /\ tpc = "count"
        /\ seq' = seq + 1 /\ tpc' = "check"
    BY <1>7 DEF CountTick, ticking, ghosts
  <2>2. NewRange => NewRange'
    BY <2>1 DEF NewRange, RangeProvided
  <2>3. CASE Dispatched
    <3>1. seq \in lap \/ seq < begin
      BY <2>1, <2>3 DEF Dispatched
    <3>2. \A v \in Int : begin <= v /\ from <= v /\ v < seq + 1 => v \in lap
      BY <1>0, <2>3, <3>1 DEF Dispatched
    <3>3. callback => begin - 1 <= seq + 1
      BY <1>0, <2>3 DEF Dispatched
    <3> QED BY <2>1, <2>3, <3>2, <3>3 DEF Dispatched
  <2> QED BY <1>0, <2>2, <2>3
<1>8. CASE CheckEnd
  <2>0. tpc = "check" /\ tpc' = "idle" /\ UNCHANGED <<begin, end, apc, op>>
    BY <1>8 DEF CheckEnd
  <2>1. NewRange => NewRange'
    BY <2>0 DEF NewRange, RangeProvided
  <2>2. CASE SetSequence(begin)
    BY <1>0, <2>0, <2>2, DispatchedLap
  <2>3. CASE Dispatched /\ ~SetSequence(begin)
    <3>1. UNCHANGED <<seq, from, lap>>
      BY <1>8, <2>3 DEF CheckEnd
    <3>2. callback' => callback /\ seq <= end
      <4>1. CASE seq > end
        <5>1. ~(seq <= end)
          BY <1>0, <4>1
        <5>2. ~repeat /\ stopTicking
          BY <1>8, <2>3, <5>1 DEF CheckEnd
        <5>3. stale' = (stale \/ (seq > end /\ ~repeat /\ timer = NoTimer /\ callback))
          BY <1>8 DEF CheckEnd
        <5>4. ~(timer = NoTimer /\ callback)
          BY <4>1, <5>2, <5>3
        <5> QED BY <5>2, <5>4, Stops
      <4>2. CASE ~(seq > end)
        BY <1>0, <1>8, <4>2 DEF CheckEnd, ticking
      <4> QED BY <4>1, <4>2
    <3> QED BY <2>0, <2>3, <3>1, <3>2 DEF Dispatched
  <2> QED BY <1>0, <2>1, <2>2, <2>3
<1>9. CASE (\E t \in Timers : Expire(t)) \/ (\E w \in Pool : TakeJob(w) \/ SendJob(w))
  <2>1. UNCHANGED <<seq, from, lap, begin, end, tpc, callback, apc, op>>
    BY <1>9 DEF Expire, TakeJob, SendJob, dynamics, ticking, ghosts
  <2>2. NewRange => NewRange'
    BY <2>1 DEF NewRange, RangeProvided
  <2> QED BY <1>0, <2>1, <2>2, DispatchedStay
<1> QED BY <1>1, <1>2, <1>3, <1>4, <1>5, <1>6, <1>7, <1>8, <1>9
        DEF Step, AdminStep, Admin, TimersThread

(* The invariant holds at the start.                                       *)
LEMMA InitInv == Init => Inv
<1> SUFFICES ASSUME Init PROVE Inv
  OBVIOUS
<1>1. TypeOK
  <2>1. NoOp \in OpType
    BY DEF NoOp, OpType
  <2>2. <<>> \in Seq(Int) /\ Len(<<>>) <= 1 /\ io \in Seq([do: {"tick", "cancel"}, timer: Timers])
    BY DEF Init
  <2>3. queue \in Seq(Int) /\ hand \in [Pool -> Seq(Int)] /\ \A w \in Pool : Len(hand[w]) <= 1
    BY <2>2 DEF Init
  <2>4. ops \in 0 .. MaxOps /\ op \in OpType
    BY <2>1, TickerAssumption DEF Init
  <2>5. /\ {seq, begin, end, from} \subseteq Int /\ begin <= end /\ lap \subseteq Int
        /\ cps \in {0, 1} /\ timer \in Timers \cup {NoTimer} /\ armed \subseteq Timers
    BY DEF Init
  <2>6. {repeat, callback, twice, changed, stale, down} \subseteq BOOLEAN
    BY DEF Init
  <2>7. tpc = "idle" /\ apc = "idle"
    BY DEF Init
  <2> QED BY <2>2, <2>3, <2>4, <2>5, <2>6, <2>7 DEF TypeOK
<1>2. NoOrphanTimer /\ Starting
  BY DEF Init, NoOrphanTimer, Starting
<1>3. Behind
  BY DEF Init, Behind
<1>4. Dispatched
  BY DEF Init, Dispatched
<1> QED BY <1>1, <1>2, <1>3, <1>4 DEF Inv, InStep

(* A step that changes nothing keeps it.                                   *)
LEMMA StutterInv ==
    ASSUME Inv, UNCHANGED vars
    PROVE  Inv'
<1> USE DEF Inv, vars, dynamics, ticking, pool, ghosts
<1>1. TypeOK'
  BY DEF TypeOK
<1>2. NoOrphanTimer' /\ Starting' /\ Behind'
  BY DEF NoOrphanTimer, Starting, Behind
<1>3. InStep'
  BY DEF InStep, NewRange, RangeProvided, Dispatched
<1> QED BY <1>1, <1>2, <1>3

(* The inductive invariant holds in every behaviour.                       *)
LEMMA Invariance == Spec => []Inv
<1>1. ASSUME Inv, Next
      PROVE  Inv'
  <2>1. Step
    BY <1>1 DEF Next, Step, AdminStep
  <2> QED BY <1>1, <2>1, TypesStep, StartingStep, BehindStep, InStepStep DEF Inv
<1> QED BY <1>1, InitInv, StutterInv, PTL DEF Spec

-----------------------------------------------------------------------------
(* Whatever operations and ticks come in whatever order, every timer that  *)
(* can still tick is the one of the provision or is going to be cancelled: *)
(* startTicking leaves no second timer behind.                             *)
THEOREM TimersAreTracked == Spec => []NoOrphanTimer
<1>1. Inv => NoOrphanTimer
  BY DEF Inv
<1> QED BY <1>1, Invariance, PTL

(* No value is dispatched twice between two settings of the sequence, and  *)
(* without one of the three races that EachValueOnce names the values      *)
(* dispatched are those of the range, congested pool or not.               *)
THEOREM RangeIsDispatched == Spec => []EachValueOnce
<1>1. Inv => EachValueOnce
  <2> SUFFICES ASSUME Inv PROVE EachValueOnce
    OBVIOUS
  <2>1. ~twice /\ begin \in Int /\ end \in Int /\ seq \in Int
    BY DEF Inv, Behind, TypeOK
  <2>2. ASSUME apc = "idle", ~stale
        PROVE  /\ \A v \in begin .. end : (from <= v /\ v < seq) => v \in lap
               /\ lap \subseteq begin - 1 .. end
    <3>1. Dispatched
      BY <2>2 DEF Inv, InStep, NewRange
    <3> QED BY <2>1, <3>1 DEF Dispatched
  <2> QED BY <2>1, <2>2 DEF EachValueOnce
<1> QED BY <1>1, Invariance, PTL

=============================================================================
