------------------------------- MODULE Ticker -------------------------------
(***************************************************************************)
(* Timer-based triggering of a client provision: the admin operation       *)
(* GET /admin/v1/client-provision/<id>?... on an admin worker              *)
(* (triggerClientOperation, updateTriggering, startTicking, stopTicking),  *)
(* the handler of the provision's timer on the timers thread               *)
(* (scheduleTick) and the worker pool that executes what a tick dispatches *)
(* (postToPool, sendClientRequest).                                        *)
(*                                                                         *)
(* The threads share atomics and a plain pointer; no lock is taken, so     *)
(* every access that matters is a step.  Time is left out: an armed timer  *)
(* may expire at any moment, and a rate is stopped or not.                 *)
(***************************************************************************)
EXTENDS Integers, Sequences, FiniteSets

CONSTANTS
    Operations,   \* the admin operations that may be requested, see OpType
    MaxOps,       \* bound on their number
    Pool,         \* the threads of the client worker pool, {} for none
    MaxPending,   \* --traffic-client-pool-max-pending, 0 is unlimited
    SeqValues    \* bound on the sequence values

(* A parameter that is given is a singleton, the empty set otherwise; bad  *)
(* names the parameter that does not parse or is out of its domain.        *)
OpType == [sequence: SUBSET SeqValues, begin: SUBSET SeqValues,
           end: SUBSET SeqValues, cps: SUBSET {0, 1}, repeat: SUBSET BOOLEAN,
           bad: {"none", "sequence", "range", "cps", "repeat"}]

ASSUME TickerAssumption ==
    /\ Operations \subseteq OpType
    /\ \A o \in Operations :
         /\ \A s \in {o.sequence, o.begin, o.end, o.cps} : Cardinality(s) <= 1
         /\ Cardinality(o.repeat) <= 1
    /\ MaxOps \in Nat /\ MaxPending \in Nat
    /\ SeqValues \subseteq Int

(* An operation makes one timer at most, which is named after it.          *)
Timers == 1 .. MaxOps
NoTimer == 0

VARIABLES
    seq, begin, end, cps, repeat,  \* seq_, seq_begin_, seq_end_, cps_, repeat_
    timer,      \* timer_
    callback,   \* tick_callback_ is set
    armed,      \* timers with a pending async_wait
    io,         \* the queue of the timers io_context: ticks and cancellations
    tpc,        \* where the timers thread is
    apc, op,    \* where the admin operation is, and its parameters
    ops,        \* operations requested so far
    queue,      \* sequence values posted to the pool
    hand,       \* the job of each pool thread: empty or one sequence value
    down,       \* a null timer or callback has been used
    from,       \* history: the value seq_ was last set to
    lap,        \* history: values dispatched since then
    twice,      \* history: a value was dispatched twice in a lap
    changed,    \* history: a dispatch (not negative) was executed with another value
    stale       \* history: a tick was counted that no callback dispatched, a
                \* single shot has set the sequence of a running timer, or a
                \* range ended before its restarted timer was there to stop

dynamics == <<seq, begin, end, cps, repeat>>
ticking == <<timer, callback, armed, io>>
pool == <<queue, hand>>
ghosts == <<from, lap, twice, changed, stale>>
vars == <<dynamics, ticking, tpc, apc, op, ops, pool, down, ghosts>>

Tick(t) == [do |-> "tick", timer |-> t]
Cancel(t) == [do |-> "cancel", timer |-> t]

NoOp == [sequence |-> {}, begin |-> {}, end |-> {}, cps |-> {}, repeat |-> {},
         bad |-> "none"]

Given(parameter, default) == CHOOSE v \in parameter \cup {default} :
                               parameter # {} => v \in parameter

TypeOK ==
    /\ {seq, begin, end, from} \subseteq Int /\ begin <= end /\ lap \subseteq Int
    /\ cps \in {0, 1} /\ {repeat, callback, twice, changed, stale, down} \subseteq BOOLEAN
    /\ timer \in Timers \cup {NoTimer} /\ armed \subseteq Timers
    /\ io \in Seq([do: {"tick", "cancel"}, timer: Timers])
    /\ tpc \in {"idle", "schedule", "arm", "test", "invoke", "count", "check"}
    /\ apc \in {"idle", "reset", "rate", "repeat", "once", "decide", "start", "arm"}
    /\ op \in OpType /\ ops \in 0 .. MaxOps
    /\ queue \in Seq(Int) /\ hand \in [Pool -> Seq(Int)]
    /\ \A w \in Pool : Len(hand[w]) <= 1

Init ==
    /\ seq = 0 /\ begin = 0 /\ end = 0 /\ cps = 0 /\ repeat = FALSE
    /\ timer = NoTimer /\ callback = FALSE /\ armed = {} /\ io = <<>>
    /\ tpc = "idle" /\ apc = "idle" /\ op = NoOp /\ ops = 0
    /\ queue = <<>> /\ hand = [w \in Pool |-> <<>>]
    /\ down = FALSE
    /\ from = 0 /\ lap = {} /\ twice = FALSE /\ changed = FALSE /\ stale = FALSE

-----------------------------------------------------------------------------
(* Mutant: the timer is not cancelled.                                     *)
stopTickingNoCancel ==
    /\ timer' = NoTimer /\ callback' = FALSE
    /\ UNCHANGED <<io, armed>>

(* stopTicking: the pointer is cleared at once, the timer is cancelled and *)
(* deleted on the timers thread.                                           *)
stopTicking ==
    IF timer # NoTimer
      THEN /\ timer' = NoTimer
           /\ callback' = FALSE
           /\ io' = Append(io, Cancel(timer))
           /\ UNCHANGED armed
      ELSE UNCHANGED ticking

(* seq_ is assigned: what is dispatched from now on is a new lap.          *)
SetSequence(value) ==
    /\ seq' = value
    /\ from' = value /\ lap' = {}

(* The operation is answered.                                              *)
Answered ==
    /\ apc' = "idle"
    /\ op' = NoOp

RangeProvided == op.begin # {} \/ op.end # {}
Dynamics(o) == {o.begin, o.end, o.cps} # {{}} \/ o.repeat # {}

(* triggerClientOperation up to the range of updateTriggering: sequence is *)
(* exclusive with the other parameters, a range that does not parse or is  *)
(* empty is rejected before anything changes.                              *)
Rejected(o) ==
    \/ o.sequence # {} /\ Dynamics(o)
    \/ o.bad \in {"sequence", "range"}
    \/ Dynamics(o) /\ Given(o.begin, begin) > Given(o.end, end)

Trigger ==
    /\ apc = "idle"
    /\ ops < MaxOps
    /\ ops' = ops + 1
    /\ \E o \in Operations :
         \/ /\ Rejected(o)
            /\ UNCHANGED <<apc, op, dynamics, from, lap, stale>>
         \/ /\ ~Rejected(o) /\ ~Dynamics(o)
            /\ apc' = "once" /\ op' = o
            /\ IF o.sequence # {}
                 THEN /\ SetSequence(Given(o.sequence, seq))
                      /\ stale' = (stale \/ timer # NoTimer \/ tpc # "idle")
                 ELSE UNCHANGED <<seq, from, lap, stale>>
            /\ UNCHANGED <<begin, end, cps, repeat>>
         \/ /\ ~Rejected(o) /\ Dynamics(o)
            /\ apc' = "reset" /\ op' = o
            /\ begin' = Given(o.begin, begin)
            /\ end' = Given(o.end, end)
            /\ UNCHANGED <<seq, cps, repeat, from, lap, stale>>
    /\ UNCHANGED <<ticking, tpc, pool, down, twice, changed>>

(* A new range starts afresh.                                              *)
ResetSequence ==
    /\ apc = "reset"
    /\ apc' = "rate"
    /\ IF RangeProvided
         THEN SetSequence(begin - 1)
         ELSE UNCHANGED <<seq, from, lap>>
    /\ UNCHANGED <<begin, end, cps, repeat, ticking, tpc, op, ops, pool, down, twice, changed, stale>>

(* A rate or a repeat that is not valid answers 400 with what was assigned *)
(* before it in place.                                                     *)
UpdateRate ==
    /\ apc = "rate"
    /\ IF op.bad = "cps"
         THEN Answered /\ UNCHANGED cps
         ELSE /\ cps' = Given(op.cps, cps)
              /\ apc' = "repeat" /\ UNCHANGED op
    /\ UNCHANGED <<seq, begin, end, repeat, ticking, tpc, ops, pool, down, ghosts>>

UpdateRepeat ==
    /\ apc = "repeat"
    /\ IF op.bad = "repeat"
         THEN Answered /\ UNCHANGED repeat
         ELSE /\ repeat' = Given(op.repeat, repeat)
              /\ apc' = "decide" /\ UNCHANGED op
    /\ UNCHANGED <<seq, begin, end, cps, ticking, tpc, ops, pool, down, ghosts>>

(* The endpoint is not provisioned (404) or not permitted (403).           *)
Refuse ==
    /\ apc \in {"once", "decide"}
    /\ Answered
    /\ UNCHANGED <<dynamics, ticking, tpc, ops, pool, down, ghosts>>

(* A single request, sent by the admin worker with the current sequence.   *)
SendOnce ==
    /\ apc = "once"
    /\ Answered
    /\ UNCHANGED <<dynamics, ticking, tpc, ops, pool, down, ghosts>>

(* A positive rate starts the timer unless it is there; zero stops it.     *)
Decide ==
    /\ apc = "decide"
    /\ \/ /\ cps > 0 /\ timer = NoTimer
          /\ apc' = "start" /\ UNCHANGED <<op, ticking>>
       \/ /\ cps > 0 /\ timer # NoTimer
          /\ Answered /\ UNCHANGED ticking
       \/ /\ cps = 0
          /\ stopTicking /\ Answered
    /\ UNCHANGED <<dynamics, tpc, ops, pool, down, ghosts>>

(* startTicking: the callback is set and a sequence outside the range is   *)
(* set back to its beginning ...                                           *)
StartTicking ==
    /\ apc = "start"
    /\ timer' = NoTimer
    /\ io' = IF timer = NoTimer THEN io ELSE Append(io, Cancel(timer))
    /\ callback' = TRUE
    /\ IF seq < begin - 1 \/ seq > end
         THEN SetSequence(begin - 1)
         ELSE UNCHANGED <<seq, from, lap>>
    /\ apc' = "arm"
    /\ UNCHANGED <<begin, end, cps, repeat, armed, tpc, op, ops, pool, down, twice, changed, stale>>

(* ... and a new timer waits for the first tick.                           *)
StartTimer ==
    /\ apc = "arm"
    /\ IF cps = 0
         THEN /\ timer' = NoTimer /\ callback' = FALSE
              /\ io' = Append(io, Cancel(ops))
              /\ UNCHANGED armed
         ELSE /\ timer' = ops
              /\ armed' = armed \cup {ops}
              /\ UNCHANGED <<callback, io>>
    /\ Answered
    /\ UNCHANGED <<dynamics, tpc, ops, pool, down, ghosts>>

-----------------------------------------------------------------------------
(* An armed timer expires: its handler is queued, and no cancellation      *)
(* reaches it any more.                                                    *)
Expire(t) ==
    /\ t \in armed
    /\ armed' = armed \ {t}
    /\ io' = Append(io, Tick(t))
    /\ UNCHANGED <<dynamics, timer, callback, tpc, apc, op, ops, pool, down, ghosts>>

(* The timers thread takes what is next in its queue.                      *)
RunCancel ==
    /\ tpc = "idle" /\ io # <<>> /\ Head(io).do = "cancel"
    /\ io' = Tail(io)
    /\ armed' = armed \ {Head(io).timer}
    /\ UNCHANGED <<dynamics, timer, callback, tpc, apc, op, ops, pool, down, ghosts>>

RunTick ==
    /\ tpc = "idle" /\ io # <<>> /\ Head(io).do = "tick"
    /\ io' = Tail(io)
    /\ tpc' = "schedule"
    /\ UNCHANGED <<dynamics, timer, callback, armed, apc, op, ops, pool, down, ghosts>>

(* scheduleTick: the next wait comes first, unless there is no timer or no *)
(* rate ...                                                                *)
ScheduleTick ==
    /\ tpc = "schedule"
    /\ IF timer = NoTimer \/ cps = 0
         THEN stopTicking /\ tpc' = "test"
         ELSE UNCHANGED ticking /\ tpc' = "arm"
    /\ UNCHANGED <<dynamics, apc, op, ops, pool, down, ghosts>>

(* ... with the pointer read again.                                        *)
Rearm ==
    /\ tpc = "arm"
    /\ IF timer # NoTimer
         THEN /\ armed' = armed \cup {timer} /\ tpc' = "test" /\ UNCHANGED down
         ELSE /\ down' = TRUE /\ tpc' = "idle" /\ UNCHANGED armed
    /\ UNCHANGED <<dynamics, timer, callback, io, apc, op, ops, pool, ghosts>>

(* A handler without callback only counts.                                 *)
TestCallback ==
    /\ tpc = "test"
    /\ tpc' = IF callback THEN "invoke" ELSE "count"
    /\ stale' = (stale \/ ~callback)
    /\ UNCHANGED <<dynamics, ticking, apc, op, ops, pool, down, from, lap, twice, changed>>

Congested == MaxPending > 0 /\ Len(queue) >= MaxPending

(* Mutant: the pool drops the job of a tick it has no room for.            *)
InvokeDropsCongested ==
    /\ tpc = "invoke" /\ callback
    /\ lap' = IF Pool # {} /\ Congested THEN lap ELSE lap \cup {seq}
    /\ twice' = (twice \/ seq \in lap)
    /\ queue' = IF Pool = {} \/ Congested THEN queue ELSE Append(queue, seq)
    /\ tpc' = "count"
    /\ UNCHANGED <<dynamics, ticking, apc, op, ops, hand, down, from, changed, stale>>

(* The tick is dispatched with the sequence of this moment: to the pool,   *)
(* if it is not congested, or executed here.                               *)
InvokeCallback ==
    /\ tpc = "invoke"
    /\ \/ /\ ~callback
          /\ down' = TRUE /\ tpc' = "idle"
          /\ UNCHANGED <<queue, lap, twice>>
       \/ /\ callback /\ Pool # {} /\ Congested
          /\ tpc' = "idle"
          /\ UNCHANGED <<queue, down, lap, twice>>
       \/ /\ callback /\ ~(Pool # {} /\ Congested)
          /\ queue' = IF Pool = {} THEN queue ELSE Append(queue, seq)
          /\ lap' = lap \cup {seq}
          /\ twice' = (twice \/ seq \in lap)
          /\ tpc' = "count"
          /\ UNCHANGED down
    /\ UNCHANGED <<dynamics, ticking, apc, op, ops, hand, from, changed, stale>>

CountTick ==
    /\ tpc = "count"
    /\ seq' = seq + 1
    /\ tpc' = "check"
    /\ UNCHANGED <<begin, end, cps, repeat, ticking, apc, op, ops, pool, down, ghosts>>

(* Mutant: every range is repeated.                                        *)
CheckEndAlwaysRepeats ==
    /\ tpc = "check"
    /\ tpc' = "idle"
    /\ IF seq > end THEN SetSequence(begin) ELSE UNCHANGED <<seq, from, lap>>
    /\ UNCHANGED <<begin, end, cps, repeat, ticking, apc, op, ops, pool, down, twice, changed, stale>>

(* Past the end the range is repeated from its beginning or left.          *)
CheckEnd ==
    /\ tpc = "check"
    /\ tpc' = "idle"
    /\ \/ /\ seq > end /\ repeat
          /\ SetSequence(begin)
          /\ UNCHANGED ticking
       \/ /\ seq > end /\ ~repeat
          /\ stopTicking
          /\ UNCHANGED <<seq, from, lap>>
       \/ /\ seq <= end
          /\ UNCHANGED <<ticking, seq, from, lap>>
    /\ stale' = (stale \/ (seq > end /\ ~repeat /\ timer = NoTimer /\ callback))
    /\ UNCHANGED <<begin, end, cps, repeat, apc, op, ops, pool, down, twice, changed>>

(* A pool thread takes the next job ...                                    *)
TakeJob(w) ==
    /\ hand[w] = <<>> /\ queue # <<>>
    /\ hand' = [hand EXCEPT ![w] = <<Head(queue)>>]
    /\ queue' = Tail(queue)
    /\ UNCHANGED <<dynamics, ticking, tpc, apc, op, ops, down, ghosts>>

(* Mutant: the sequence is read when the job is executed.                  *)
SendJobCurrent(w) ==
    /\ hand[w] # <<>>
    /\ changed' = (changed \/ (Head(hand[w]) >= 0 /\ seq # Head(hand[w])))
    /\ hand' = [hand EXCEPT ![w] = <<>>]
    /\ UNCHANGED <<dynamics, ticking, tpc, apc, op, ops, queue, down, from, lap, twice, stale>>

(* ... and sends the request; a negative sequence means "not given" there, *)
(* and the current one of the provision is used.                           *)
SendJob(w) ==
    /\ hand[w] # <<>>
    /\ LET given == Head(hand[w])
           used == IF given >= 0 THEN given ELSE seq
       IN  changed' = (changed \/ (given >= 0 /\ used # given))
    /\ hand' = [hand EXCEPT ![w] = <<>>]
    /\ UNCHANGED <<dynamics, ticking, tpc, apc, op, ops, queue, down, from, lap, twice, stale>>

-----------------------------------------------------------------------------
Admin ==
    \/ ResetSequence \/ UpdateRate \/ UpdateRepeat \/ Refuse \/ SendOnce \/ Decide
    \/ StartTicking \/ StartTimer

TimersThread ==
    \/ RunCancel \/ RunTick \/ ScheduleTick \/ Rearm \/ TestCallback
    \/ InvokeCallback \/ CountTick \/ CheckEnd

Next ==
    /\ ~down
    /\ \/ Trigger \/ Admin \/ TimersThread
       \/ \E t \in Timers : Expire(t)
       \/ \E w \in Pool : TakeJob(w) \/ SendJob(w)

Spec == Init /\ [][Next]_vars

(* The admin worker, the timers thread and the pool threads run, and a     *)
(* timer that is armed expires; nobody has to trigger anything.            *)
FairSpec ==
    /\ Spec
    /\ WF_vars(~down /\ Admin) /\ WF_vars(~down /\ TimersThread)
    /\ \A t \in Timers : WF_vars(~down /\ Expire(t))
    /\ \A w \in Pool : WF_vars(~down /\ TakeJob(w)) /\ WF_vars(~down /\ SendJob(w))

-----------------------------------------------------------------------------
(* Congested: "seq not advanced, will retry".  Whatever congestion there   *)
(* was, the values dispatched are those of the range between the one the   *)
(* sequence was last set to and the current one, and each was dispatched   *)
(* once; the only other is the one before the beginning.  Three things do  *)
(* skip or add values: a handler that outlived its timer finds no callback *)
(* and only counts, a single shot moves the sequence of a running timer,   *)
(* and the handler of an earlier timer may end the range between the       *)
(* callback and the timer of startTicking, where stopTicking finds none.   *)
EachValueOnce ==
    /\ ~twice
    /\ (apc = "idle" /\ ~stale) =>
         /\ \A v \in begin .. end : (from <= v /\ v < seq) => v \in lap
         /\ lap \subseteq begin - 1 .. end

(* Every timer that can still tick is the one stopTicking would stop, or   *)
(* its cancellation is on its way.                                         *)
NoOrphanTimer ==
    \A t \in Timers :
      t \in armed => \/ t = timer
                     \/ \E i \in DOMAIN io : io[i] = Cancel(t)

(* A dispatch is executed with the sequence it was dispatched with, unless *)
(* that is negative: sendClientRequest takes it for "not given".           *)
SequenceKept == ~changed

(* "When the range of sequences is completed, trigger configuration is     *)
(* reset": without repetition the timer ends, whatever congestion there is *)
(* on the way.                                                             *)
RangeCompletes == <>[](timer = NoTimer \/ repeat)
=============================================================================
