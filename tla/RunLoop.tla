------------------------------ MODULE RunLoop ------------------------------
(***************************************************************************)
(* The run loop on FreeRTOS: the lists of btstack_run_loop.c (timers, data *)
(* sources, callbacks) and the loop of btstack_run_loop_freertos.c that    *)
(* works on them in the main task, with the operations that other tasks    *)
(* and interrupt handlers may call at any time.                            *)
(*                                                                         *)
(* Time is counted in milliseconds without bound; the code only sees it    *)
(* modulo TimeMod.  A handler is one step with the effect it has on the    *)
(* run loop; what the application does besides is left out.                *)
(***************************************************************************)
EXTENDS Integers, FiniteSets, SequencesExt

CONSTANTS
    Timers,        \* timer sources of the application
    DataSources,   \* its data sources
    Callbacks,     \* its callback registrations
    Tasks,         \* the other tasks
    None,          \* the end of a list
    TimeMod,       \* 2^32, the clock counts modulo
    Boot,          \* the clock when the loop is created
    QueueLength,   \* RUN_LOOP_QUEUE_LENGTH
    Delays,        \* timeouts the application asks for, in ms
    MaxLate,       \* bound: no timer is overdue by more
    MaxTime,       \* bound on the time
    MaxPosts       \* bound on the calls of other tasks and interrupts

Half == TimeMod \div 2

\* Half the range of the clock is enough for the timers that are registered
\* together: the code compares timeouts by the sign of their difference.
ASSUME TimeAssumption ==
    /\ TimeMod \in Nat \ {0} /\ TimeMod % 2 = 0
    /\ Boot \in 0..(TimeMod - 1)
    /\ Delays \subseteq Nat /\ MaxLate \in Nat
    /\ \A d \in Delays : MaxLate + d + 1 < Half
ASSUME BoundAssumption ==
    MaxTime \in Nat /\ MaxPosts \in Nat /\ QueueLength \in Nat \ {0}
ASSUME ListAssumption == None \notin DataSources /\ IsFiniteSet(DataSources)

VARIABLES
    time,       \* milliseconds since the loop was created
    timers,     \* btstack_run_loop_base_timers: each timer with its timeout
                \* on the clock and, as auxiliary field, the time it is due
    sources,    \* btstack_run_loop_base_data_sources
    polled,     \* those with DATA_SOURCE_CALLBACK_POLL enabled
    ready,      \* auxiliary: those an interrupt asked to poll since they were
                \* polled, registered or enabled last
    callbacks,  \* btstack_run_loop_base_callbacks
    items,      \* callbacks whose message queue is not empty
    queue,      \* btstack_run_loop_queue, its length
    event,      \* the bit EVENT_GROUP_FLAG_RUN_LOOP
    exit,       \* run_loop_exit_requested
    task,       \* what each other task is about to do
    posts,      \* calls made by tasks and interrupts
    pc,         \* where the main task is in execute
    cursor,     \* next data source to poll, or callback that was popped
    now,        \* the time read at the start of the timers
    wakeup      \* end of the wait, Never without timers

lists == << timers, sources, polled, exit >>
main  == << pc, cursor, now, wakeup >>
vars  == << time, lists, main, ready, callbacks, items, queue, event, task,
            posts >>

Never == MaxTime + 1

RunLoopTypeOK ==
    /\ time \in 0..MaxTime
    /\ timers \in Seq([id : Timers, timeout : 0..(TimeMod - 1), due : Nat])
    /\ sources \in Seq(DataSources)
    /\ polled \subseteq DataSources /\ ready \subseteq DataSources
    /\ callbacks \in Seq(Callbacks)
    /\ items \subseteq Callbacks
    /\ queue \in 0..QueueLength
    /\ event \in BOOLEAN /\ exit \in BOOLEAN
    /\ task \in [Tasks -> {"idle", "trigger"} \cup Callbacks]
    /\ posts \in 0..MaxPosts
    /\ pc \in {"stopped", "poll", "callbacks", "call", "queue", "clock",
               "timers", "check", "wait"}
    /\ cursor \in DataSources \cup Callbacks \cup {None}
    /\ now \in Nat /\ wakeup \in Nat

-----------------------------------------------------------------------------
(* btstack_run_loop.c *)

Clock(t) == (Boot + t) % TimeMod

\* btstack_time_delta: the difference as a signed number.
TimeDelta(a, b) == ((a - b + Half) % TimeMod) - Half

\* Mutant: timeouts are compared as unsigned numbers.
MutantAddTimer(t, list) ==
    LET i == SelectInSeq(list, LAMBDA u : t.timeout < u.timeout)
    IN  IF i = 0 THEN Append(list, t) ELSE InsertAt(list, i, t)

\* btstack_run_loop_base_add_timer: before the first timer with a later timeout.
AddTimer(t, list) ==
    LET later(u) == TimeDelta(t.timeout, u.timeout) < 0
        i == SelectInSeq(list, later)
    IN  IF i = 0 THEN Append(list, t) ELSE InsertAt(list, i, t)

\* btstack_run_loop_base_remove_timer
RemoveTimer(id, list) == RemoveFirstMatch(list, LAMBDA t : t.id = id)

\* btstack_run_loop_freertos_set_timer: the ms that runs does not count.
SetTimer(t, d) ==
    [id |-> t, timeout |-> (Clock(time) + d + 1) % TimeMod, due |-> time + d + 1]

AddDataSource(d, list) == IF Contains(list, d) THEN list ELSE << d >> \o list

RemoveDataSource(d, list) == RemoveFirst(list, d)

\* btstack_run_loop_base_add_callback: ignored if already registered.
AddCallback(c, list) == IF Contains(list, c) THEN list ELSE Append(list, c)

First(list) == IF list = << >> THEN None ELSE Head(list)

\* The item after d in the list of data sources.
NextSource(d) ==
    LET i == SelectInSeq(sources, LAMBDA e : e = d)
    IN  IF i = Len(sources) THEN None ELSE sources[i + 1]

\* Timer that ran out at time t, the first one of the list only.
Expired(list, t) ==
    list # << >> /\ TimeDelta(Head(list).timeout, Clock(t)) <= 0

\* btstack_run_loop_base_get_time_until_timeout.
TimeUntilTimeout(t) ==
    LET delta == TimeDelta(Head(timers).timeout, Clock(t))
    IN  IF delta < 0 THEN 0 ELSE delta

-----------------------------------------------------------------------------
(* Handlers of the application, run by the main task.  They start from the *)
(* timers ts and data sources ds that the run loop left and may use any    *)
(* operation of the run loop once.  The requests rs of interrupts are left *)
(* to data sources that stay registered and enabled.                       *)

\* A timer is stopped before it is started again: add_timer asserts it.
StartTimer(ts) ==
    \E t \in Timers, d \in Delays :
        /\ time + d + 1 + MaxLate <= MaxTime
        /\ timers' = AddTimer(SetTimer(t, d), RemoveTimer(t, ts))

StopTimer(ts) == \E t \in Timers : timers' = RemoveTimer(t, ts)

ChangeSources(ds) ==
    \/ \E d \in DataSources : sources' = AddDataSource(d, ds) /\ polled' = polled
    \/ /\ \E d \in DataSources : polled' \in {polled \cup {d}, polled \ {d}}
       /\ sources' = ds

\* btstack_run_loop_trigger_exit on the main task.
TriggerExit == exit' = TRUE

Handler(ts, ds, rs) ==
    /\ \/ /\ StartTimer(ts) \/ StopTimer(ts)
          /\ sources' = ds /\ UNCHANGED << polled, exit >>
       \/ /\ ChangeSources(ds)
          /\ timers' = ts /\ UNCHANGED exit
       \/ /\ TriggerExit \/ UNCHANGED exit
          /\ timers' = ts /\ sources' = ds /\ UNCHANGED polled
    /\ ready' = rs \cap polled' \cap ToSet(sources')

-----------------------------------------------------------------------------
(* btstack_run_loop_freertos_execute *)

Goto(p) == pc' = p /\ cursor' = None

\* The first line of execute forgets an exit that was requested before.
Execute ==
    /\ pc = "stopped"
    /\ exit' = FALSE
    /\ pc' = "poll" /\ cursor' = First(sources)
    /\ UNCHANGED << time, timers, sources, polled, now, wakeup,
                    ready, callbacks, items, queue, event, task, posts >>

\* One round of btstack_run_loop_base_poll_data_sources: the successor is
\* remembered first, so that the handler may remove its own data source.
PollDataSource ==
    /\ pc = "poll" /\ cursor # None
    /\ cursor' = NextSource(cursor)
    /\ IF cursor \in polled
       THEN \E ds \in {sources, RemoveDataSource(cursor, sources)} :
                Handler(timers, ds, ready \ {cursor})
       ELSE UNCHANGED << lists, ready >>
    /\ UNCHANGED << time, pc, now, wakeup, callbacks, items, queue, event, task,
                    posts >>

PollDone ==
    /\ pc = "poll" /\ cursor = None
    /\ Goto("callbacks")
    /\ UNCHANGED << time, lists, now, wakeup, ready, callbacks, items, queue,
                    event, task, posts >>

\* A callback is taken from the list under the mutex and called without it.
PopCallback ==
    /\ pc = "callbacks"
    /\ IF callbacks = << >>
       THEN Goto("queue") /\ UNCHANGED callbacks
       ELSE /\ pc' = "call" /\ cursor' = Head(callbacks)
            /\ callbacks' = Tail(callbacks)
    /\ UNCHANGED << time, lists, now, wakeup, ready, items, queue, event, task,
                    posts >>

\* The callback handles all of its messages.
CallCallback ==
    /\ pc = "call"
    /\ items' = items \ {cursor}
    /\ Handler(timers, sources, ready)
    /\ Goto("callbacks")
    /\ UNCHANGED << time, now, wakeup, callbacks, queue, event, task,
                    posts >>

\* The deprecated queue of function calls.
ReceiveCall ==
    /\ pc = "queue"
    /\ IF queue = 0
       THEN Goto("clock") /\ UNCHANGED << queue, lists, ready >>
       ELSE /\ queue' = queue - 1
            /\ Handler(timers, sources, ready)
            /\ UNCHANGED << pc, cursor >>
    /\ UNCHANGED << time, now, wakeup, callbacks, items, event, task,
                    posts >>

ReadClock ==
    /\ pc = "clock"
    /\ now' = time
    /\ Goto("timers")
    /\ UNCHANGED << time, lists, wakeup, ready, callbacks, items, queue, event,
                    task, posts >>

\* One round of btstack_run_loop_base_process_timers.
ProcessTimer ==
    /\ pc = "timers"
    /\ IF Expired(timers, now)
       THEN /\ Handler(RemoveTimer(Head(timers).id, timers), sources, ready)
            /\ UNCHANGED pc
       ELSE pc' = "check" /\ UNCHANGED << lists, ready >>
    /\ UNCHANGED << time, cursor, now, wakeup, callbacks, items, queue,
                    event, task, posts >>

\* Mutant: the bit is cleared before the wait instead of after it.
MutantWait ==
    /\ pc = "check"
    /\ IF exit
       THEN pc' = "stopped" /\ now' = 0 /\ UNCHANGED wakeup
       ELSE /\ pc' = "wait"
            /\ wakeup' = IF timers = << >> THEN Never
                         ELSE time + TimeUntilTimeout(now)
            /\ UNCHANGED now
    /\ event' = FALSE
    /\ UNCHANGED << time, lists, cursor, ready, callbacks, items, queue,
                    task, posts >>

\* Mutant: the time until the first timer is not passed to the wait.
MutantWaitForever ==
    /\ pc = "check"
    /\ IF exit
       THEN pc' = "stopped" /\ now' = 0 /\ UNCHANGED wakeup
       ELSE pc' = "wait" /\ wakeup' = Never /\ UNCHANGED now
    /\ UNCHANGED << time, lists, cursor, ready, callbacks, items, queue,
                    event, task, posts >>

\* The end of an iteration: leave, or wait until the first timer is due as
\* seen from the time that was read before the timers were processed.
Wait ==
    /\ pc = "check"
    /\ IF exit
       THEN pc' = "stopped" /\ now' = 0 /\ UNCHANGED wakeup
       ELSE /\ pc' = "wait"
            /\ wakeup' = IF timers = << >> THEN Never
                         ELSE time + TimeUntilTimeout(now)
            /\ UNCHANGED now
    /\ UNCHANGED << time, lists, cursor, ready, callbacks, items, queue,
                    event, task, posts >>

\* The bit is cleared when the wait ends.
WakeUp ==
    /\ pc = "wait" /\ (event \/ time >= wakeup)
    /\ event' = FALSE
    /\ pc' = "poll" /\ cursor' = First(sources)
    /\ now' = 0 /\ wakeup' = 0     \* out of scope
    /\ UNCHANGED << time, lists, ready, callbacks, items, queue, task, posts >>

Main == \/ PollDataSource \/ PollDone \/ PopCallback \/ CallCallback
        \/ ReceiveCall \/ ReadClock \/ ProcessTimer \/ Wait \/ WakeUp

-----------------------------------------------------------------------------
(* Other tasks and interrupts *)

Post == posts < MaxPosts /\ posts' = posts + 1

\* The caller of execute_on_main_thread puts a message into its queue first.
PutItem(k, c) ==
    /\ task[k] = "idle" /\ Post
    /\ items' = items \cup {c}
    /\ task' = [task EXCEPT ![k] = c]
    /\ UNCHANGED << time, lists, main, ready, callbacks, queue, event >>

\* btstack_run_loop_freertos_execute_on_main_thread, the part under the mutex.
ExecuteOnMainThread(k) ==
    /\ task[k] \in Callbacks
    /\ callbacks' = AddCallback(task[k], callbacks)
    /\ task' = [task EXCEPT ![k] = "trigger"]
    /\ UNCHANGED << time, lists, main, ready, items, queue, event, posts >>

\* Mutant: the queue is taken to have room.
MutantExecuteCodeOnMainThread(k) ==
    /\ task[k] = "idle" /\ Post
    /\ queue' = queue + 1
    /\ task' = [task EXCEPT ![k] = "trigger"]
    /\ UNCHANGED << time, lists, main, ready, callbacks, items, event >>

\* btstack_run_loop_freertos_execute_code_on_main_thread: a call that does
\* not fit into the queue is dropped, the loop is triggered all the same.
ExecuteCodeOnMainThread(k) ==
    /\ task[k] = "idle" /\ Post
    /\ queue' = IF queue = QueueLength THEN queue ELSE queue + 1
    /\ task' = [task EXCEPT ![k] = "trigger"]
    /\ UNCHANGED << time, lists, main, ready, callbacks, items, event >>

\* btstack_run_loop_freertos_trigger_from_thread.
TriggerFromThread(k) ==
    /\ task[k] = "trigger"
    /\ event' = TRUE
    /\ task' = [task EXCEPT ![k] = "idle"]
    /\ UNCHANGED << time, lists, main, ready, callbacks, items, queue, posts >>

\* btstack_run_loop_freertos_trigger_exit, called by another task.
TriggerExitFromThread(k) ==
    /\ task[k] = "idle" /\ Post
    /\ TriggerExit
    /\ UNCHANGED << time, timers, sources, polled, main, ready,
                    callbacks, items, queue, event, task >>

\* Mutant: the loop is only told if it is waiting.
MutantPollDataSourcesFromIrq(d) ==
    /\ Post
    /\ ready' = ready \cup ({d} \cap polled \cap ToSet(sources))
    /\ event' = (event \/ pc = "wait")
    /\ UNCHANGED << time, lists, main, callbacks, items, queue, task >>

\* A peripheral has data for a data source; its interrupt handler calls
\* btstack_run_loop_freertos_poll_data_sources_from_irq.
PollDataSourcesFromIrq(d) ==
    /\ Post
    /\ ready' = ready \cup ({d} \cap polled \cap ToSet(sources))
    /\ event' = TRUE
    /\ UNCHANGED << time, lists, main, callbacks, items, queue, task >>

\* The time goes on.  The handlers are not so slow that a timer is overdue by
\* more than MaxLate, or that the timers of one iteration take longer.
Tick ==
    /\ time < MaxTime
    /\ pc \in {"timers", "check"} => time - now < MaxLate
    /\ \A t \in ToSet(timers) : time - t.due < MaxLate
    /\ time' = time + 1
    /\ UNCHANGED << lists, main, ready, callbacks, items, queue, event, task,
                    posts >>

Task(k) == \/ \E c \in Callbacks : PutItem(k, c)
           \/ ExecuteOnMainThread(k) \/ ExecuteCodeOnMainThread(k)
           \/ TriggerFromThread(k) \/ TriggerExitFromThread(k)

Init ==
    /\ time = 0 /\ timers = << >>
    /\ sources = SetToSeq(DataSources) /\ polled = DataSources
    /\ ready = {} /\ callbacks = << >> /\ items = {} /\ queue = 0
    /\ event = FALSE /\ exit = FALSE
    /\ task = [k \in Tasks |-> "idle"] /\ posts = 0
    /\ pc = "stopped" /\ cursor = None /\ now = 0 /\ wakeup = 0

Next == \/ Execute \/ Main \/ Tick
        \/ \E k \in Tasks : Task(k)
        \/ \E d \in DataSources : PollDataSourcesFromIrq(d)

\* The main task, once in its loop, and a task inside a function of the run
\* loop are scheduled again and again, and the time goes on.
Fairness ==
    /\ WF_vars(Main) /\ WF_vars(Tick)
    /\ \A k \in Tasks : WF_vars(ExecuteOnMainThread(k) \/ TriggerFromThread(k))

Spec == Init /\ [][Next]_vars /\ Fairness

-----------------------------------------------------------------------------
(* Properties *)

Registered == ToSet(timers)

\* Timers fire in the order of their deadlines and never early, wherever the
\* clock wraps around: the loop takes the first timer of the list for expired
\* exactly if some timer is due, and it is one that is due first.
ExpiredIsDue ==
    pc = "timers" =>
        /\ Expired(timers, now) <=> \E t \in Registered : t.due <= now
        /\ \A t \in Registered : Head(timers).due <= t.due

\* btstack_run_loop_execute_on_main_thread promises that the callback runs
\* after the last message was put into its queue, however registrations that
\* are ignored, triggers and the loop interleave.
ItemHandled ==
    \A c \in Callbacks : c \in items ~> (c \notin items \/ pc = "stopped")

\* A data source is polled after the interrupt that asked for it
\* (poll_data_sources_from_irq), unless it is disabled or removed first, also
\* when handlers remove themselves, add others or the loop is about to wait.
PolledAfterIrq ==
    \A d \in DataSources : d \in ready
        ~> (d \notin ready \/ pc = "stopped")

\* A timer that is registered fires, unless it is removed: the loop wakes up
\* for it and process_timers comes to its end.
TimerFires ==
    \A t \in Timers : (\E u \in Registered : u.id = t)
        ~> (pc = "stopped" \/ \A u \in Registered : u.id # t)

=============================================================================
