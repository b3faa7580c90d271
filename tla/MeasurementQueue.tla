-------------------------- MODULE MeasurementQueue --------------------------
(***************************************************************************)
(* The serial measurement scheduler (bench/scheduler.py).  It keeps one    *)
(* row per step, in memory and in state.json; it runs one command at a     *)
(* time in a session of its own, so a command outlives a scheduler that    *)
(* dies.  Status 75 means the round was disturbed and is tried again after *)
(* a cooldown; a timing budget pauses timed steps; at the deadline what is *)
(* still pending is given up.                                              *)
(*                                                                         *)
(* A crash loses memory and keeps the two files, which are written one     *)
(* after the other.  One unit of time is one sleep of the dispatch loop.   *)
(***************************************************************************)
EXTENDS Naturals, FiniteSets

CONSTANTS
    Step,        \* the names of the steps
    Gpu, Timed,  \* those that use the GPU, and of these the timed ones
    After,       \* per step: the steps that must be done
    AfterAny,    \* per step: the steps that must have some verdict
    Order,        \* per step: its place in the order (priority, name)
    Files,       \* the queue files: sets of steps
    Late,        \* the files that come later
    Hours,       \* --deadline-hours
    IdleLimit,   \* policy.max_idle_wait_s
    MaxStarts    \* bound on starts of the scheduler

ASSUME StepAssumption ==
    /\ Timed \subseteq Gpu /\ Gpu \subseteq Step
    /\ Late \subseteq Files /\ UNION Files = Step
    /\ \A f, g \in Files : f = g \/ f \cap g = {}
    /\ After \in [Step -> SUBSET Step] /\ AfterAny \in [Step -> SUBSET Step]
    /\ Order \in [Step -> Nat]
    /\ \A s, t \in Step : Order[s] = Order[t] => s = t

ASSUME BoundAssumption == {Hours, IdleLimit, MaxStarts} \subseteq Nat

VARIABLES
    queue,     \* per step: which queue files name it: "later", "here", "moved"
    disk,      \* state.json and control.json
    receipts,  \* the files <name>.<status>
    doing, back,  \* where the scheduler is; where it goes after persist()
    mem,       \* the scheduler's state and control
    deadline,  \* its deadline
    todo,      \* ready and skipped, as ready_steps returned them
    code,      \* the exit code of the command it waits for
    live,      \* commands that are running: [step, attempt]
    now,       \* time
    starts     \* starts so far

schedulerVars == <<doing, back, mem, deadline, todo, code>>
fileVars == <<disk, receipts>>
queueVars == <<queue, fileVars, schedulerVars, live, now, starts>>

Terminal == {"done", "failed", "skipped", "not_run", "cancelled"}
NoCode == "none"
NoTodo == [ready |-> {}, skipped |-> {}]
NoRow == [status |-> "absent", attempts |-> 0, retry_at |-> 0]
NewRow == [NoRow EXCEPT !.status = "pending"]
Never == Hours * MaxStarts + MaxStarts   \* later than any time
NewControl == [idle_wait_since |-> Never, timing_paused |-> FALSE]
Blank == [rows |-> [s \in Step |-> NoRow], control |-> NewControl]

Here == {s \in Step : queue[s] = "here"}
Status(s) == mem.rows[s].status

\* The step the scheduler has chosen, by its row.
Chosen == CHOOSE s \in Step : Status(s) = "running"
Command == [step |-> Chosen, attempt |-> mem.rows[Chosen].attempts]

QueueInit ==
    /\ queue = [s \in Step |-> IF s \in UNION Late THEN "later" ELSE "here"]
    /\ disk = Blank
    /\ receipts = {}
    /\ doing = "down" /\ back = "loop"
    /\ mem = Blank
    /\ deadline = 0
    /\ todo = NoTodo
    /\ code = NoCode
    /\ live = {}
    /\ now = 0
    /\ starts = 0

---------------------------------------------------------------------------
(* The scheduler. *)

Go(p) == doing' = p /\ UNCHANGED back

\* persist() is two files, then the code after the call.
PersistThen(p) == doing' = "persist" /\ back' = p

\* Mutant: a restart takes over whatever it finds.
NothingRunning_TakeOver == TRUE

NothingRunning == \A s \in Step : disk.rows[s].status # "running"

\* main: the flock, the two files, and the refusal to replay a running row.
Start ==
    /\ doing \in {"down", "exited"}
    /\ starts < MaxStarts
    /\ NothingRunning
    /\ starts' = starts + 1
    /\ \E resume_timing \in BOOLEAN :
          mem' = IF resume_timing THEN [disk EXCEPT !.control = NewControl] ELSE disk
    /\ deadline' = now + Hours
    /\ todo' = NoTodo /\ code' = NoCode
    /\ Go("loop")
    /\ UNCHANGED <<queue, fileVars, live, now>>

\* The rows of a book after state.setdefault for every queued step.
WithQueued(rows) ==
    [s \in Step |-> IF s \in Here /\ rows[s] = NoRow THEN NewRow ELSE rows[s]]

\* Mutant: a cooldown that is over lets a step pass the ones it comes after.
ReadySteps_Retried(rows) ==
    LET pending == {s \in Here : rows[s].status = "pending"}
        lost == {s \in pending : \E d \in After[s] :
                    rows[d].status \in Terminal \ {"done"}}
    IN [ready |-> {s \in pending \ lost :
                     /\ \A d \in After[s] : rows[d].status = "done"
                     /\ \A d \in AfterAny[s] : rows[d].attempts > 0
                     /\ rows[s].retry_at <= now},
        skipped |-> lost]

\* ready_steps: a required step without success is a reason to skip.
ReadySteps(rows) ==
    LET pending == {s \in Here : rows[s].status = "pending"}
        lost == {s \in pending : \E d \in After[s] :
                    rows[d].status \in Terminal \ {"done"}}
    IN [ready |-> {s \in pending \ lost :
                     /\ \A d \in After[s] : rows[d].status = "done"
                     /\ \A d \in AfterAny[s] : rows[d].status \in Terminal
                     /\ rows[s].retry_at <= now},
        skipped |-> lost]

\* The head of the loop: the queue files are read again every time.
ScanQueue ==
    /\ doing = "loop" /\ now < deadline
    /\ mem' = [mem EXCEPT !.rows = WithQueued(@)]
    /\ todo' = ReadySteps(WithQueued(mem.rows))
    /\ Go("dispatch")
    /\ UNCHANGED <<queue, fileVars, deadline, code, live, now, starts>>

\* Less than 256 MiB for receipts and logs.
NoDiskSpace ==
    /\ doing = "loop" /\ now < deadline
    /\ Go("sleep")
    /\ UNCHANGED <<queue, fileVars, mem, deadline, todo, code, live, now, starts>>

\* Mutant: only commands that ran leave a receipt.
Record_Ran(s, row, control, next) ==
    /\ mem' = [rows |-> [mem.rows EXCEPT ![s] = row], control |-> control]
    /\ receipts' = IF row.status \in {"done", "failed"}
                   THEN receipts \cup {<<s, row.status>>} ELSE receipts
    /\ PersistThen(next)

\* record(): the receipt of a verdict is written before the two files.
Record(s, row, control, next) ==
    /\ mem' = [rows |-> [mem.rows EXCEPT ![s] = row], control |-> control]
    /\ receipts' = IF row.status \in Terminal
                   THEN receipts \cup {<<s, row.status>>} ELSE receipts
    /\ PersistThen(next)

SkipStep ==
    /\ doing = "dispatch"
    /\ \E s \in todo.skipped :
          /\ todo' = [todo EXCEPT !.skipped = @ \ {s}]
          /\ Record(s, [mem.rows[s] EXCEPT !.status = "skipped"], mem.control, "dispatch")
    /\ UNCHANGED <<queue, disk, deadline, code, live, now, starts>>

\* pending_timing: it looks at the dependencies and not at the cooldown.
PendingTiming ==
    \E s \in Here \cap Timed :
        /\ Status(s) = "pending"
        /\ \A d \in After[s] : Status(d) = "done"
        /\ \A d \in AfterAny[s] : Status(d) \in Terminal

\* timing_pause, which the loop calls with available = False.
TimingPause(control) ==
    LET since == IF control.idle_wait_since = Never THEN now
                 ELSE control.idle_wait_since
    IN IF control.timing_paused THEN control
       ELSE IF ~PendingTiming THEN [control EXCEPT !.idle_wait_since = Never]
       ELSE [idle_wait_since |-> since, timing_paused |-> now - since >= IdleLimit]

\* The steps that may start: every ready CPU step, and the GPU steps for
\* which the card is idle and the NUMA window looks free.
Startable(idle, control) ==
    (todo.ready \ Gpu) \cup
    {s \in idle : ~(control.timing_paused /\ s \in Timed)}

IsFirst(s, S) == s \in S /\ \A t \in S : Order[s] <= Order[t]

\* A step is chosen; its row says running on disk before it is started.
Dispatch ==
    /\ doing = "dispatch" /\ todo.skipped = {}
    /\ \E idle \in SUBSET (todo.ready \cap Gpu), chosen \in todo.ready :
          LET control == TimingPause(mem.control)
          IN /\ IsFirst(chosen, Startable(idle, control))
             /\ mem' = [rows |-> [mem.rows EXCEPT ![chosen].status = "running",
                                               ![chosen].attempts = @ + 1],
                     control |-> control]
    /\ PersistThen("launch")
    /\ todo' = NoTodo
    /\ UNCHANGED <<queue, fileVars, deadline, code, live, now, starts>>

\* prepare_attempt found no space: the pending row is left as it was.
NoAttemptFolder ==
    /\ doing = "dispatch" /\ todo.skipped = {}
    /\ Startable(todo.ready \cap Gpu, TimingPause(mem.control)) # {}
    /\ mem' = [mem EXCEPT !.control = TimingPause(@)]
    /\ todo' = NoTodo
    /\ Go("sleep")
    /\ UNCHANGED <<queue, fileVars, deadline, code, live, now, starts>>

\* Mutant: the loop ends when nothing can be started.
AllSettled_NothingReady == todo.ready = {}

AllSettled == Here # {} /\ \A s \in Here : Status(s) \in Terminal
OnlyPausedTiming(control) == control.timing_paused /\ todo.ready \subseteq Timed

\* Nothing can start: the loop ends, or sleeps and looks again.
NothingToDispatch ==
    /\ doing = "dispatch" /\ todo.skipped = {}
    /\ LET control == TimingPause(mem.control)
       IN /\ Startable({}, control) = {}
          /\ mem' = [mem EXCEPT !.control = control]
          /\ PersistThen(IF AllSettled \/ OnlyPausedTiming(control)
                         THEN "exited" ELSE "sleep")
    /\ todo' = NoTodo
    /\ UNCHANGED <<queue, fileVars, deadline, code, live, now, starts>>

PersistState ==
    /\ doing = "persist"
    /\ disk' = [disk EXCEPT !.rows = mem.rows]
    /\ Go("persist_control")
    /\ UNCHANGED <<queue, receipts, mem, deadline, todo, code, live, now, starts>>

PersistControl ==
    /\ doing = "persist_control"
    /\ disk' = [disk EXCEPT !.control = mem.control]
    /\ Go(back)
    /\ UNCHANGED <<queue, receipts, mem, deadline, todo, code, live, now, starts>>

\* Popen with start_new_session.
Launch ==
    /\ doing = "launch"
    /\ live' = live \cup {Command}
    /\ code' = NoCode
    /\ Go("wait")
    /\ UNCHANGED <<queue, fileVars, mem, deadline, todo, now, starts>>

\* proc.wait timed out: the whole session is stopped and the code is 124.
Timeout ==
    /\ doing = "wait" /\ code = NoCode
    /\ live' = live \ {Command}
    /\ code' = "failed"
    /\ UNCHANGED <<queue, fileVars, doing, back, mem, deadline, todo, now, starts>>

\* After the wait: 75 is tried again, anything else is a verdict.  A clean
\* timed run gives the whole idle budget back.
Collect ==
    /\ doing = "wait" /\ code # NoCode
    /\ IF code = "retry"
       THEN \E cooldown \in 1 .. 2 :
              Record(Chosen, [mem.rows[Chosen] EXCEPT !.status = "pending",
                                                      !.retry_at = now + cooldown],
                     mem.control, "loop")
       ELSE Record(Chosen, [mem.rows[Chosen] EXCEPT !.status = code],
                   IF code = "done" /\ Chosen \in Timed
                   THEN [mem.control EXCEPT !.idle_wait_since = Never]
                   ELSE mem.control,
                   "loop")
    /\ code' = NoCode
    /\ UNCHANGED <<queue, disk, deadline, todo, live, now, starts>>

Sleep ==
    /\ doing = "sleep"
    /\ now' = now + 1
    /\ Go("loop")
    /\ UNCHANGED <<queue, fileVars, mem, deadline, todo, code, live, starts>>

\* After the loop: every row still pending is given up, one record each.
GiveUp ==
    /\ doing = "loop" /\ now >= deadline
    /\ IF \E s \in Step : Status(s) = "pending"
       THEN \E s \in Step :
              /\ Status(s) = "pending"
              /\ Record(s, [mem.rows[s] EXCEPT !.status = "not_run"], mem.control, "loop")
       ELSE Go("exited") /\ UNCHANGED <<mem, receipts>>
    /\ UNCHANGED <<queue, disk, deadline, todo, code, live, now, starts>>

Scheduler ==
    \/ ScanQueue \/ NoDiskSpace \/ SkipStep \/ Dispatch \/ NoAttemptFolder
    \/ NothingToDispatch \/ PersistState \/ PersistControl \/ Launch
    \/ Timeout \/ Collect \/ Sleep \/ GiveUp

---------------------------------------------------------------------------
(* Its surroundings. *)

\* A command ends; only the scheduler that started it learns how.
CommandEnds ==
    /\ \E c \in live :
          /\ live' = live \ {c}
          /\ IF doing = "wait" /\ c = Command THEN code' \in {"done", "failed", "retry"} ELSE UNCHANGED code
    /\ UNCHANGED <<queue, fileVars, doing, back, mem, deadline, todo, now, starts>>

\* A command may outlast the deadline; how far makes no difference.
CommandGoesOn ==
    /\ doing = "wait" /\ code = NoCode /\ now <= deadline
    /\ now' = now + 1
    /\ UNCHANGED <<queue, fileVars, schedulerVars, live, starts>>

\* The process dies: memory is lost, the files and the command are not.
Crash ==
    /\ doing \notin {"down", "exited"}
    /\ doing' = "down" /\ back' = "loop"
    /\ mem' = Blank /\ deadline' = 0 /\ todo' = NoTodo /\ code' = NoCode
    /\ UNCHANGED <<queue, fileVars, live, now, starts>>

\* "inspect its processes before resetting state": someone looked, and
\* nothing of the interrupted step was left.
ResetRow ==
    /\ doing = "down"
    /\ \E s \in Step :
          /\ disk.rows[s].status = "running"
          /\ \A c \in live : c.step # s
          /\ disk' = [disk EXCEPT !.rows[s].status = "pending"]
    /\ UNCHANGED <<queue, receipts, schedulerVars, live, now, starts>>

\* A queue file comes, or moves to another card as long as none of its
\* cohort has started.
QueueFileChanges ==
    /\ \E f \in Files :
          \/ /\ \A s \in f : queue[s] = "later"
             /\ queue' = [s \in Step |-> IF s \in f THEN "here" ELSE queue[s]]
          \/ /\ \A s \in f : queue[s] = "here" /\ disk.rows[s].attempts = 0
             /\ queue' = [s \in Step |-> IF s \in f THEN "moved" ELSE queue[s]]
    /\ UNCHANGED <<fileVars, schedulerVars, live, now, starts>>

QueueNext ==
    \/ Start \/ Scheduler \/ CommandEnds \/ CommandGoesOn \/ Crash \/ ResetRow
    \/ QueueFileChanges

\* A scheduler that is up goes on, and its commands end or time out.
QueueSpec == QueueInit /\ [][QueueNext]_queueVars /\ WF_queueVars(Scheduler)

---------------------------------------------------------------------------
(* Properties. *)

\* At most one command runs, whatever died in between, and as long as it
\* does its row says so on disk: that is what a restart refuses to pass.
OneRecordedCommand ==
    /\ Cardinality(live) <= 1
    /\ \A c \in live : /\ disk.rows[c.step].status = "running"
                       /\ disk.rows[c.step].attempts = c.attempt

\* A command that runs has its inputs on disk: what it requires is done, and
\* what it only comes after has a verdict.
InputsAreSettled ==
    \A c \in live :
        /\ \A d \in After[c.step] : disk.rows[d].status = "done"
        /\ \A d \in AfterAny[c.step] : disk.rows[d].status \in Terminal

\* No crash leaves a verdict in state.json without its receipt file: what
\* reads the one may rely on the other.
ReceiptBehindVerdict ==
    \A s \in Step : disk.rows[s].status \in Terminal =>
        <<s, disk.rows[s].status>> \in receipts

\* A step some scheduler has taken in gets a verdict, unless that scheduler
\* dies, timing is paused, or the step moves to another card: retries,
\* skips and cooldowns cannot keep the queue open for ever.
EveryStepSettles ==
    \A s \in Step :
        (doing = "loop" /\ Status(s) = "pending") ~>
            \/ disk.rows[s].status \in Terminal
            \/ doing = "down" \/ disk.control.timing_paused \/ queue[s] = "moved"
=============================================================================
