# Verification of Kernel Sprint

Kernel Sprint runs Linux process-management experiments in a Docker container
and shows them in a web page: a browser talks over WebSockets to a FastAPI
backend, whose agents run `docker exec` and `docker run` and stream back what
they print. Almost everything that can go wrong is in how those parts
interleave, fail and outlive each other. This directory models that in TLA+,
checks it with TLC on small instances and proves the central invariants with
TLAPS for every instance.

Paths below are relative to `src/`. `PROJECT.json` lists every run, mutant,
hazard and theorem, and maps each definition to the lines it stands for.

## 1. The system

| component | state it keeps | operations | talks to |
|---|---|---|---|
| relay of request streams (`backend/api/{lab,chaos,experiments,benchmark,patch}.py`) | per connection: handler position, one `queue.Queue` per request; one default executor for all | accept, receive, validate, start an agent thread, relay its events, drain | browser over WebSocket; agents through the queue; `ensure_container` by a synchronous call |
| lab container (`backend/agents/docker_agent.py`) | the container `kernel-sprint-lab`: absent, stopped, running; its mounts and packages | `ensure_container`, `is_connected`, `get_environment_info`, `stream_command` | Docker daemon |
| experiments agent (`experiments_agent.py`) | the machine's `base_slice_ns` | read, reduce, measure, restore | lab container, kernel debugfs |
| chaos agent (`chaos_agent.py`) | the container's root qdisc, its process table | network delay, kill demo, CPU, memory and disk stress | lab container |
| patch and benchmark pipelines (`patch_agent.py`, `qemu_agent.py`) | a container and, for a patch, a scratch directory per run | staged shell script, marker parsing, judgement | Docker, QEMU |
| kernel monitor (`api/monitor.py`, `ebpf_agent.py`) | a bpftrace process per connection, a stop event | start, pair lines, stop | privileged container, browser |
| terminal (`web/src/components/RealTerminal.tsx`) | entries, a `running` flag, a socket, demo mode | run a command, receive a line, fall back to demo | `/ws/lab`, `/api/environment` |
| streaming panels (`PatchRunner`, `ChaosPanel`, `ExperimentsPanel`, `LiveBenchmarkRunner`) | status, rows, a socket per run | run, fall back to a simulated run | the four other endpoints |
| live monitor (`LiveMonitor.tsx`, `RealKernelWorkflow.tsx`) | connection state, samples | connect, reconnect, fall back | `/ws/monitor` |
| benchmark programs (`benchmark/*.c`) | processes, threads, pipes, samples | fork/exec, ping-pong, percentiles, stress | the guest kernel |
| result pages, simulated data (`results/page.tsx`, `SchedulerCompare.tsx`, `simulate.ts`) | what was loaded | load, render | `/api/results` |
| build and boot scripts (`scripts/*.sh`) | - | build, boot | docker, qemu |

### What is hard

*Concurrency.* Handlers share one event loop and one executor; agents are
daemon threads that nobody joins or stops. `/api/environment` is a plain
function, so it calls `ensure_container` in a worker thread beside the loop.
Any number of sessions run agents on one container and one kernel.

*Failure.* `subprocess.run(..., timeout=...)` raises, and no agent catches it:
the worker dies before its `put(None)`. A timed out `docker exec` may have
done its work, do it later, or never. Most exit codes are ignored. When the
backend ends, `finally` clauses in daemon threads do not run.

*Ordering.* Ends and failures are recognised in text: the terminal by a line's
look, the pipelines by markers that come out of a pipe.

*Timeouts.* The pipelines apply their limit after the output has ended. The
terminal's timer kills the docker client and not the process in the container.

### What makes each part correct

- relay: events in order, each once; a request is over only when its agent is
  and all it yielded was sent; a handler owns an executor thread exactly while
  it waits; streams finish.
- container: removed only when down, or only through a check older than it; up
  and equipped once the calls are over.
- experiments: the knob is what it was at boot when nobody is at work; a result
  names the knob it was measured under.
- chaos: a run's delay stays its own and is removed; a kill hits the run's own
  process; a result is true.
- pipelines: blame the stage that failed; never lose a measurement; end; clean
  up.
- terminal: outputs under their own command; the input comes back.
- monitor: when the page is gone the handler returns and the docker client of
  bpftrace is killed; simulated and real samples do not mix.
- panels: one run at a time on the screen; a result is in its own run's place; a
  simulated result is labelled; the buttons come back.
- result pages: two pages that show the same data agree on the size of a change.
- benchmark programs: a report is of a whole run, a verdict is true, the figures
  are those of the samples; a program ends although one of its processes is
  killed or one of its threads could not be made.

## 2. The modules

| module | what it is |
|---|---|
| `EventStream` | abstract: what a session promises its client |
| `Relay` | the five streaming endpoints; implements `EventStream` per session |
| `MCRelay` | endpoints for TLC, and `OtherConnectionsServed` |
| `RelayProofs` | invariants and refinement of `Relay` |
| `LabContainer`, `MCLabContainer`, `LabContainerProofs` | `ensure_container` and `/api/environment` |
| `BaseSlice`, `MCBaseSlice`, `BaseSliceProofs` | the scheduler-optimization experiment |
| `ChaosLab`, `ChaosLabProofs` | the five failure injections |
| `PipelineEvents` | abstract: the order of events any client of a pipeline may rely on |
| `Pipeline` | both pipelines; implements `PipelineEvents` |
| `PipePrograms` | `context_switch.c` and `ipc_throughput.c`: two processes and their pipes |
| `Checks` | `stress_test.c` and `posix_validation.c` |
| `Samples` | `process_creation.c` and `scheduler_latency.c` |
| `Workloads`, `WorkloadProofs` | what runs in a container: a pipeline, or one of the six programs |
| `Terminal` | the page's terminal, `/ws/lab`, `stream_command`, the process |
| `Simulated` | the figures of the simulated results |
| `Panel`, `PanelProofs` | the four panels that run something and show its stream |
| `Monitor` | the live monitor and the workflow page, `/ws/monitor`, the agent, bpftrace |
| `Reports` | the two pages that show the captured comparison |
| `Pages`, `MCPages`, `PagesProofs` | the interactive pages, one of which is open |
| `DataLemmas` | induction over finite sets, iteration and sorted order, for the proofs |

### How the models correspond to the code

**Relay.** A handler is the coroutine of one connection; `hpc[s]` is where it
stands between two `await`s (`receive`, `waiting` for `run_in_executor`,
`resumed` with an item). The event loop is `loop`: a handler inside the
synchronous `ensure_container` holds it, and no other handler moves. `wpc[s]`
is the agent's thread, which yields (`WorkerPut`), ends with `put(None)`
(`WorkerEnd`), or raises and puts nothing (`WorkerRaise`). `jobs` and `busy` are
the default executor's queue and threads. The five endpoints differ in whether
they start the container and in `Verdict`, what a message means to each of
them. An event is its number in the request, which is all that order and
multiplicity need.

**LabContainer.** One action per docker command of `ensure_container`, each
with an outcome: done and answered, not done (the exit code is ignored), timed
out with or without the work done. `sawGen` records which container a caller's
`inspect` saw. The initial states are the containers an earlier backend may
have left.

**BaseSlice.** One action per `docker exec` of the experiment, with the `finally`
clause as `Restore`. The knob is machine-wide, so one variable serves all sessions
and outlives container and backend. Compile, read, measure, write and restore may
each time out. A write that timed out was done, was not, or is still to come: `late` counts those
of each value, and `LateWrite` may do one whenever the container is up, during its own run, a
later one or none. An outage takes them with it. `disturbed` and `astray` are histories: who was
disturbed by another run, a late write or an outage, and whether a late or lost write is to blame.

**ChaosLab.** `Add`, `Sleep`, `Del` are `network_delay`; `Spawn`, `Kill`, `Check` are
`kill_process_demo`; `Launch`, `Sample`, `Wait` are the stress runs (CPU and memory
as "load", which samples while stress-ng works; disk, which waits for it).
Pids restart in a recreated container. `late` holds the `tc` commands that timed
out and may still take effect.

**Pipeline.** The shell script (`Mark`, `Work`, `Fail`, `GuestPrints`, `Hang`), the
docker client (`CloseOutput`, `ClientEnds`) and the generator (`ReadLine`,
`EndOfOutput`, `TimeOut`, `Judge`, `Yield`) meet in a bounded pipe. Of the output
only markers and measurements count. `docker run` itself failing shows as the
failure of the first stage, since that is the stage `FailedStage` blames.

**Terminal.** The page's callbacks, the two channels of the socket, and
`stream_command` with its timer thread. A line is its command and what it looks
like. `box` is the set of commands whose process is still in the container. `stream_command` may
raise (`Start` when the docker client cannot be started, `ReadingRaises` when its output is not
text): then `process` is "raised", no `None` is put, and the handler takes no other command.

**Panel.** One module for four components that are variations of one text: a
click opens a socket and starts a timer of two seconds; a failed socket or a
passed timer plays a simulated run. `sock`, `timer`, `live` and `at` are kept per
run, because in the code they are locals of the call that made them, while
`running`, `demo`, `stages`, `rows` and `results` are the component's state, which
the callbacks of every run write to. A simulated run is known by its run and by
the callback that began it: a time-out closes the socket, whose error event then
begins a second one. `Screen` is what is drawn, with the banner and the enabled
buttons, so that properties are about what a user sees. Every piece of data is its
run and whether it is simulated. What differs between the panels (what a click
clears, where a result goes, how a tick moves the badges) is an operator per panel.

**Monitor.** The two pages, the handler, its worker, the agent, the docker client of bpftrace
(`tracer`) and bpftrace in the container (`bpftrace`), which nobody kills and which may go on
after its client (`OrphanEnds` is its end by other means). A worker that raised is "raised", or
"failed" when that was before the `try`, where the client is not killed either. The callbacks of the socket are closures of the first render:
`LiveFails` is the error's handler, which sets the state "connected", followed by
the close's, which still sees no demo mode and resets it. `lines` is what bpftrace has
printed and nobody read; the agent looks at the stop only when there is a line
(`StopSeen`, `TestPassed`), and what it puts after the stop is counted in `late`.

**Reports.** Each of the two pages loads `/api/results` for itself, or the copy that is
built in. Measurements are integers. A percentage is the nearest tenth, and one just half way
between two may become either of them on each page: `toFixed(1)` and `Math.round` work on doubles
that two different formulas give, so that 2000 -> 1977 reads -1.1 % on one page and 1.2 % on the
other. `Nearest` is the set of those tenths.

**PipePrograms.** The parent and the child of a program, with the set of pipe ends
each holds: a read finds the end of a pipe, and a write is killed, exactly when
nobody holds the other end, which is what closing the unused ends is for. Bytes and
chunks are counts. Either process may be killed once, anywhere.

**Checks.** `stress_test` with its round's threads, the mutex and the counter it guards, and
the hogs, whose creation nobody looks at; joining one that was never made is
undefined, hence a crash or nothing. `posix_validation` with, per test, whether the
kernel did it right, did it wrong, or could not fork, and how many checks fail then:
three tests look at a status that was never written when there is no child, and two of them send
their signal to process -1, which in the guest reaches nobody. A signal that does not end
the child leaves the test in `waitpid` (`SignalIgnored`).

**Samples.** The two programs that read a clock of seconds and nanoseconds: `elapsed_ns`,
`ts_add_ns` with its loop, the absolute deadlines of the latency probe, the
sorting and the indices of the quantiles. `took` is the time that really passed.

### How the modules fit together

`Pages` instantiates `Terminal`, `Panel`, `Monitor` and `Reports` and keeps the page that is open in
`part`, which no step changes: in the browser they share no state, and leaving a
page ends it, so a product of them would only multiply states. `Workloads` does the
same with the pipelines and the programs and its `program`: the programs run one at
a time, in a guest or a container of their own, and what a pipeline sees of them
is what `Pipeline` knows as measurements and markers.

The modules follow the code's own boundaries. `Terminal` uses of `Relay` only
what `EventStream` promises (lines in order, each once, the next command after
the last is drained) and therefore passes a line from process to socket in one
step. `Pipeline` may raise (`LaunchFails`) and `ChaosLab` and `BaseSlice` have runs
that end "dead": in `Relay` these are the sessions in `MayRaise`. `Recreate` in
`ChaosLab` and `Outage` in `BaseSlice` are what `LabContainer` shows to be possible
when `/api/environment` is asked beside the handlers.

## 3. The runs

Every property of a passing run has a mutant in `PROJECT.json`: a definition of
the model changed the way a plausible bug would change the code, under which TLC
finds that property violated.

| run | question | instance and why it is enough |
|---|---|---|
| `relay_safety` | order, drain, pool ownership, refinement | two sessions (one that may lose its agent), two requests of two events, one executor thread, all four kinds of messages. Two requests let anything left over from the first meet the second; two events distinguish order from count; one thread makes the two sessions compete. |
| `relay_live` | do streams finish | two sessions, a pool of two, one agent that may die: one thread is lost for ever and one is left |
| `relay_starved` | *violation*: "so the event loop stays free to serve other connections" (`benchmark.py:37-40`) | a benchmark beside two sessions whose agents raise, and as many threads as those |
| `container_mixed` | what overlapping calls do to the container | two handlers, two threads, three calls, one fault, one outside stop: three calls are a remover, a creator and an observer |
| `slice_concurrent` | how can the knob be lost | three sessions, three runs, default 27 so that three reductions are exact, every step may time out and every timed out write come late, one outage, one crash: a run that reads, one that it disturbs, and one that begins after both |
| `slice_lost` | *violation*: "never leave the sandbox's live kernel mutated" (`experiments_agent.py:67`) | two sessions, two runs, no fault at all |
| `chaos_safety` | do injections disturb each other | two sessions, three runs of any kind, two faults, one recreation, one crash: two faults are an add and a del of the same run |
| `chaos_degraded` | *violation*: "never leave the container's network permanently degraded" (`chaos_agent.py:153-154`) | one timed out `tc` |
| `workload_runs` | a pipeline's blame, wholeness, order and end; a program's report, verdict, figures and end | both plans, three measurements, a pipe of three lines: the script can be a whole stage ahead of the reader. Programs: three rounds over a pipe of two, with or without a remainder, so that the writer blocks and the reader blocks; two threads in each of up to three rounds, so that stragglers of an earlier round meet a later one, and two hogs; runs of one, two and four samples with a second of four units and an interval of nine, so that one deadline carries two seconds and then three, and delays of up to three, more than half a second. Quantile indices are also looked at for 1, 2, 3 and the lengths about 100 and 200. |
| `pipeline_ceiling` | *violation*: "15 minutes ceiling" (`patch_agent.py:28`) | one stage that hangs with its output open |
| `web_pages` | whose data is where, under which label; what comes back | Terminal: three commands of any kind with one line each, besides the marks: the third command sees what is left of both others. Panels: two runs of two buttons, one row a server may send and a window of two, so that rows of both runs and the simulation meet; a simulated patch run of two lines. Monitor: graphs of two points, four lines of bpftrace (two seconds), two samples in the queue. Reports: answers that get better, worse, stay, and both kinds of half. `stream_command` may raise at any point. |
| `panel_unlabelled` | *violation*: "Only Scheduler Optimization has a genuine before/after" (`ExperimentsPanel.tsx:173-175`), over a simulated one | two runs of the experiments panel: the first falls back, the second connects |

### What they show

*Holds.* Streams are in order, exactly once and drained, whatever the threads
do; with fewer dead agents than executor threads every other stream finishes.
A running container is only removed by a call whose check is older than the
container, and is equipped when all calls are over. `tc`'s refusal of a second
netem is what keeps two overlapping delays apart. An error event names the stage
the script failed in although the generator only saw markers. Lines appear under
another command only after a line that looked like a mark of the end. Until a connection takes
longer than two seconds one thing at a time feeds a panel; the live monitor
never shows a simulated number under the label "Live". After a visit
of the monitor at most one more sample is put, which nobody takes, and the docker client of bpftrace
is killed unless the agent raised before its `try`; bpftrace itself, and a handler whose worker
raised, may go on. The knob is lost only by the ways `LostOnlyByTaintedRead` names, and by at most
a factor of three per run. The two processes of the pipe programs never wait for each other for ever,
whichever is killed. Threads that an earlier round of
`stress_test` left behind may spoil a later round's count, but only in a run that
has failed already, so its verdict stays true.

*Does not hold*, and is recorded as a finding where the repository says
otherwise. As many agents that die as the executor has threads stop every other
stream. Two overlapping scheduler experiments leave the kernel with a reduced
`base_slice_ns`, with nothing failing. The `tc qdisc add` is above the `try`, so one
timeout can leave the delay behind. A stage that hangs with its output open is
never timed out. The experiments and the chaos panel keep a result per button and one demo flag
for all, so a simulated result loses its banner when the next run connects.

*Exceptions stated inside a property.* `LoopCallsRemoveOnlyDown` holds until
`/api/environment` is first asked: after that the comment at `docker_agent.py:37`
is not true. `OnlyKilledLinger` says what there is of the "hard 30-second execution
timeout" (`backend/README.md:45-47`): a process reported as killed may go on in the
container. `InputComesBack` names the cases in which the terminal's input stays
disabled: a command `shlex` cannot split; a socket that closed, in good order or by falling back
to demo mode; a command that raised in the agent (`Popen`, or output that is not text), and one
typed after it; and in demo mode a command whose name the look-up finds among an object's
inherited properties ("constructor"). `OneFeed`, `OwnResult` and `SimulatedLabelled` hold until a connection takes
longer than two seconds: after that two simulated runs play beside each other, and with
a later run. `RunEnds` names the two cases in which a panel's buttons stay disabled: the
server stays silent, or closes in good order without a verdict. `LostOnlyByTaintedRead` names the
ways the knob is lost: a run that read it reduced, a timed out write that is done late, a restoring
write that timed out, missed its container or died with the backend. `MeasuredReduced`
excepts a run during which another was at work, a late write was done or the container was down.
`OneSource` for the workflow page is about its numbers; its texts say "real" in
demo mode as well. `VisitCleansUp` excepts the worker that raised: it puts no end, so its handler waits
until the backend ends, and when it raised on the first read of
`/proc/stat`, the docker client is not killed either; of bpftrace in the container it says nothing.
`PagesAgree` is about sizes: of a regression the results page's caption says "lower wake-up-latency tail"
where the comparison says "(worse)". `ReportIsEarned` excepts `ipc_throughput` whose reading
child was killed after everything was written: the status of `waitpid` is not looked
at. `VerdictIsTrue` lists what `posix_validation` cannot see: a fork whose child
did the wrong thing, and the three tests without a child whose unwritten status
happens to look right. `ProgramsEnd` excepts
a `stress_test` that joins a hog it never made, and a `posix_validation` whose child its signal
did not end.

*Read from the code, without a run.* In demo mode the live monitor's dot is grey, although
`LiveMonitor.tsx:83` sets the state for it (`"connected" in demo mode`): the close event that
follows the error is handled by a closure of the first render, for which `demoMode` is false, and
resets it. `LiveFails` in `Monitor` models both; no property is about the dot.

### Fairness

Weak fairness only, and only of what the platform runs by itself: the event loop
(`HandlerStep`), executor threads (`RunJob`, `GetItem`), agent threads (`WorkerStep`,
`RunStep`, `GeneratorStep`), the browser's callbacks (`Receive`, `Open`, `DemoEnds`, `BrowserStep`),
a started timer (`TimerFires`, `TimeOut`, `Tick`, `WorkflowTimeOut`), a socket that was given up, whose
error comes (`sock = "closing"`), bpftrace, which prints every second, both processes and every
thread of a benchmark program (the kernel schedules them), and processes with a time limit of their own
(`Expire`: `sleep 120`, `stress-ng --timeout`). None of users and clients, of the
end of a command or docker client, of an answer or a failure of a connection, of a late effect, of an outage or a crash.
`ensure_container` ends because each of its commands has a timeout.

Fairness of `WorkerStep` includes that an agent comes to its end, which is true of
all agents but a hanging pipeline; `Pipeline` is where that is looked at.

## 4. The theorems

Each is proved for every value of the constants, under the named assumptions of
the modules: sets of callers are disjoint, bounds are naturals, the pool has at
least one thread, `Nobody`/`NoSession`/`Free` are not members of what they mark.

**RelayProofs.** `TypeCorrect`, `DeliveredInOrder`, `DrainedHandOver`, `PoolOwned`,
`Refinement`. The inductive invariant `IInv` is `TypeOK`, `PoolOwnership` and, per
session, `Delivery` (what was sent, the item in hand and the queue together are
1, 2, .., made), `Sentinel` (where `None` is, given where handler and agent are)
and `Control`. `InOrderExactlyOnce` alone is not inductive: that the next event
sent is the right one depends on what the queue holds and what the executor has
handed over. `PoolProceeds` says that a waiting request is served, or can be given a thread, or
that one of the threads taken comes back: a counting argument, since only agents that may raise are lost
(`DeathInv`) and each takes one thread with it. Its hypothesis, more threads than such agents
(`EnoughThreads`), is what the run relay_starved breaks. The refinement is a step-by-step case split that uses `IInv` for
`Begin` (the previous agent has ended) and `Finish` (all was delivered).

**LabContainerProofs.** `TypeCorrect`, `StaleChecksOnly`, `StaysUp`, `QuietMeansEquipped`,
`DownReportsExplained`, `LoopCallsAreSafe`. `IInv` is `TypeOK`, `LoopInv` (a handler is
inside exactly when it holds the loop), `StaleInv`, `UpInv` (while the container is
down nobody is past `docker run`, or somebody is about to do it) and `EquipInv`
(what is missing is still ahead of one caller). The last theorem adds `SoloInv`.

**BaseSliceProofs.** `TypeCorrect`, `NeverAbove`, `LossNeedsTaint` (by `CleanInv`: who holds a value
holds the default), `UnsharedMeasures` (by `UnsharedInv`: an undisturbed run finds
the knob it left, whatever late writes of others are still to come), `AloneRestores` (one session, no outage or crash, no
timeout of either write: what the promise of `experiments_agent.py:67` needs to be kept), `DriftCorrect`. The
drift is bounded by `DriftInv`: the knob, and whatever a run holds of it, is covered by
one factor of three for each run that has already written; the runs begun and those
yet to write (`Unwritten`) count how many those are. A write takes its run out of
`Unwritten` and divides what that run held, which was covered, once (`ThirdCovered`).

**ChaosLabProofs.** `TypeCorrect`; `OwnDelay`, by `DelayInv`: besides the run that
delays, a del that may still take effect owns the netem as well, and its run does
not delay any more, so that at most one of the two exists; `OwnedDelay`, by
`OwnerInv`: without faults nothing is late; `OwnVictim`, by `PidInv`: pids of the
current container are below `nextPid`, and the process with a run's pid is the
run's; `GoneCorrect`, by `PidInv` and `ReportInv`: a run on its way has reported
nothing.

**WorkloadProofs.** About the pipelines, over `IInv` (types and where container, client and
generator stand): `TypeCorrect`; `ScratchCorrect`; `BlameCorrect` by `MarkInv`, which relates the markers
in the pipe, those read and those to come to what the script did, so that the last
marker read names the stage that failed once the output has ended; `ResultCorrect` by
`VerdictInv`; `Refinement` (a client sees a run of `PipelineEvents`) by `ReadingInv` and `ClosingInv`, the
order of what is still to be yielded. About the programs: `EarnedCorrect` by `PipeInv`, of
which the core is that what was sent is what was taken and what is in the pipe, and
that the parent's end of the pipe is open until it has written everything; `VerdictCorrect` by
`CheckInv`: `Counts` and `Told` tie the failures counted to the faults, and `Tidy` is
the mutex argument, that without a fault no thread of an earlier round is left, at most one
is inside, and the counter is the number of this round's threads that are through.
`PipelineAmongWorkloads` carries the first five over to what is model-checked. About the
samples: `FiguresCorrect`. The clock is kept normalised, so that `elapsed_ns` and `ts_add_ns` are
subtraction and addition of nanoseconds whatever is carried (`ElapsedIsRight`,
`AddIsRight`), and `SampleInv` says where clock and deadline stand; then every sample is what
passed. The figures are quantiles because `Sorted` puts its samples in an order, which exists
for every sequence (`OrderExists`), in which no more than `i` samples are below the one
at index `i` and more than `i` are not above it (`RankInOrder`, `QuantileByRank`), at the indices
the programs compute (`IndexBounds`). `WorkloadTypes` is the type invariant of all of
them together; that a pipe holds no more than its capacity and the parent counts no more rounds than there
are needs `RoomInv`, over `PipeInv`.
That nothing gets stuck: `RunsGoOn` (a pipeline, from `IInv`), `PipesProceed` (the two processes, by `EndsInv`, who
still holds which end, and `TokenInv`, where the byte is that is handed to and fro) and
`JoinsProceed` (the threads, by `LockInv`: who is inside holds the mutex, so somebody gets on). That steps
run out: `RunsRunOut`, `PipesRunOut`, `ChecksRunOut`, each with a natural number that every step decreases;
a line counts twice until it is printed, since it has still to be read.

**PagesProofs.** About the terminal, over `IInv` (types, `ControlInv`, and `TakenInv`, which places
each line between the commands taken and those still to come): `LingerCorrect`,
`MarkCorrect`, by an invariant on the order of all lines shown and on their way, and
`LinesCorrect`, by `SyncInv`: the entry lines go to is the command of the next line, unless
the socket has closed or a line looked like a mark before. About the reports:
`ReportsCorrect`, by `OnlyTenth`: there is one nearest tenth but half way, where there are two
neighbours, and the nearest of a change and of its opposite have the same sizes (`Opposite`). About the monitor: `LateOnce` (after the late sample the worker is past
its test) and `SourceCorrect` by `SourceInv`: demo mode begins only when the
socket is given up or over, so nothing real comes after the simulated points. `PanelAmongPages` says
that a run of `Pages` is one of `Panel`, and `PageTypes` that every page keeps its types; of
the monitor's graphs, that a window never grows beyond its length. `InputIsAwaited`: by `AwaitInv` the last command of a disabled input is on its way, runs, or has its mark on its way back, unless one raised. `CleanupCorrect`: by
`AgentInv` a worker that ended without raising has put the end behind all samples, so a handler that waits gets it.

**PanelProofs.** `OneFeedAtATime` by `FInv`: what feeds the screen is of the latest run, a timer is
that of a connecting socket, a simulated run has a tick left. `ResultsInPlace` by `RInv`. `LabelsRight` by
`LInv`: while a simulated run plays the banner is there, and while a connection is being made,
whose `onopen` will remove the banner, everything shown fits without it. `PanelTypes`. `RunsAreFed`
by `FedInv`: what the buttons wait for is of the latest run, and the browser or the page still owes it.

**DataLemmas.** The library's induction theorems take an operator, which the provers cannot
instantiate; these lemmas take a set instead (`SetInduction`) and so reach what is about data: a
function defined by iteration exists and is what its equation says (`Iteration`), a
finite set of numbers has a largest, every sequence of integers has an ascending order
(`OrderExists`), and how many are below the one at a rank (`RankInOrder`).

### Only model-checked

The seven liveness properties: fairness and `ENABLED` are out of the prover's reach. Every
invariant and every action property of a passing run is the statement of a theorem. Of the
liveness properties, theorems state the safety facts they rest on, for every value of the
constants; what stays with TLC is the step from there to "eventually", by weak fairness of the steps named.

| Property | Never stuck | Steps run out |
|---|---|---|
| `StreamsFinish` | `PoolProceeds` | |
| `DelayEnds` | `OwnedDelay` (the run that delays is still to clear it) | |
| `EndsUnlessHung` | `RunsGoOn` | `RunsRunOut` |
| `ProgramsEnd` | `PipesProceed`, `JoinsProceed` | `PipesRunOut`, `ChecksRunOut` |
| `InputComesBack` | `InputIsAwaited` | |
| `RunEnds` | `RunsAreFed` | |
| `VisitCleansUp` | `CleanupCorrect` | |

Where the last column is empty the system need not stop: users, other runs and bpftrace go
on, and only fairness brings the awaited step.

## 5. Not modelled

- Of the experiments agent, the three experiments that change no state; the programs
  they run are in `Workloads`.
- Texts, layout, navigation, the theme flag, parsing of latencies, the means and the units of
  figures, the simulated texts.
- Leaving the page of a panel: nothing in the component closes its socket or stops
  its timers, and what they then write goes nowhere. React's double mount of development
  builds. A state update is taken to be visible at the next callback.
- A second visit of the monitor beside the first: its socket, handler, worker and stop
  event are its own.
- Scripts and Docker files: straight-line, nothing concurrent.
- The Docker daemon, the kernel, the browser and asyncio are modelled from how
  the code uses them, and marked external where a definition is theirs.

## 6. Plan

The order of work was: the paths of a request first (relay, container, agents), then
what the user sees, then what runs in the guest.

1. done: `Relay`, `LabContainer`, `BaseSlice`, `ChaosLab`, and their proofs.
2. done: `Pipeline`, `Terminal`, and their proofs.
3. done: `Panel`, `Monitor`, `Reports`, composed in `Pages`, and their proofs.
4. done: the benchmark programs, composed with the pipelines in `Workloads`; their proofs.
5. done: induction over data, and with it the drift of the knob, clocks and quantiles; the types
   of everything; that nothing gets stuck, behind each liveness property.
6. open: the relay's handlers over the real `LabContainer` instead of one synchronous call; the
   relay as what a panel's socket is connected to, for which `EventStream` is the
   interface.

Run bounds stay small: two or three actors, each fault once or twice.
