------------------------------- MODULE Checks -------------------------------
(***************************************************************************)
(* benchmark/stress_test.c and benchmark/posix_validation.c: programs that *)
(* look whether the kernel still works, and whose RESULT is a verdict.     *)
(***************************************************************************)
EXTENDS Naturals, Sequences

CONSTANTS
  Threads,    \* PTHREAD_COUNT
  Cpus,       \* ncpus
  MaxRounds   \* bound: rounds of the stress test in its three seconds

CheckConstantsOK == Threads \in Nat \ {0} /\ Cpus \in Nat \ {0} /\ MaxRounds \in Nat \ {0}

VARIABLES
  program,  \* the program that runs
  at,       \* where its main thread is
  round,    \* rounds begun, or POSIX tests run
  thread,   \* the state of each worker thread, named by round and number
  loaded,   \* what it read of the counter
  counter,  \* shared_counter
  lock,     \* the workers that hold counter_lock
  hogs,     \* the busy threads that were made
  failures, \* total_failures, failures
  faults,   \* what really went wrong
  verdict   \* RESULT

checkVars == <<at, round, thread, loaded, counter, lock, hogs, failures, faults, verdict>>
workers == <<thread, loaded, counter, lock>>

Worker == (1 .. MaxRounds) \X (1 .. Threads)
Mine == {w \in Worker : w[1] = round}
Created == {w \in Mine : thread[w] # "none"}

CheckInit ==
  /\ at = "start"
  /\ round = 0
  /\ thread = [w \in Worker |-> "none"]
  /\ loaded = [w \in Worker |-> 0]
  /\ counter = 0
  /\ lock = {}
  /\ hogs = {}
  /\ failures = 0
  /\ faults = {}
  /\ verdict = "none"

Fail(n) == failures' = failures + n
Conclude ==
  /\ at' = "ended"
  /\ verdict' = IF failures' > 0 THEN "FAIL" ELSE "PASS"

(***************************************************************************)
(* The stress test.                                                        *)
(***************************************************************************)
\* Nobody looks whether the hogs could be made.
StartHogs ==
  /\ at = "start" /\ program = "stress_test"
  /\ hogs' \in SUBSET (1 .. Cpus)
  /\ at' = "forking" /\ round' = 1
  /\ UNCHANGED <<workers, failures, faults, verdict>>

\* The children are forked and reaped one after the other; one that could not
\* be forked, or ended in another way than it should, counts as one failure.
ForkStress ==
  /\ at = "forking"
  /\ \/ Fail(0) /\ UNCHANGED faults
     \/ Fail(1) /\ faults' = faults \cup {<<"stress", "fork">>}
  /\ at' = "creating"
  /\ counter' = 0
  /\ UNCHANGED <<round, thread, loaded, lock, hogs, verdict>>

CreateThread ==
  /\ at = "creating" /\ Created # Mine
  /\ \E w \in Mine \ Created :
       /\ \A v \in Mine \ Created : w[2] <= v[2]
       /\ thread' = [thread EXCEPT ![w] = "ready"]
  /\ UNCHANGED <<at, round, loaded, counter, lock, hogs, failures, faults, verdict>>

\* The threads made so far are not joined and outlive the round.
CreateFails ==
  /\ at = "creating" /\ Created # Mine
  /\ Fail(1) /\ faults' = faults \cup {<<"stress", "thread">>}
  /\ at' = "clock"
  /\ UNCHANGED <<round, workers, hogs, verdict>>

JoinThreads ==
  /\ at = "creating" /\ Created = Mine
  /\ \A w \in Mine : thread[w] = "ended"
  /\ Fail(IF counter = Threads THEN 0 ELSE 1)
  /\ at' = "clock"
  /\ UNCHANGED <<round, workers, hogs, faults, verdict>>

\* Mutant: the counter without its mutex.
NoLock(w) == TRUE

CanLock(w) == lock = {}

Lock(w) ==
  /\ thread[w] = "ready" /\ CanLock(w)
  /\ thread' = [thread EXCEPT ![w] = "inside"]
  /\ loaded' = [loaded EXCEPT ![w] = counter]
  /\ lock' = lock \cup {w}
  /\ UNCHANGED <<at, round, counter, hogs, failures, faults, verdict>>

Increment(w) ==
  /\ thread[w] = "inside"
  /\ thread' = [thread EXCEPT ![w] = "ended"]
  /\ counter' = loaded[w] + 1
  /\ lock' = lock \ {w}
  /\ UNCHANGED <<at, round, loaded, hogs, failures, faults, verdict>>

\* Rounds until three seconds are over; then the hogs see the flag, and end.
NextRound ==
  /\ at = "clock"
  /\ \/ round < MaxRounds /\ round' = round + 1 /\ at' = "forking"
     \/ at' = "stopping" /\ UNCHANGED round
  /\ UNCHANGED <<workers, hogs, failures, faults, verdict>>

\* To join a thread that was never made is undefined: the program crashes, or
\* goes on.
JoinHogs ==
  /\ at = "stopping"
  /\ Fail(0)
  /\ \/ Conclude
     \/ hogs # 1 .. Cpus /\ at' = "crashed" /\ UNCHANGED verdict
  /\ UNCHANGED <<round, workers, hogs, faults>>

(***************************************************************************)
(* The POSIX checks.                                                       *)
(***************************************************************************)
PosixTests == <<"fork", "wait", "exec", "SIGTERM", "SIGKILL">>

\* How many checks of a test fail.  Without a child, fork's own check fails, and
\* wait's second one (its first compares -1 with -1); the other three look at a
\* status that was never written (and the two of the signals send theirs to
\* process -1, which in the guest is nobody: init and the sender are spared).
\* The fate of fork's child is not looked at.
FailedChecks(test, outcome) ==
  CASE outcome = "right" -> {0}
    [] outcome = "no child" -> IF test \in {"fork", "wait"} THEN {1} ELSE {0, 1}
    [] outcome = "wrong" ->
         IF test = "fork" THEN {0} ELSE IF test = "wait" THEN {1, 2} ELSE {1}

BeginTest ==
  /\ program = "posix_validation"
  /\ at \in {"start", "testing"} /\ round < Len(PosixTests)
  /\ round' = round + 1
  /\ UNCHANGED <<workers, hogs, verdict>>

PosixTest ==
  /\ BeginTest
  /\ at' = "testing"
  /\ \E outcome \in {"right", "wrong", "no child"} :
       /\ \E n \in FailedChecks(PosixTests[round'], outcome) : Fail(n)
       /\ faults' = IF outcome = "right" THEN faults
                    ELSE faults \cup {<<PosixTests[round'], outcome>>}

\* The child of the last two tests pauses for ever but for the signal: one that
\* does not end it leaves waitpid, which has no limit, waiting.
SignalIgnored ==
  /\ BeginTest
  /\ PosixTests[round'] \in {"SIGTERM", "SIGKILL"}
  /\ at' = "waiting"
  /\ faults' = faults \cup {<<PosixTests[round'], "ignored">>}
  /\ UNCHANGED failures

PosixResult ==
  /\ at = "testing" /\ round = Len(PosixTests)
  /\ Fail(0) /\ Conclude
  /\ UNCHANGED <<round, workers, hogs, faults>>

MainStep ==
  \/ StartHogs \/ ForkStress \/ CreateThread \/ CreateFails \/ JoinThreads
  \/ NextRound \/ JoinHogs
  \/ PosixTest \/ SignalIgnored \/ PosixResult

\* The end of the program is the end of its threads.
WorkerStep(w) == at # "ended" /\ at # "crashed" /\ (Lock(w) \/ Increment(w))

CheckNext ==
  /\ program \in {"stress_test", "posix_validation"}
  /\ MainStep \/ \E w \in Worker : WorkerStep(w)
  /\ UNCHANGED program

\* The kernel schedules every thread.
CheckFairness ==
  /\ WF_checkVars(MainStep /\ UNCHANGED program)
  /\ \A w \in Worker : WF_checkVars(WorkerStep(w) /\ UNCHANGED program)

(***************************************************************************)
(* Properties.                                                             *)
(***************************************************************************)
\* Every variable has the values its declaration names.
CheckTypeOK ==
  /\ at \in {"start", "forking", "creating", "clock", "stopping", "testing", "waiting",
             "ended", "crashed"}
  /\ round \in 0 .. MaxRounds \cup 0 .. Len(PosixTests)
  /\ thread \in [Worker -> {"none", "ready", "inside", "ended"}]
  /\ loaded \in [Worker -> Nat] /\ counter \in Nat
  /\ lock \subseteq Worker
  /\ hogs \subseteq 1 .. Cpus
  /\ failures \in Nat
  /\ verdict \in {"none", "PASS", "FAIL"}

\* What posix_validation cannot see.
Unseen ==
  {<<"fork", "wrong">>} \cup ({"exec", "SIGTERM", "SIGKILL"} \X {"no child"})

\* A RESULT is true.  Something went wrong if it is FAIL: threads left behind by
\* an earlier round may spoil the count of a later one, but only in a run that
\* has failed already.  Nothing did if it is PASS, except what
\* posix_validation.c cannot see.
VerdictIsTrue ==
  /\ verdict = "FAIL" => faults # {}
  /\ verdict = "PASS" => faults \subseteq Unseen

\* A program that has begun gives its verdict: the threads of a round end and
\* are joined ("No deadlock/hang", stress_test.c:15) and every test comes to an
\* end, unless the program joins a hog it never made, or a signal it tests did
\* not end the child it waits for.
VerdictComes ==
  at # "start" ~>
    \/ at = "ended"
    \/ at = "crashed" /\ hogs # 1 .. Cpus
    \/ at = "waiting" /\ \E test \in {"SIGTERM", "SIGKILL"} : <<test, "ignored">> \in faults
=============================================================================
