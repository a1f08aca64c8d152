------------------------------ MODULE Terminal ------------------------------
(***************************************************************************)
(* The interactive lab: the terminal of the web page (RealTerminal.tsx),   *)
(* its WebSocket, the /ws/lab handler with docker_agent.stream_command,    *)
(* and the command's process in the lab container.                         *)
(*                                                                         *)
(* The terminal learns that a command is over from the text of a line; the *)
(* time limit kills the docker client and not the process in the           *)
(* container.  A command whose docker client cannot be started, or whose   *)
(* output is not text, raises in the worker: the handler is told nothing   *)
(* and takes no further command.                                           *)
(*                                                                         *)
(* That the handler relays an agent's lines in order, each once, and takes *)
(* the next command when the last one is drained is what Relay.tla shows;  *)
(* here a line goes from the process to the socket in one step.            *)
(***************************************************************************)
EXTENDS Naturals, Sequences, SequencesExt

CONSTANTS
  Kinds,        \* the kinds of commands the user types
  MaxCommands,  \* bound: commands typed
  MaxLines,     \* bound: lines a command prints
  CanDrop,      \* the connection may end, the environment request fail
  CanRaise      \* stream_command may raise

ConstantsOK ==
  /\ Kinds \subseteq {"short", "endless", "forbidden", "inherited", "unparseable"}
  /\ MaxCommands \in Nat /\ MaxLines \in Nat
  /\ {CanDrop, CanRaise} \subseteq BOOLEAN

VARIABLES
  asked,     \* /api/environment has not answered yet
  env,       \* what the page shows of it
  demo,      \* demoMode
  sock,      \* the page's WebSocket
  running,   \* the input is disabled until the command is over
  history,   \* the entries of the terminal: command, kind and lines shown
  toServer,  \* commands on their way
  toClient,  \* lines on their way
  command,   \* the command stream_command runs, or 0
  process,   \* its docker client: "none", "running", "ended" or "killed"; or
             \* "raised": nobody reads what the client prints any more
  timer,     \* its timer: "off", "armed" or "fired"
  printed,   \* lines it has printed
  box        \* commands whose process runs in the container

vars == <<asked, env, demo, sock, running, history, toServer, toClient, command,
          process, timer, printed, box>>
page == <<asked, env, demo, sock, running, history>>
agent == <<command, process, timer, printed, box>>

\* A line is known by its command and by what it looks like: "text", a text
\* "like" a mark of the end, or one of the marks themselves.
Line(c, looks) == [of |-> c, looks |-> looks]
Marks == {"exit", "killed", "refused"}

Idle ==
  /\ env = "connecting"
  /\ demo = FALSE
  /\ running = FALSE
  /\ history = <<>>
  /\ toServer = <<>>
  /\ toClient = <<>>
  /\ command = 0
  /\ process = "none"
  /\ timer = "off"
  /\ printed = 0
  /\ box = {}

Init == asked = TRUE /\ sock = "connecting" /\ Idle

\* The page is not open.
Absent == asked = FALSE /\ sock = "closed" /\ Idle

(***************************************************************************)
(* The page.                                                               *)
(***************************************************************************)
\* Mutant: a state of its own for a socket that no line has come over.
OpenSilent ==
  /\ sock = "connecting"
  /\ sock' = "silent"
  /\ UNCHANGED <<asked, env, demo, running, history, toServer, toClient, agent>>

Open ==
  /\ sock = "connecting"
  /\ sock' = "open"
  /\ UNCHANGED <<asked, env, demo, running, history, toServer, toClient, agent>>

\* Also when the socket has failed in the meantime.
EnvironmentArrives ==
  /\ asked
  /\ asked' = FALSE
  /\ env' = "real"
  /\ UNCHANGED <<demo, sock, running, history, toServer, toClient, agent>>

\* Demo mode ends the effect that opened the socket, and its cleanup closes it.
EnterDemo ==
  /\ env' = "simulated"
  /\ demo' = TRUE
  /\ sock' = "closed"
  /\ toClient' = <<>>

EnvironmentFails ==
  /\ CanDrop /\ asked
  /\ asked' = FALSE
  /\ EnterDemo
  /\ UNCHANGED <<running, history, toServer, agent>>

SocketError ==
  /\ CanDrop
  /\ sock \in {"connecting", "open"}
  /\ EnterDemo
  /\ UNCHANGED <<asked, running, history, toServer, agent>>

\* The backend closes the connection in good order: nobody listens to that.
SocketCloses ==
  /\ CanDrop
  /\ sock = "open"
  /\ sock' = "closed"
  /\ toClient' = <<>>
  /\ UNCHANGED <<asked, env, demo, running, history, toServer, agent>>

\* Mutant: Enter is taken while a command runs.
RunAnyTime(kind) ==
  /\ Len(history) < MaxCommands
  /\ demo \/ sock = "open"
  /\ history' = Append(history, [kind |-> kind, demo |-> demo, out |-> <<>>])
  /\ running' = TRUE
  /\ toServer' = IF demo THEN toServer ELSE Append(toServer, Len(history'))
  /\ UNCHANGED <<asked, env, demo, sock, toClient, agent>>

\* Enter, with something typed: a new entry, simulated or sent.
Run(kind) ==
  /\ ~ running
  /\ Len(history) < MaxCommands
  /\ demo \/ sock = "open"
  /\ history' = Append(history, [kind |-> kind, demo |-> demo, out |-> <<>>])
  /\ running' = TRUE
  /\ toServer' = IF demo THEN toServer ELSE Append(toServer, Len(history'))
  /\ UNCHANGED <<asked, env, demo, sock, toClient, agent>>

\* simulateCommand looks the command up in an object literal: a word that every
\* object inherits, such as "constructor", is found there but is no text, and
\* the interval, or the look-up itself, raises before it is done.
Simulated(kind) == kind # "inherited"

\* The interval has shown the last part of a simulated output.
DemoEnds ==
  /\ running
  /\ history[Len(history)].demo /\ Simulated(history[Len(history)].kind)
  /\ running' = FALSE
  /\ UNCHANGED <<asked, env, demo, sock, history, toServer, toClient, agent>>

\* The line goes to the last entry, whichever command it is of.
Receive ==
  /\ sock = "open"
  /\ toClient # <<>>
  /\ LET line == Head(toClient) IN
       /\ history' = [history EXCEPT ![Len(history)].out = Append(@, line)]
       /\ running' = (running /\ line.looks \notin Marks \cup {"like"})
  /\ toClient' = Tail(toClient)
  /\ UNCHANGED <<asked, env, demo, sock, toServer, agent>>

(***************************************************************************)
(* The handler and its agent.                                              *)
(***************************************************************************)
\* A send to a connection that has ended reaches nobody.
Send(lines) == toClient' = IF sock = "open" THEN toClient \o lines ELSE toClient

\* A docker client with a timer; or Popen raises, and the worker ends without
\* the None its handler waits for.
Start(c) ==
  /\ command' = c
  /\ printed' = 0
  /\ \/ process' = "running" /\ timer' = "armed" /\ box' = box \cup {c}
     \/ CanRaise /\ process' = "raised" /\ UNCHANGED <<timer, box>>

\* An answer for a command that shlex cannot split, or that is not allowed;
\* stream_command for any other.
Take ==
  /\ command = 0
  /\ toServer # <<>>
  /\ toServer' = Tail(toServer)
  /\ LET c == Head(toServer) IN
       \/ /\ history[c].kind = "unparseable"
          /\ Send(<<Line(c, "text")>>)
          /\ UNCHANGED agent
       \/ /\ history[c].kind \in {"forbidden", "inherited"}
          /\ Send(<<Line(c, "refused")>>)
          /\ UNCHANGED agent
       \/ /\ history[c].kind \in {"short", "endless"}
          /\ Start(c)
          /\ UNCHANGED toClient
  /\ UNCHANGED page

Output(looks) ==
  /\ process = "running"
  /\ printed < MaxLines
  /\ printed' = printed + 1
  /\ Send(<<Line(command, looks)>>)
  /\ UNCHANGED <<page, toServer, command, process, timer, box>>

\* The output, or its unfinished last character, is not text: the read raises,
\* the timer is cancelled, and client and process are left alone.
ReadingRaises ==
  /\ CanRaise
  /\ process \in {"running", "ended", "killed"}
  /\ process' = "raised"
  /\ timer' = "off"
  /\ UNCHANGED <<page, toServer, toClient, command, printed, box>>

\* The process ends by itself, and its docker client with it.
ProcessEnds ==
  /\ process = "running"
  /\ history[command].kind = "short"
  /\ process' = "ended"
  /\ box' = box \ {command}
  /\ UNCHANGED <<page, toServer, toClient, command, timer, printed>>

\* A process that outlived its client ends at last.
StrayEnds(c) ==
  /\ c \in box
  /\ history[c].kind = "short" /\ (c # command \/ process \in {"killed", "raised"})
  /\ box' = box \ {c}
  /\ UNCHANGED <<page, toServer, toClient, command, process, timer, printed>>

\* Mutant: the timer only takes note.
TimerWarns ==
  /\ timer = "armed"
  /\ timer' = "fired"
  /\ UNCHANGED <<page, toServer, toClient, command, process, printed, box>>

\* Mutant: the killer tells the client itself.
TimerReports ==
  /\ timer = "armed"
  /\ timer' = "fired"
  /\ process' = IF process = "running" THEN "killed" ELSE process
  /\ Send(<<Line(command, "killed")>>)
  /\ UNCHANGED <<page, toServer, command, printed, box>>

\* _killer; it may run when the command has just ended.
TimerFires ==
  /\ timer = "armed"
  /\ timer' = "fired"
  /\ process' = IF process = "running" THEN "killed" ELSE process
  /\ UNCHANGED <<page, toServer, toClient, command, printed, box>>

\* Mutant: the exit code is reported whatever ended the client.
ReportExit ==
  /\ process \in {"ended", "killed"}
  /\ Send(<<Line(command, "exit")>>)
  /\ command' = 0
  /\ process' = "none"
  /\ timer' = "off"
  /\ UNCHANGED <<page, toServer, printed, box>>

\* The output has ended: wait, cancel the timer, tell how it ended.
Report ==
  /\ process \in {"ended", "killed"}
  /\ Send(<<Line(command, IF timer = "fired" THEN "killed" ELSE "exit")>>)
  /\ command' = 0
  /\ process' = "none"
  /\ timer' = "off"
  /\ UNCHANGED <<page, toServer, printed, box>>

PageStep == Open \/ DemoEnds \/ Receive
AgentStep == Take \/ ProcessEnds \/ Report

Next ==
  \/ PageStep \/ AgentStep \/ TimerFires
  \/ EnvironmentArrives \/ EnvironmentFails \/ SocketError \/ SocketCloses
  \/ \E kind \in Kinds : Run(kind)
  \/ \E looks \in {"text", "like"} : Output(looks)
  \/ ReadingRaises
  \/ \E c \in 1 .. MaxCommands : StrayEnds(c)

Spec == Init /\ [][Next]_vars

\* The page's callbacks, the handler with its agent and the timer run; when a
\* command ends by itself, and whether the connection drops, is open.
Fairness ==
  /\ WF_vars(Open) /\ WF_vars(DemoEnds) /\ WF_vars(Receive)
  /\ WF_vars(Take) /\ WF_vars(Report) /\ WF_vars(TimerFires)

FairSpec == Spec /\ Fairness

(***************************************************************************)
(* Properties.                                                             *)
(***************************************************************************)
Lines == [of : 1 .. MaxCommands, looks : {"text", "like"} \cup Marks]

TypeOK ==
  /\ asked \in BOOLEAN
  /\ env \in {"connecting", "real", "simulated"}
  /\ demo \in BOOLEAN
  /\ sock \in {"connecting", "open", "closed"}
  /\ running \in BOOLEAN
  /\ history \in Seq([kind : Kinds, demo : BOOLEAN, out : Seq(Lines)])
  /\ toServer \in Seq(1 .. MaxCommands)
  /\ toClient \in Seq(Lines)
  /\ command \in 0 .. MaxCommands
  /\ process \in {"none", "running", "ended", "killed", "raised"}
  /\ timer \in {"off", "armed", "fired"}
  /\ printed \in 0 .. MaxLines
  /\ box \subseteq 1 .. MaxCommands

Shown == UNION {ToSet(history[e].out) : e \in DOMAIN history}

\* The terminal has no other way to tell the outputs of two commands apart
\* than their order, and that is enough: a line appears under another command
\* than its own only when some command before printed a line that looks like a
\* mark of the end.
LinesUnderOwnCommand ==
  \A e \in DOMAIN history : \A line \in ToSet(history[e].out) :
    line.of # e => \E other \in Shown : other.looks = "like" /\ other.of < e

\* b comes after a: of the same command, unless a was its end, or of a later one.
Ordered(a, b) == a.of <= b.of /\ (a.looks \in Marks => a.of < b.of)
Within(s) == \A i, j \in DOMAIN s : i < j => Ordered(s[i], s[j])
Before(s, t) == \A a \in ToSet(s), b \in ToSet(t) : Ordered(a, b)

\* In all that is shown and on its way, the mark of the end is the last line of
\* a command, and each has at most one.
MarkIsLast ==
  /\ \A e \in DOMAIN history : Within(history[e].out) /\ Before(history[e].out, toClient)
  /\ \A e, f \in DOMAIN history : e < f => Before(history[e].out, history[f].out)
  /\ Within(toClient)

\* backend/README.md:45-47: "Every command has a hard 30-second execution timeout
\* enforced server-side regardless of the command's own flags".  What there is
\* of it: a process that is still running in the container when its command
\* was reported was reported as killed, never with an exit code.
OnlyKilledLinger ==
  \A line \in Shown \cup ToSet(toClient) : line.looks = "exit" => line.of \notin box

InputBack ==
  \/ ~ running
  \/ sock = "closed" /\ ~ history[Len(history)].demo
  \/ ~ history[Len(history)].demo /\ history[Len(history)].kind = "unparseable"
  \/ history[Len(history)].demo /\ history[Len(history)].kind = "inherited"
  \/ ~ history[Len(history)].demo /\ process = "raised"

\* A command that was sent is over one day, if the connection stays, even one
\* that never ends by itself -- except one that shlex cannot split, whose
\* answer looks like no end; in demo mode one the look-up takes for something
\* else; and one that raised, or that was typed after it and is never taken
\* (lab.py:60-63, docker_agent.py:98-117).
InputComesBack == running ~> InputBack
=============================================================================
