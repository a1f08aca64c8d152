---------------------------- MODULE PagesProofs ----------------------------
(***************************************************************************)
(* Proofs about the pages.  About the terminal, for any number of commands *)
(* of any kinds and any number of lines, with or without a connection that *)
(* drops:                                                                  *)
(*                                                                         *)
(*   - a process that outlives its command was reported as killed          *)
(*     (LingerCorrect);                                                    *)
(*   - the mark of the end is a command's last line (MarkCorrect);         *)
(*   - a line is shown under another command only after a line that looks  *)
(*     like a mark (LinesCorrect);                                         *)
(*   - a disabled input waits for something that will come                 *)
(*     (InputIsAwaited).                                                   *)
(*                                                                         *)
(* About the two reports, whatever was captured: they agree                *)
(* (ReportsCorrect).                                                       *)
(*                                                                         *)
(* About the monitor, for either of its views, a graph of any length, any  *)
(* pipe and queue, with or without failing commands and connections:       *)
(*                                                                         *)
(*   - at most one sample is put after the stop (LateOnce);                *)
(*   - the data shown is of the source its label names (SourceCorrect);    *)
(*   - a visit that is over is never left half cleaned up                  *)
(*     (CleanupCorrect).                                                   *)
(*                                                                         *)
(* About all of them: the panels' theorems hold of the pages               *)
(* (PanelAmongPages), and the types (PageTypes).                           *)
(***************************************************************************)
EXTENDS Pages, PanelProofs, SequenceTheorems, TLAPS

(***************************************************************************)
(* The terminal among the pages.                                           *)
(***************************************************************************)
LEMMA TerminalBegins == Init => T!Init \/ T!Absent
BY DEF Init

LEMMA TerminalSteps == [Next]_vars => [T!Next]_(T!vars)
<1>1. UNCHANGED terminal => UNCHANGED T!vars
  BY DEF terminal, T!vars
<1> QED BY <1>1 DEF Next, vars

LEMMA Constants == MaxCommands \in Nat /\ MaxLines \in Nat
BY PartsAssumption DEF T!ConstantsOK

(***************************************************************************)
(* Members of a sequence.                                                  *)
(***************************************************************************)
In(e, s) == \E i \in DOMAIN s : s[i] = e

LEMMA InAppend ==
  ASSUME NEW U, NEW s \in Seq(U), NEW x
  PROVE  \A e : In(e, Append(s, x)) <=> In(e, s) \/ e = x
<1>1. /\ Len(s) \in Nat /\ DOMAIN s = 1 .. Len(s)
      /\ DOMAIN Append(s, x) = 1 .. Len(s) + 1
      /\ \A i \in 1 .. Len(s) : Append(s, x)[i] = s[i]
      /\ Append(s, x)[Len(s) + 1] = x
  OBVIOUS
<1>2. \A i \in 1 .. Len(s) + 1 : i \in 1 .. Len(s) \/ i = Len(s) + 1
  BY <1>1
<1>3. 1 .. Len(s) \subseteq 1 .. Len(s) + 1 /\ Len(s) + 1 \in 1 .. Len(s) + 1
  BY <1>1
<1> QED BY <1>1, <1>2, <1>3 DEF In

LEMMA InTail ==
  ASSUME NEW U, NEW s \in Seq(U), s # << >>
  PROVE  /\ Tail(s) \in Seq(U) /\ Head(s) \in U /\ In(Head(s), s)
         /\ \A e : In(e, s) <=> e = Head(s) \/ In(e, Tail(s))
<1>1. /\ Len(s) \in Nat \ {0} /\ DOMAIN s = 1 .. Len(s) /\ Head(s) = s[1]
      /\ Tail(s) \in Seq(U) /\ DOMAIN Tail(s) = 1 .. Len(s) - 1
      /\ \A i \in 1 .. Len(s) - 1 : Tail(s)[i] = s[i + 1]
  OBVIOUS
<1>2. \A i \in 1 .. Len(s) : i = 1 \/ (i - 1 \in 1 .. Len(s) - 1 /\ (i - 1) + 1 = i)
  BY <1>1
<1>3. \A i \in 1 .. Len(s) - 1 : i + 1 \in 1 .. Len(s)
  BY <1>1
<1>4. 1 \in 1 .. Len(s) /\ Head(s) \in U
  BY <1>1
<1> QED BY <1>1, <1>2, <1>3, <1>4 DEF In

(***************************************************************************)
(* The commands and their lines.  The invariant numbers the commands: what *)
(* is shown or on its way, or runs, was taken before what still waits.     *)
(***************************************************************************)
On(line) == In(line, toClient)
Shows(e, line) == In(line, entries[e].out)
Seen(line) == On(line) \/ \E e \in DOMAIN entries : Shows(e, line)

ControlInv ==
  /\ Len(entries) <= MaxCommands
  /\ command <= Len(entries)
  /\ process = "none" <=> command = 0
  /\ process = "killed" => killer = "fired"
  /\ process = "ended" => command \notin box
  /\ termDemo => termSock = "closed"
  /\ termSock # "open" => toClient = << >>
  /\ \A i \in DOMAIN toServer : command < toServer[i] /\ toServer[i] <= Len(entries)
  /\ \A i, j \in DOMAIN toServer : i < j => toServer[i] < toServer[j]

TakenInv ==
  /\ \A line : Seen(line) =>
       /\ line.of <= Len(entries)
       /\ \A i \in DOMAIN toServer : line.of < toServer[i]
       /\ command # 0 => line.of <= command /\ (line.looks \in T!Marks => line.of < command)
  /\ \A c \in box :
       /\ c <= Len(entries)
       /\ \A i \in DOMAIN toServer : c < toServer[i]

IInv == T!TypeOK /\ ControlInv /\ TakenInv

Entry == [kind : Kinds, demo : BOOLEAN, out : Seq(T!Lines)]

\* The types, spelled out.
LEMMA Types ==
  ASSUME IInv
  PROVE  /\ entries \in Seq(Entry) /\ toClient \in Seq(T!Lines) /\ toServer \in Seq(1 .. MaxCommands)
         /\ \A e \in DOMAIN entries : entries[e].out \in Seq(T!Lines) /\ entries[e] \in Entry
         /\ \A line : Seen(line) => line \in T!Lines /\ line.of \in 1 .. MaxCommands
         /\ DOMAIN entries = 1 .. Len(entries) /\ Len(entries) \in Nat
<1>1. entries \in Seq(Entry) /\ toClient \in Seq(T!Lines) /\ toServer \in Seq(1 .. MaxCommands)
  BY DEF IInv, T!TypeOK, Entry
<1>2. \A e \in DOMAIN entries : entries[e].out \in Seq(T!Lines) /\ entries[e] \in Entry
  <2>1. \A e \in DOMAIN entries : entries[e] \in Entry
    BY <1>1
  <2>2. \A x \in Entry : x.out \in Seq(T!Lines)
    BY DEF Entry
  <2> QED BY <2>1, <2>2
<1>3. \A line : Seen(line) => line \in T!Lines
  BY <1>1, <1>2 DEF Seen, On, Shows, In
<1>4. \A line \in T!Lines : line.of \in 1 .. MaxCommands
  BY DEF T!Lines
<1> QED BY <1>1, <1>2, <1>3, <1>4

\* A line is sent, or lost.
LEMMA OneLine ==
  ASSUME IInv, NEW l \in T!Lines, T!Send(<<l>>)
  PROVE  \/ termSock = "open" /\ toClient' = Append(toClient, l)
            /\ \A x : In(x, toClient') <=> On(x) \/ x = l
         \/ termSock # "open" /\ toClient' = << >> /\ toClient = << >>
<1>1. toClient \in Seq(T!Lines)
  BY Types
<1>2. CASE termSock = "open"
  <2>1. toClient' = toClient \o <<l>>
    BY <1>2 DEF T!Send
  <2>2. toClient' = Append(toClient, l)
    BY <1>1, <2>1, AppendIsConcat
  <2> QED BY <1>1, <1>2, <2>2, InAppend DEF On
<1>3. CASE termSock # "open"
  BY <1>3 DEF T!Send, IInv, ControlInv
<1> QED BY <1>2, <1>3

(***************************************************************************)
(* Types and control.                                                      *)
(***************************************************************************)
LEMMA IInit == T!Init \/ T!Absent => IInv
<1> SUFFICES ASSUME T!Init \/ T!Absent PROVE IInv
  OBVIOUS
<1> USE Constants DEF T!Init, T!Absent, T!Idle
<1>1. /\ entries = << >> /\ toServer = << >> /\ toClient = << >> /\ command = 0
      /\ process = "none" /\ box = {} /\ printed = 0 /\ termDemo = FALSE
  OBVIOUS
<1>2. Len(entries) = 0 /\ DOMAIN entries = {} /\ DOMAIN toServer = {} /\ DOMAIN toClient = {}
  BY <1>1
<1>3. T!TypeOK
  <2>1. /\ asked \in BOOLEAN /\ env = "connecting" /\ termSock \in {"connecting", "closed"}
        /\ termRunning = FALSE /\ killer = "off"
    OBVIOUS
  <2>2. \A U : << >> \in Seq(U)
    BY EmptySeq
  <2>3. 0 \in 0 .. MaxCommands /\ 0 \in 0 .. MaxLines
    OBVIOUS
  <2>4. /\ entries \in Seq([kind : Kinds, demo : BOOLEAN, out : Seq(T!Lines)])
        /\ toServer \in Seq(1 .. MaxCommands) /\ toClient \in Seq(T!Lines)
    BY <1>1, <2>2
  <2>5. /\ command \in 0 .. MaxCommands /\ printed \in 0 .. MaxLines /\ box \subseteq 1 .. MaxCommands
        /\ process \in {"none", "running", "ended", "killed", "raised"} /\ killer \in {"off", "armed", "fired"}
        /\ termDemo \in BOOLEAN /\ termRunning \in BOOLEAN /\ termSock \in {"connecting", "open", "closed"}
        /\ env \in {"connecting", "real", "simulated"}
    BY <1>1, <2>1, <2>3
  <2> HIDE DEF T!Init, T!Absent, T!Idle
  <2> QED BY <2>1, <2>4, <2>5 DEF T!TypeOK
<1>4. ControlInv
  <2>1. 0 <= MaxCommands
    OBVIOUS
  <2> QED BY <1>1, <1>2, <2>1 DEF ControlInv
<1>5. TakenInv
  BY <1>1, <1>2 DEF TakenInv, Seen, On, Shows, In
<1> QED BY <1>3, <1>4, <1>5 DEF IInv

\* What leaves the terminal's entries and the lines on their way.
LEMMA IQuiet ==
  ASSUME IInv, T!TypeOK', UNCHANGED <<entries, toServer, command>>,
         toClient' \in {toClient, << >>},
         box' \subseteq box,
         process' = "none" <=> command' = 0,
         process' = "killed" => killer' = "fired",
         process' = "ended" => command' \notin box',
         termDemo' => termSock' = "closed",
         termSock' # "open" => toClient' = << >>
  PROVE  IInv'
<1>1. ControlInv'
  BY DEF IInv, ControlInv
<1>2. \A line : Seen(line)' => Seen(line)
  <2>1. \A line : In(line, toClient') => In(line, toClient)
    BY DEF In
  <2> QED BY <2>1 DEF Seen, On, Shows
<1>3. TakenInv'
  BY <1>2 DEF IInv, TakenInv
<1> QED BY <1>1, <1>3 DEF IInv

LEMMA IPage ==
  ASSUME IInv,
         \/ T!Open \/ T!DemoEnds
         \/ T!EnvironmentArrives \/ T!EnvironmentFails \/ T!SocketError \/ T!SocketCloses
  PROVE  IInv'
<1>1. /\ UNCHANGED <<entries, toServer, command, box, process, killer, printed>>
      /\ toClient' \in {toClient, << >>}
  BY DEF T!Open, T!DemoEnds, T!EnvironmentArrives, T!EnvironmentFails, T!SocketError,
         T!SocketCloses, T!EnterDemo, T!agent
<1>2. /\ asked' \in BOOLEAN /\ env' \in {"connecting", "real", "simulated"} /\ termDemo' \in BOOLEAN
      /\ termRunning' \in BOOLEAN
  BY DEF IInv, T!TypeOK, T!Open, T!DemoEnds, T!EnvironmentArrives, T!EnvironmentFails,
         T!SocketError, T!SocketCloses, T!EnterDemo
<1>3. /\ termSock' \in {"connecting", "open", "closed"}
      /\ termSock' # "open" => toClient' = << >>
  BY DEF IInv, ControlInv, T!TypeOK, T!Open, T!DemoEnds, T!EnvironmentArrives, T!EnvironmentFails,
         T!SocketError, T!SocketCloses, T!EnterDemo
<1>4. termDemo' => termSock' = "closed"
  BY Zenon DEF IInv, ControlInv, T!Open, T!DemoEnds, T!EnvironmentArrives, T!EnvironmentFails,
         T!SocketError, T!SocketCloses, T!EnterDemo
<1>5. T!TypeOK'
  <2>1. toClient' \in Seq(T!Lines)
    BY <1>1, Types, EmptySeq
  <2> QED BY <1>1, <1>2, <1>3, <2>1 DEF IInv, T!TypeOK
<1>6. /\ process' = "none" <=> command' = 0
      /\ process' = "killed" => killer' = "fired"
      /\ process' = "ended" => command' \notin box'
  BY <1>1 DEF IInv, ControlInv
<1> QED BY <1>1, <1>3, <1>4, <1>5, <1>6, IQuiet

LEMMA IProcess ==
  ASSUME IInv, T!TimerFires \/ T!ReadingRaises \/ T!ProcessEnds
               \/ (\E c \in 1 .. MaxCommands : T!StrayEnds(c))
  PROVE  IInv'
<1>1. /\ UNCHANGED <<entries, toServer, command, toClient, printed, asked, env, termDemo, termSock, termRunning>>
      /\ box' \subseteq box
  BY DEF T!TimerFires, T!ReadingRaises, T!ProcessEnds, T!StrayEnds, T!page
<1>2. /\ process' = "none" <=> command' = 0
      /\ process' = "killed" => killer' = "fired"
      /\ process' = "ended" => command' \notin box'
      /\ process' \in {"none", "running", "ended", "killed", "raised"} /\ killer' \in {"off", "armed", "fired"}
  BY DEF IInv, ControlInv, T!TypeOK, T!TimerFires, T!ReadingRaises, T!ProcessEnds, T!StrayEnds, T!page
<1>3. T!TypeOK'
  BY <1>1, <1>2 DEF IInv, T!TypeOK
<1>4. /\ termDemo' => termSock' = "closed"
      /\ termSock' # "open" => toClient' = << >>
  BY <1>1 DEF IInv, ControlInv
<1> QED BY <1>1, <1>2, <1>3, <1>4, IQuiet

\* A new entry: it shows nothing, and its number is larger than all before.
LEMMA RunFacts ==
  ASSUME IInv, NEW kind \in Kinds, T!Run(kind)
  PROVE  LET k == Len(entries) + 1 IN
         /\ Len(entries') = k /\ k \in 1 .. MaxCommands /\ entries' \in Seq(Entry)
         /\ DOMAIN entries' = 1 .. k /\ DOMAIN entries = 1 .. Len(entries) /\ Len(entries) \in Nat
         /\ \A e \in DOMAIN entries : entries'[e] = entries[e]
         /\ entries'[k].out = << >> /\ entries'[k].demo = termDemo
         /\ \/ toServer' = toServer /\ termDemo
            \/ toServer' = Append(toServer, k) /\ termSock = "open"
         /\ UNCHANGED <<toClient, command, process, killer, printed, box, asked, env, termDemo, termSock>>
<1> DEFINE new == [kind |-> kind, demo |-> termDemo, out |-> << >>]
           k == Len(entries) + 1
<1>1. entries \in Seq(Entry) /\ Len(entries) \in Nat /\ DOMAIN entries = 1 .. Len(entries)
  BY Types
<1>2. new \in Entry
  <2>1. termDemo \in BOOLEAN /\ << >> \in Seq(T!Lines)
    BY EmptySeq DEF IInv, T!TypeOK
  <2> QED BY <2>1 DEF Entry
<1>3. entries' = Append(entries, new) /\ Len(entries) < MaxCommands
  BY DEF T!Run
<1>4. /\ Len(entries') = k /\ entries' \in Seq(Entry) /\ DOMAIN entries' = 1 .. k
      /\ \A e \in 1 .. Len(entries) : entries'[e] = entries[e]
      /\ entries'[k] = new
  <2> HIDE DEF new
  <2> QED BY <1>1, <1>2, <1>3, AppendProperties
<1>5. k \in 1 .. MaxCommands
  BY <1>1, <1>3, Constants
<1>6. \/ toServer' = toServer /\ termDemo
      \/ toServer' = Append(toServer, k) /\ termSock = "open"
  BY <1>4 DEF T!Run
<1>7. UNCHANGED <<toClient, command, process, killer, printed, box, asked, env, termDemo, termSock>>
  BY DEF T!Run, T!agent
<1> QED BY <1>1, <1>4, <1>5, <1>6, <1>7

LEMMA IRun == ASSUME IInv, NEW kind \in Kinds, T!Run(kind) PROVE IInv'
<1> DEFINE k == Len(entries) + 1
<1>1. /\ Len(entries') = k /\ k \in 1 .. MaxCommands /\ entries' \in Seq(Entry)
      /\ DOMAIN entries' = 1 .. k /\ DOMAIN entries = 1 .. Len(entries) /\ Len(entries) \in Nat
      /\ \A e \in DOMAIN entries : entries'[e] = entries[e]
      /\ entries'[k].out = << >>
      /\ toServer' = toServer \/ toServer' = Append(toServer, k)
      /\ UNCHANGED <<toClient, command, process, killer, printed, box, asked, env, termDemo, termSock>>
  BY RunFacts
<1> HIDE DEF k
<1>2. toServer \in Seq(1 .. MaxCommands) /\ Len(toServer) \in Nat /\ DOMAIN toServer = 1 .. Len(toServer)
  BY Types
<1>3. \/ toServer' = toServer
      \/ /\ DOMAIN toServer' = 1 .. Len(toServer) + 1 /\ toServer'[Len(toServer) + 1] = k
         /\ \A i \in DOMAIN toServer : toServer'[i] = toServer[i]
         /\ toServer' \in Seq(1 .. MaxCommands)
  <2>1. CASE toServer' = Append(toServer, k)
    <3>1. /\ toServer' \in Seq(1 .. MaxCommands) /\ Len(toServer') = Len(toServer) + 1
          /\ toServer'[Len(toServer) + 1] = k
          /\ \A i \in 1 .. Len(toServer) : toServer'[i] = toServer[i]
      BY <1>1, <1>2, <2>1, AppendProperties
    <3> QED BY <1>2, <3>1
  <2> QED BY <1>1, <2>1
<1>4. \A i \in DOMAIN toServer' :
        \/ i \in DOMAIN toServer /\ toServer'[i] = toServer[i]
        \/ i \notin DOMAIN toServer /\ toServer'[i] = k /\ \A j \in DOMAIN toServer' : j <= i
  BY <1>2, <1>3
<1>5. k > Len(entries) /\ k \in Int /\ \A i \in DOMAIN toServer : toServer[i] \in Nat /\ toServer[i] < k
  BY <1>1, <1>2, Constants DEF k, IInv, ControlInv
<1>6. command \in Nat /\ command < k /\ \A c \in box : c \in Nat /\ c < k
  BY <1>1, <1>5, Constants DEF IInv, ControlInv, TakenInv, T!TypeOK, k
<1>7. \A line : Seen(line)' <=> Seen(line)
  <2>1. \A line : ~ In(line, << >>)
    BY DEF In
  <2> QED BY <1>1, <1>5, <2>1 DEF Seen, On, Shows, k
<1>8. \A line : Seen(line) => line.of \in Nat /\ line.of <= Len(entries)
  BY Types, Constants DEF IInv, TakenInv
<1>9. T!TypeOK'
  <2>1. termRunning' = TRUE
    BY DEF T!Run
  <2>2. entries' \in Seq([kind : Kinds, demo : BOOLEAN, out : Seq(T!Lines)])
    BY <1>1 DEF Entry
  <2>3. toServer' \in Seq(1 .. MaxCommands)
    BY <1>2, <1>3
  <2> QED BY <1>1, <2>1, <2>2, <2>3 DEF IInv, T!TypeOK
<1>10. ControlInv'
  <2>1. \A i \in DOMAIN toServer' : command < toServer'[i] /\ toServer'[i] <= k
    BY <1>4, <1>5, <1>6 DEF IInv, ControlInv
  <2>2. ASSUME NEW i \in DOMAIN toServer', NEW j \in DOMAIN toServer', i < j PROVE toServer'[i] < toServer'[j]
    <3>1. i \in Nat /\ j \in Nat
      BY <1>2, <1>3
    <3>2. i \in DOMAIN toServer
      BY <1>4, <2>2, <3>1
    <3>3. CASE j \in DOMAIN toServer
      BY <1>4, <2>2, <3>2, <3>3 DEF IInv, ControlInv
    <3>4. CASE j \notin DOMAIN toServer
      BY <1>4, <1>5, <3>2, <3>4
    <3> QED BY <3>3, <3>4
  <2>3. k <= MaxCommands /\ command' <= k
    BY <1>1, <1>5, <1>6, Constants
  <2> QED BY <1>1, <2>1, <2>2, <2>3 DEF IInv, ControlInv
<1>11. TakenInv'
  <2>1. \A line : Seen(line) =>
          /\ line.of <= k
          /\ \A i \in DOMAIN toServer' : line.of < toServer'[i]
    <3>1. \A line : Seen(line) => line.of \in Nat /\ line.of < k
      BY <1>1, <1>5, <1>8
    <3> QED BY <1>1, <1>4, <1>5, <3>1 DEF IInv, TakenInv
  <2>2. \A c \in box : c <= k /\ \A i \in DOMAIN toServer' : c < toServer'[i]
    BY <1>4, <1>5, <1>6 DEF IInv, TakenInv
  <2> QED BY <1>1, <1>7, <2>1, <2>2 DEF IInv, TakenInv
<1> QED BY <1>9, <1>10, <1>11 DEF IInv

\* The first line on its way becomes the last of the last entry.
LEMMA ReceiveFacts ==
  ASSUME IInv, T!Receive
  PROVE  LET n == Len(entries)
             line == Head(toClient) IN
         /\ n \in DOMAIN entries /\ Len(entries') = n /\ DOMAIN entries' = DOMAIN entries
         /\ entries' \in Seq(Entry)
         /\ \A e \in DOMAIN entries : e # n => entries'[e] = entries[e]
         /\ entries'[n].out = Append(entries[n].out, line) /\ entries'[n].demo = entries[n].demo
         /\ toClient' = Tail(toClient) /\ toClient # << >> /\ On(line) /\ line \in T!Lines
         /\ toClient' \in Seq(T!Lines)
         /\ \A x : Shows(n, x)' <=> Shows(n, x) \/ x = line
         /\ \A x : On(x) <=> x = line \/ On(x)'
         /\ UNCHANGED <<toServer, command, process, killer, printed, box, asked, env, termDemo, termSock>>
<1> DEFINE n == Len(entries)
           line == Head(toClient)
<1>1. toClient # << >> /\ toClient \in Seq(T!Lines) /\ toClient' = Tail(toClient)
      /\ entries \in Seq(Entry) /\ DOMAIN entries = 1 .. n /\ n \in Nat
  BY Types DEF T!Receive
<1>2. /\ toClient' \in Seq(T!Lines) /\ line \in T!Lines /\ On(line)
      /\ \A x : On(x) <=> x = line \/ On(x)'
  BY <1>1, InTail DEF On
<1>3. n \in DOMAIN entries
  <2>1. line.of \in 1 .. MaxCommands /\ line.of <= n
    BY <1>2, Types DEF IInv, TakenInv, Seen
  <2>2. n >= 1
    BY <1>1, <2>1
  <2> QED BY <1>1, <2>2
<1>4. entries[n] \in Entry /\ entries[n].out \in Seq(T!Lines)
  BY <1>3, Types
<1>5. entries' = [entries EXCEPT ![n] = [entries[n] EXCEPT !.out = Append(entries[n].out, line)]]
  BY <1>3 DEF T!Receive
<1> HIDE DEF line
<1> DEFINE out == Append(entries[n].out, line)
<1>6. out \in Seq(T!Lines) /\ \A x : In(x, out) <=> Shows(n, x) \/ x = line
  BY <1>2, <1>4, AppendProperties, InAppend DEF Shows
<1> HIDE DEF out
<1>7. [entries[n] EXCEPT !.out = out] \in Entry /\ [entries[n] EXCEPT !.out = out].out = out
      /\ [entries[n] EXCEPT !.out = out].demo = entries[n].demo
  BY <1>4, <1>6 DEF Entry
<1>8. /\ entries' \in Seq(Entry) /\ Len(entries') = n /\ DOMAIN entries' = DOMAIN entries
      /\ entries'[n].out = out /\ entries'[n].demo = entries[n].demo
      /\ \A e \in DOMAIN entries : e # n => entries'[e] = entries[e]
  <2> DEFINE new == [entries[n] EXCEPT !.out = out]
  <2>1. new \in Entry /\ new.out = out /\ new.demo = entries[n].demo
    BY <1>7
  <2>2. entries' = [entries EXCEPT ![n] = new]
    BY <1>5 DEF out
  <2> HIDE DEF new
  <2>3. entries' \in Seq(Entry) /\ Len(entries') = n
    BY <1>1, <1>3, <2>1, <2>2, ExceptSeq
  <2> QED BY <1>1, <1>3, <2>1, <2>2, <2>3
<1>9. \A x : Shows(n, x)' <=> Shows(n, x) \/ x = line
  <2>1. \A x : Shows(n, x)' <=> In(x, out)
    BY <1>8 DEF Shows, In
  <2> QED BY <1>6, <2>1
<1>10. UNCHANGED <<toServer, command, process, killer, printed, box, asked, env, termDemo, termSock>>
  BY DEF T!Receive, T!agent
<1> QED BY <1>1, <1>2, <1>3, <1>8, <1>9, <1>10 DEF line, out

LEMMA IReceive == ASSUME IInv, T!Receive PROVE IInv'
<1> DEFINE n == Len(entries)
           line == Head(toClient)
<1>1. /\ n \in DOMAIN entries /\ Len(entries') = n /\ DOMAIN entries' = DOMAIN entries
      /\ entries' \in Seq(Entry)
      /\ \A e \in DOMAIN entries : e # n => entries'[e] = entries[e]
      /\ toClient # << >> /\ toClient' \in Seq(T!Lines)
      /\ \A x : Shows(n, x)' <=> Shows(n, x) \/ x = line
      /\ \A x : On(x) <=> x = line \/ On(x)'
      /\ UNCHANGED <<toServer, command, process, killer, printed, box, asked, env, termDemo, termSock>>
  BY ReceiveFacts
<1> HIDE DEF line
<1>2. \A x : Seen(x)' <=> Seen(x)
  <2>1. \A e \in DOMAIN entries : e # n => \A x : Shows(e, x)' <=> Shows(e, x)
    BY <1>1 DEF Shows, In
  <2> QED BY <1>1, <2>1 DEF Seen
<1>3. T!TypeOK'
  <2>1. termRunning' \in BOOLEAN
    BY DEF T!Receive
  <2>2. entries' \in Seq([kind : Kinds, demo : BOOLEAN, out : Seq(T!Lines)])
    BY <1>1 DEF Entry
  <2> QED BY <1>1, <2>1, <2>2 DEF IInv, T!TypeOK
<1>4. ControlInv'
  <2>1. termSock = "open"
    BY DEF T!Receive
  <2> QED BY <1>1, <2>1 DEF IInv, ControlInv
<1>5. TakenInv'
  BY <1>1, <1>2 DEF IInv, TakenInv
<1> QED BY <1>3, <1>4, <1>5 DEF IInv

\* A line is sent that is after all that was.
LEMMA ISend ==
  ASSUME IInv, NEW l \in T!Lines, T!Send(<<l>>), UNCHANGED <<entries, termSock, termDemo>>,
         T!TypeOK', ControlInv', l.of <= Len(entries), box' \subseteq box,
         \/ command' \in {0, command}
         \/ command' > Len(entries),
         \A i \in DOMAIN toServer' : l.of < toServer'[i] /\ \E j \in DOMAIN toServer : toServer'[i] = toServer[j],
         command' # 0 => l.of = command' /\ l.looks \notin T!Marks
  PROVE  IInv'
<1>1. \A x : Seen(x)' => Seen(x) \/ x = l
  <2>1. \A x : In(x, toClient') => On(x) \/ x = l
    BY OneLine DEF On, In
  <2> QED BY <2>1 DEF Seen, On, Shows
<1>2. l.of \in Nat
  BY Constants DEF T!Lines
<1>3. TakenInv'
  BY <1>1, <1>2 DEF IInv, TakenInv, ControlInv
<1> QED BY <1>3 DEF IInv

LEMMA TakeFacts ==
  ASSUME IInv, T!Take
  PROVE  LET c == Head(toServer) IN
         /\ command = 0 /\ c \in 1 .. MaxCommands /\ c <= Len(entries) /\ c \notin box
         /\ toServer' \in Seq(1 .. MaxCommands)
         /\ \A x : Seen(x) => x.of < c
         /\ \A b \in box : b < c
         /\ \A i \in DOMAIN toServer' : c < toServer'[i] /\ i + 1 \in DOMAIN toServer /\ toServer'[i] = toServer[i + 1]
         /\ \A i \in DOMAIN toServer' : i \in Nat
<1>1. toServer \in Seq(1 .. MaxCommands) /\ toServer # << >> /\ toServer' = Tail(toServer) /\ command = 0
  BY Types DEF T!Take
<1>2. /\ Len(toServer) \in Nat \ {0} /\ DOMAIN toServer = 1 .. Len(toServer) /\ Head(toServer) = toServer[1]
      /\ toServer' \in Seq(1 .. MaxCommands) /\ DOMAIN toServer' = 1 .. Len(toServer) - 1
      /\ \A i \in 1 .. Len(toServer) - 1 : toServer'[i] = toServer[i + 1]
  BY <1>1
<1>3. 1 \in DOMAIN toServer /\ toServer[1] \in 1 .. MaxCommands
  <2>1. 1 \in 1 .. Len(toServer)
    BY <1>2
  <2> QED BY <1>1, <1>2, <2>1, ElementOfSeq
<1>4. \A i \in DOMAIN toServer' : i \in Nat /\ i + 1 \in DOMAIN toServer /\ 1 < i + 1
  BY <1>2
<1>5. \A i \in DOMAIN toServer' : toServer[1] < toServer'[i]
  BY <1>2, <1>3, <1>4 DEF IInv, ControlInv
<1>6. toServer[1] <= Len(entries) /\ (\A x : Seen(x) => x.of < toServer[1]) /\ \A b \in box : b < toServer[1]
  BY <1>3 DEF IInv, ControlInv, TakenInv
<1>7. toServer[1] \notin box
  BY <1>3, <1>6, Constants
<1> QED BY <1>1, <1>2, <1>3, <1>4, <1>5, <1>6, <1>7

LEMMA ITake == ASSUME IInv, T!Take PROVE IInv'
<1> DEFINE c == Head(toServer)
<1>1. /\ command = 0 /\ c \in 1 .. MaxCommands /\ c <= Len(entries) /\ c \notin box
      /\ toServer' \in Seq(1 .. MaxCommands)
      /\ \A x : Seen(x) => x.of < c
      /\ \A b \in box : b < c
      /\ \A i \in DOMAIN toServer' : c < toServer'[i] /\ i + 1 \in DOMAIN toServer /\ toServer'[i] = toServer[i + 1]
      /\ \A i \in DOMAIN toServer' : i \in Nat
  BY TakeFacts
<1>2. UNCHANGED <<asked, env, termDemo, termSock, termRunning, entries>>
  BY DEF T!Take, T!page
<1>3. /\ \A i \in DOMAIN toServer' : c < toServer'[i] /\ toServer'[i] <= Len(entries)
      /\ \A i, j \in DOMAIN toServer' : i < j => toServer'[i] < toServer'[j]
  <2>1. \A i, j \in DOMAIN toServer' : i < j => i + 1 < j + 1
    BY <1>1
  <2> QED BY <1>1, <2>1 DEF IInv, ControlInv
<1>4. ASSUME NEW looks \in {"text", "refused"}, T!Send(<<T!Line(c, looks)>>), UNCHANGED T!agent
      PROVE  IInv'
  <2> DEFINE l == T!Line(c, looks)
  <2>1. l \in T!Lines /\ l.of = c
    BY <1>1 DEF T!Line, T!Lines, T!Marks
  <2>2. UNCHANGED <<command, process, killer, printed, box>>
    BY <1>4 DEF T!agent
  <2>3. toClient' \in Seq(T!Lines) /\ (termSock' # "open" => toClient' = << >>)
    <3> HIDE DEF l
    <3>1. toClient \in Seq(T!Lines)
      BY Types
    <3>2. \/ termSock = "open" /\ toClient' = Append(toClient, l)
          \/ termSock # "open" /\ toClient' = << >> /\ toClient = << >>
      BY <1>4, <2>1, OneLine DEF l
    <3> QED BY <1>2, <2>1, <3>1, <3>2, AppendProperties
  <2>4. T!TypeOK'
    BY <1>1, <1>2, <2>2, <2>3 DEF IInv, T!TypeOK
  <2>5. command < c
    BY <1>1
  <2>6. \A i \in DOMAIN toServer' : command < toServer'[i]
    BY <1>1 DEF IInv, ControlInv
  <2>7. ControlInv'
    BY <1>1, <1>2, <1>3, <2>2, <2>3, <2>6 DEF IInv, ControlInv
  <2> HIDE DEF l
  <2> QED BY <1>1, <1>2, <1>4, <2>1, <2>2, <2>4, <2>7, ISend DEF l
<1>5. ASSUME T!Start(c), UNCHANGED toClient
      PROVE  IInv'
  <2>0. /\ command' = c /\ printed' = 0 /\ process' \in {"running", "raised"}
        /\ killer' \in {"armed", killer} /\ box' \in {box, box \cup {c}}
    BY <1>5 DEF T!Start
  <2>1. T!TypeOK'
    <3>1. 0 \in 0 .. MaxLines /\ c \in 0 .. MaxCommands
      BY <1>1, Constants
    <3>2. box' \subseteq 1 .. MaxCommands /\ killer' \in {"off", "armed", "fired"}
      BY <1>1, <2>0 DEF IInv, T!TypeOK
    <3> QED BY <1>1, <1>2, <1>5, <2>0, <3>1, <3>2 DEF IInv, T!TypeOK
  <2>2. c # 0
    BY <1>1
  <2>3. ControlInv'
    BY <1>1, <1>2, <1>3, <1>5, <2>0, <2>2 DEF IInv, ControlInv
  <2>4. \A x : Seen(x)' <=> Seen(x)
    BY <1>2, <1>5 DEF Seen, On, Shows, In
  <2>5. \A x : Seen(x) => x.of \in Nat /\ x.of < c /\ x.of <= Len(entries)
    BY <1>1, Types, Constants DEF IInv, TakenInv
  <2>6. \A x : Seen(x) => x.of <= c /\ \A i \in DOMAIN toServer' : x.of < toServer'[i]
    <3>1. c \in Nat /\ \A i \in DOMAIN toServer' : toServer'[i] \in Nat
      BY <1>1, Constants
    <3> QED BY <1>1, <2>5, <3>1
  <2>7. \A b \in box' : b <= Len(entries) /\ \A i \in DOMAIN toServer' : b < toServer'[i]
    <3>1. c \in Nat /\ (\A i \in DOMAIN toServer' : toServer'[i] \in Nat) /\ \A b \in box : b \in Nat
      BY <1>1, Constants DEF IInv, T!TypeOK
    <3> QED BY <1>1, <2>0, <3>1 DEF IInv, TakenInv
  <2>8. TakenInv'
    BY <1>2, <2>0, <2>4, <2>5, <2>6, <2>7 DEF TakenInv
  <2> QED BY <2>1, <2>3, <2>8 DEF IInv
<1> HIDE DEF c
<1> QED BY <1>4, <1>5 DEF T!Take, c

LEMMA ISays ==
  ASSUME IInv, \/ \E looks \in {"text", "like"} : T!Output(looks)
               \/ T!Report
  PROVE  IInv'
<1>1. PICK l \in T!Lines :
        /\ T!Send(<<l>>) /\ l.of = command /\ command # 0
        /\ \/ command' = command /\ l.looks \notin T!Marks /\ UNCHANGED <<process, killer>>
           \/ command' = 0 /\ process' = "none" /\ killer' = "off"
  <2>1. command # 0 /\ command \in 1 .. MaxCommands
    <3>1. command # 0
      BY DEF T!Output, T!Report, IInv, ControlInv
    <3> QED BY <3>1, Constants DEF IInv, T!TypeOK
  <2>2. CASE \E looks \in {"text", "like"} : T!Output(looks)
    <3>1. PICK looks \in {"text", "like"} : T!Output(looks)
      BY <2>2
    <3>2. T!Line(command, looks) \in T!Lines /\ T!Line(command, looks).of = command
          /\ T!Line(command, looks).looks \notin T!Marks
      BY <2>1, <3>1 DEF T!Line, T!Lines, T!Marks
    <3>3. T!Send(<<T!Line(command, looks)>>) /\ UNCHANGED <<command, process, killer>>
      BY <3>1 DEF T!Output
    <3> QED BY <2>1, <3>2, <3>3
  <2>3. CASE T!Report
    <3> DEFINE l == T!Line(command, IF killer = "fired" THEN "killed" ELSE "exit")
    <3>1. l \in T!Lines /\ l.of = command
      BY <2>1 DEF T!Line, T!Lines, T!Marks
    <3>2. T!Send(<<l>>) /\ command' = 0 /\ process' = "none" /\ killer' = "off"
      BY <2>3 DEF T!Report
    <3> QED BY <2>1, <3>1, <3>2
  <2> QED BY <2>2, <2>3
<1>2. /\ UNCHANGED <<asked, env, termDemo, termSock, termRunning, entries, toServer, box>>
      /\ printed' \in 0 .. MaxLines
  BY Constants DEF IInv, T!TypeOK, T!Output, T!Report, T!page
<1>3. toClient' \in Seq(T!Lines) /\ (termSock' # "open" => toClient' = << >>)
  <2>1. toClient \in Seq(T!Lines)
    BY Types
  <2>2. \/ termSock = "open" /\ toClient' = Append(toClient, l)
        \/ termSock # "open" /\ toClient' = << >> /\ toClient = << >>
    BY <1>1, OneLine
  <2> QED BY <1>2, <2>1, <2>2, AppendProperties
<1>4. T!TypeOK'
  <2>1. /\ command' \in 0 .. MaxCommands /\ process' \in {"none", "running", "ended", "killed", "raised"}
        /\ killer' \in {"off", "armed", "fired"}
    BY <1>1, Constants DEF IInv, T!TypeOK
  <2> QED BY <1>2, <1>3, <2>1 DEF IInv, T!TypeOK
<1>5. ControlInv'
  <2>1. command \in Nat /\ toServer \in Seq(1 .. MaxCommands) /\ Len(entries) \in Nat
    BY Types, Constants DEF IInv, T!TypeOK
  <2>2. \A i \in DOMAIN toServer : toServer[i] \in 1 .. MaxCommands /\ 0 < toServer[i]
    BY <2>1, Constants
  <2> QED BY <1>1, <1>2, <1>3, <2>1, <2>2 DEF IInv, ControlInv
<1>6. l.of <= Len(entries) /\ \A i \in DOMAIN toServer' : l.of < toServer'[i]
  BY <1>1, <1>2 DEF IInv, ControlInv
<1> QED BY <1>1, <1>2, <1>4, <1>5, <1>6, ISend

LEMMA IStep == IInv /\ [T!Next]_(T!vars) => IInv'
<1> SUFFICES ASSUME IInv, [T!Next]_(T!vars) PROVE IInv'
  OBVIOUS
<1>1. CASE UNCHANGED T!vars
  <2>1. \A line : Seen(line)' <=> Seen(line)
    BY <1>1 DEF T!vars, Seen, On, Shows, In
  <2>2. T!TypeOK' /\ ControlInv'
    BY <1>1 DEF T!vars, IInv, T!TypeOK, ControlInv
  <2>3. TakenInv'
    BY <1>1, <2>1 DEF T!vars, IInv, TakenInv
  <2> QED BY <2>2, <2>3 DEF IInv
<1>2. CASE T!PageStep \/ T!EnvironmentArrives \/ T!EnvironmentFails \/ T!SocketError \/ T!SocketCloses
  BY <1>2, IPage, IReceive DEF T!PageStep
<1>3. CASE T!AgentStep \/ T!TimerFires \/ T!ReadingRaises \/ (\E c \in 1 .. MaxCommands : T!StrayEnds(c))
           \/ \E looks \in {"text", "like"} : T!Output(looks)
  BY <1>3, IProcess, ITake, ISays DEF T!AgentStep
<1>4. CASE \E kind \in Kinds : T!Run(kind)
  BY <1>4, IRun
<1> QED BY <1>1, <1>2, <1>3, <1>4 DEF T!Next

(***************************************************************************)
(* What lingers.                                                           *)
(***************************************************************************)
LEMMA MembersSeen ==
  ASSUME NEW line
  PROVE  /\ line \in T!Shown <=> \E e \in DOMAIN entries : Shows(e, line)
         /\ \A s : line \in T!ToSet(s) <=> In(line, s)
<1>1. \A s : line \in T!ToSet(s) <=> In(line, s)
  BY DEF T!ToSet, In
<1>2. line \in T!Shown <=> \E e \in DOMAIN entries : line \in T!ToSet(entries[e].out)
  BY DEF T!Shown
<1> QED BY <1>1, <1>2 DEF Shows

LingerInv == IInv /\ \A line : Seen(line) /\ line.looks = "exit" => line.of \notin box

\* docker_agent.py: a process that is in the container when its command has been
\* reported was reported as killed.
THEOREM LingerCorrect == Spec => []OnlyKilledLinger
<1>1. T!Init \/ T!Absent => LingerInv
  <2>1. T!Init \/ T!Absent => box = {}
    BY DEF T!Init, T!Absent, T!Idle
  <2> QED BY <2>1, IInit DEF LingerInv
<1>2. LingerInv /\ [T!Next]_(T!vars) => LingerInv'
  <2> SUFFICES ASSUME LingerInv, [T!Next]_(T!vars) PROVE LingerInv'
    OBVIOUS
  <2>1. IInv /\ IInv'
    BY IStep DEF LingerInv
  <2>2. CASE UNCHANGED T!vars
    <3>1. (\A line : Seen(line)' <=> Seen(line)) /\ box' = box
      BY <2>2 DEF T!vars, Seen, On, Shows, In
    <3> QED BY <2>1, <3>1 DEF LingerInv
  <2>3. CASE T!Open \/ T!DemoEnds \/ T!EnvironmentArrives \/ T!EnvironmentFails \/ T!SocketError
             \/ T!SocketCloses \/ T!TimerFires \/ T!ReadingRaises \/ T!ProcessEnds
             \/ (\E c \in 1 .. MaxCommands : T!StrayEnds(c))
    <3>1. entries' = entries /\ toClient' \in {toClient, << >>} /\ box' \subseteq box
      BY <2>3 DEF T!Open, T!DemoEnds, T!EnvironmentArrives, T!EnvironmentFails, T!SocketError,
                  T!SocketCloses, T!EnterDemo, T!agent, T!TimerFires, T!ReadingRaises, T!ProcessEnds,
                  T!StrayEnds, T!page
    <3>2. \A line : Seen(line)' => Seen(line)
      <4>1. \A line : In(line, toClient') => In(line, toClient)
        BY <3>1 DEF In
      <4> QED BY <3>1, <4>1 DEF Seen, On, Shows
    <3> QED BY <2>1, <3>1, <3>2 DEF LingerInv
  <2>4. CASE T!Receive
    <3> DEFINE n == Len(entries)
    <3>1. /\ n \in DOMAIN entries /\ DOMAIN entries' = DOMAIN entries
          /\ \A e \in DOMAIN entries : e # n => entries'[e] = entries[e]
          /\ \A x : Shows(n, x)' <=> Shows(n, x) \/ x = Head(toClient)
          /\ \A x : On(x) <=> x = Head(toClient) \/ On(x)'
          /\ box' = box
      BY <2>1, <2>4, ReceiveFacts
    <3>2. \A x : Seen(x)' => Seen(x)
      <4>1. \A e \in DOMAIN entries : e # n => \A x : Shows(e, x)' <=> Shows(e, x)
        BY <3>1 DEF Shows, In
      <4> QED BY <3>1, <4>1 DEF Seen
    <3> QED BY <2>1, <3>1, <3>2 DEF LingerInv
  <2>5. CASE \E kind \in Kinds : T!Run(kind)
    <3>1. PICK kind \in Kinds : T!Run(kind)
      BY <2>5
    <3> DEFINE k == Len(entries) + 1
    <3>2. /\ DOMAIN entries' = 1 .. k /\ DOMAIN entries = 1 .. Len(entries) /\ Len(entries) \in Nat
          /\ \A e \in DOMAIN entries : entries'[e] = entries[e]
          /\ entries'[k].out = << >> /\ UNCHANGED <<toClient, box>>
      BY <2>1, <3>1, RunFacts
    <3>3. \A x : Seen(x)' => Seen(x)
      <4>1. \A x : ~ In(x, << >>)
        BY DEF In
      <4>2. \A e \in DOMAIN entries' : e \in DOMAIN entries \/ e = k
        BY <3>2
      <4> HIDE DEF k
      <4> QED BY <3>2, <4>1, <4>2 DEF Seen, On, Shows
    <3> QED BY <2>1, <3>2, <3>3 DEF LingerInv
  <2>6. CASE T!Take
    <3> DEFINE c == Head(toServer)
    <3>1. c \in 1 .. MaxCommands /\ (\A x : Seen(x) => x.of < c) /\ entries' = entries
      BY <2>1, <2>6, TakeFacts DEF T!Take, T!page
    <3>2. ASSUME NEW looks \in {"text", "refused"}, T!Send(<<T!Line(c, looks)>>), box' = box
          PROVE  LingerInv'
      <4>1. T!Line(c, looks) \in T!Lines /\ T!Line(c, looks).looks # "exit"
        BY <3>1, <3>2 DEF T!Line, T!Lines, T!Marks
      <4>2. \A x : In(x, toClient') => On(x) \/ x = T!Line(c, looks)
        BY <2>1, <3>2, <4>1, OneLine DEF On, In
      <4>3. \A x : Seen(x)' => Seen(x) \/ x = T!Line(c, looks)
        BY <3>1, <4>2 DEF Seen, On, Shows
      <4> QED BY <2>1, <3>2, <4>1, <4>3 DEF LingerInv
    <3>3. ASSUME box' \in {box, box \cup {c}}, UNCHANGED toClient PROVE LingerInv'
      <4>1. \A x : Seen(x)' <=> Seen(x)
        BY <3>1, <3>3 DEF Seen, On, Shows
      <4>2. \A x : Seen(x) => x.of # c
        <5>1. \A x : Seen(x) => x.of \in Nat
          BY <2>1, Types, Constants
        <5> QED BY <3>1, <5>1, Constants
      <4> QED BY <2>1, <3>3, <4>1, <4>2 DEF LingerInv
    <3> HIDE DEF c
    <3> QED BY <2>6, <3>2, <3>3 DEF T!Take, T!Start, T!agent, c
  <2>7. CASE (\E looks \in {"text", "like"} : T!Output(looks)) \/ T!Report
    <3>1. PICK l \in T!Lines : T!Send(<<l>>) /\ (l.looks = "exit" => l.of \notin box)
      <4>1. command \in 1 .. MaxCommands
        <5>1. command # 0
          BY <2>1, <2>7 DEF T!Output, T!Report, IInv, ControlInv
        <5> QED BY <2>1, <5>1, Constants DEF IInv, T!TypeOK
      <4>2. CASE \E looks \in {"text", "like"} : T!Output(looks)
        <5>1. PICK looks \in {"text", "like"} : T!Output(looks)
          BY <4>2
        <5>2. T!Line(command, looks) \in T!Lines /\ T!Line(command, looks).looks # "exit"
          BY <4>1, <5>1 DEF T!Line, T!Lines
        <5> QED BY <5>1, <5>2 DEF T!Output
      <4>3. CASE T!Report
        <5> DEFINE l == T!Line(command, IF killer = "fired" THEN "killed" ELSE "exit")
        <5>1. T!Send(<<l>>)
          BY <4>3 DEF T!Report
        <5>2. l \in T!Lines /\ l.of = command /\ (l.looks = "exit" => killer # "fired")
          BY <4>1 DEF T!Line, T!Lines, T!Marks
        <5>3. killer # "fired" => command \notin box
          BY <2>1, <4>3 DEF T!Report, IInv, ControlInv
        <5> QED BY <5>1, <5>2, <5>3
      <4> QED BY <2>7, <4>2, <4>3
    <3>2. UNCHANGED <<entries, box>>
      BY <2>7 DEF T!Output, T!Report, T!page
    <3>3. \A x : Seen(x)' => Seen(x) \/ x = l
      <4>1. \A x : In(x, toClient') => On(x) \/ x = l
        BY <2>1, <3>1, OneLine DEF On, In
      <4> QED BY <3>2, <4>1 DEF Seen, On, Shows
    <3> QED BY <2>1, <3>1, <3>2, <3>3 DEF LingerInv
  <2> QED BY <2>2, <2>3, <2>4, <2>5, <2>6, <2>7 DEF T!Next, T!PageStep, T!AgentStep
<1>3. LingerInv => OnlyKilledLinger
  BY MembersSeen DEF LingerInv, OnlyKilledLinger, T!OnlyKilledLinger, Seen, On
<1> QED BY <1>1, <1>2, <1>3, TerminalBegins, TerminalSteps, PTL DEF Spec

(***************************************************************************)
(* The order of the lines.                                                 *)
(***************************************************************************)
LEMMA WithinAppend ==
  ASSUME NEW U, NEW s \in Seq(U), NEW x, T!Within(s), \A a : In(a, s) => T!Ordered(a, x)
  PROVE  T!Within(Append(s, x))
<1>1. /\ Len(s) \in Nat /\ DOMAIN s = 1 .. Len(s)
      /\ DOMAIN Append(s, x) = 1 .. Len(s) + 1
      /\ \A i \in 1 .. Len(s) : Append(s, x)[i] = s[i]
      /\ Append(s, x)[Len(s) + 1] = x
  OBVIOUS
<1> SUFFICES ASSUME NEW i \in 1 .. Len(s) + 1, NEW j \in 1 .. Len(s) + 1, i < j
             PROVE  T!Ordered(Append(s, x)[i], Append(s, x)[j])
  BY <1>1 DEF T!Within
<1>2. i \in 1 .. Len(s) /\ Append(s, x)[i] = s[i]
  BY <1>1
<1>3. CASE j \in 1 .. Len(s)
  BY <1>1, <1>2, <1>3 DEF T!Within
<1>4. CASE j = Len(s) + 1
  <2>1. In(s[i], s)
    BY <1>1, <1>2 DEF In
  <2> QED BY <1>1, <1>2, <1>4, <2>1
<1> QED BY <1>1, <1>3, <1>4

LEMMA WithinTail ==
  ASSUME NEW U, NEW s \in Seq(U), s # << >>, T!Within(s)
  PROVE  T!Within(Tail(s)) /\ \A b : In(b, Tail(s)) => T!Ordered(Head(s), b)
<1>1. /\ Len(s) \in Nat \ {0} /\ DOMAIN s = 1 .. Len(s) /\ Head(s) = s[1]
      /\ DOMAIN Tail(s) = 1 .. Len(s) - 1
      /\ \A i \in 1 .. Len(s) - 1 : Tail(s)[i] = s[i + 1]
  OBVIOUS
<1>2. \A i \in 1 .. Len(s) - 1 : i + 1 \in DOMAIN s /\ 1 \in DOMAIN s /\ 1 < i + 1
  BY <1>1
<1>3. T!Within(Tail(s))
  <2>1. \A i, j \in 1 .. Len(s) - 1 : i < j => i + 1 < j + 1
    BY <1>1
  <2> QED BY <1>1, <1>2, <2>1 DEF T!Within
<1>4. \A i \in 1 .. Len(s) - 1 : T!Ordered(Head(s), Tail(s)[i])
  BY <1>1, <1>2 DEF T!Within
<1> QED BY <1>1, <1>3, <1>4 DEF In

\* The steps that send a line send one that is after all others.
LEMMA Sends ==
  ASSUME IInv, \/ T!Take /\ toClient' # toClient
               \/ (\E looks \in {"text", "like"} : T!Output(looks)) \/ T!Report
  PROVE  \E l \in T!Lines :
           /\ T!Send(<<l>>) /\ entries' = entries
           /\ \A a : Seen(a) => T!Ordered(a, l)
           /\ \/ T!Take /\ l.of = Head(toServer)
              \/ l.of = command
<1>1. CASE T!Take /\ toClient' # toClient
  <2> DEFINE c == Head(toServer)
  <2>1. c \in 1 .. MaxCommands /\ (\A x : Seen(x) => x.of < c) /\ entries' = entries
    BY <1>1, TakeFacts DEF T!Take, T!page
  <2>2. \A a : Seen(a) => a.of \in 1 .. MaxCommands
    BY Types
  <2> HIDE DEF c
  <2>3. PICK looks \in {"text", "refused"} : T!Send(<<T!Line(c, looks)>>)
    BY <1>1 DEF T!Take, c
  <2>4. T!Line(c, looks) \in T!Lines /\ T!Line(c, looks).of = c
    BY <2>1 DEF T!Line, T!Lines, T!Marks
  <2>5. \A a : Seen(a) => T!Ordered(a, T!Line(c, looks))
    BY <2>1, <2>2, <2>4, Constants DEF T!Ordered
  <2> QED BY <1>1, <2>1, <2>3, <2>4, <2>5 DEF c
<1>2. CASE (\E looks \in {"text", "like"} : T!Output(looks)) \/ T!Report
  <2>1. command # 0 /\ command \in 1 .. MaxCommands /\ entries' = entries
    <3>1. command # 0 /\ entries' = entries
      BY <1>2 DEF T!Output, T!Report, T!page, IInv, ControlInv
    <3> QED BY <3>1, Constants DEF IInv, T!TypeOK
  <2>2. ASSUME NEW l, l.of = command PROVE \A a : Seen(a) => T!Ordered(a, l)
    BY <2>1, <2>2 DEF IInv, TakenInv, T!Ordered
  <2>3. CASE \E looks \in {"text", "like"} : T!Output(looks)
    <3>1. PICK looks \in {"text", "like"} : T!Output(looks)
      BY <2>3
    <3>2. T!Line(command, looks) \in T!Lines /\ T!Line(command, looks).of = command
      BY <2>1, <3>1 DEF T!Line, T!Lines
    <3> QED BY <2>1, <2>2, <3>1, <3>2 DEF T!Output
  <2>4. CASE T!Report
    <3> DEFINE l == T!Line(command, IF killer = "fired" THEN "killed" ELSE "exit")
    <3>1. l \in T!Lines /\ l.of = command
      BY <2>1 DEF T!Line, T!Lines, T!Marks
    <3>2. T!Send(<<l>>)
      BY <2>4 DEF T!Report
    <3> HIDE DEF l
    <3> QED BY <2>1, <2>2, <3>1, <3>2
  <2> QED BY <1>2, <2>3, <2>4
<1> QED BY <1>1, <1>2

\* The steps that neither send nor show a line.
LEMMA Silent ==
  ASSUME \/ T!Open \/ T!DemoEnds \/ T!EnvironmentArrives \/ T!EnvironmentFails \/ T!SocketError
         \/ T!SocketCloses \/ T!TimerFires \/ T!ReadingRaises \/ T!ProcessEnds
         \/ (\E c \in 1 .. MaxCommands : T!StrayEnds(c)) \/ UNCHANGED T!vars
         \/ T!Take /\ toClient' = toClient
  PROVE  entries' = entries /\ toClient' \in {toClient, << >>}
BY DEF T!Open, T!DemoEnds, T!EnvironmentArrives, T!EnvironmentFails, T!SocketError, T!SocketCloses,
       T!EnterDemo, T!agent, T!TimerFires, T!ReadingRaises, T!ProcessEnds, T!StrayEnds, T!page, T!vars, T!Take

LineOrder ==
  /\ \A e \in DOMAIN entries :
       /\ T!Within(entries[e].out)
       /\ \A a, b : Shows(e, a) /\ On(b) => T!Ordered(a, b)
  /\ \A e, f \in DOMAIN entries : e < f =>
       \A a, b : Shows(e, a) /\ Shows(f, b) => T!Ordered(a, b)
  /\ T!Within(toClient)

LEMMA NothingEmpty == T!Within(<< >>) /\ \A x : ~ In(x, << >>)
BY DEF T!Within, In

LEMMA OrderSilent ==
  ASSUME LineOrder, entries' = entries, toClient' \in {toClient, << >>} PROVE LineOrder'
<1>1. T!Within(toClient)' /\ \A b : On(b)' => On(b)
  BY NothingEmpty DEF LineOrder, On, In, T!Within, T!Ordered
<1> QED BY <1>1 DEF LineOrder, Shows, In, T!Within, T!Ordered

LEMMA OrderSend ==
  ASSUME IInv, LineOrder, NEW l \in T!Lines, T!Send(<<l>>), entries' = entries,
         \A a : Seen(a) => T!Ordered(a, l)
  PROVE  LineOrder'
<1>1. CASE termSock # "open"
  BY <1>1, OneLine, OrderSilent
<1>2. CASE termSock = "open"
  <2>1. /\ toClient' = Append(toClient, l) /\ \A x : On(x)' <=> On(x) \/ x = l
    BY <1>2, OneLine DEF On
  <2>2. T!Within(toClient')
    BY <2>1, Types, WithinAppend DEF LineOrder, Seen, On
  <2>3. \A e \in DOMAIN entries : \A a, b : Shows(e, a) /\ On(b)' => T!Ordered(a, b)
    BY <2>1 DEF LineOrder, Seen
  <2> QED BY <2>2, <2>3 DEF LineOrder, Shows
<1> QED BY <1>1, <1>2

LEMMA OrderReceive == ASSUME IInv, LineOrder, T!Receive PROVE LineOrder'
<1> DEFINE n == Len(entries)
           x == Head(toClient)
<1>1. /\ n \in DOMAIN entries /\ DOMAIN entries' = DOMAIN entries /\ DOMAIN entries = 1 .. n /\ n \in Nat
      /\ \A e \in DOMAIN entries : e # n => entries'[e] = entries[e]
      /\ entries'[n].out = Append(entries[n].out, x) /\ entries[n].out \in Seq(T!Lines)
      /\ toClient' = Tail(toClient) /\ toClient # << >> /\ On(x) /\ toClient \in Seq(T!Lines)
      /\ \A a : Shows(n, a)' <=> Shows(n, a) \/ a = x
      /\ \A a : On(a) <=> a = x \/ On(a)'
  BY ReceiveFacts, Types
<1> HIDE DEF x
<1>2. T!Within(toClient') /\ \A b : On(b)' => T!Ordered(x, b)
  BY <1>1, WithinTail DEF LineOrder, On, x
<1>3. T!Within(entries'[n].out)
  BY <1>1, WithinAppend DEF LineOrder, Shows
<1>4. \A e \in DOMAIN entries : e # n => \A a : Shows(e, a)' <=> Shows(e, a)
  BY <1>1 DEF Shows, In
<1>5. \A e \in DOMAIN entries' : T!Within(entries'[e].out)
  BY <1>1, <1>3 DEF LineOrder
<1>6. \A e \in DOMAIN entries' : \A a, b : Shows(e, a)' /\ On(b)' => T!Ordered(a, b)
  BY <1>1, <1>2, <1>4 DEF LineOrder
<1>7. ASSUME NEW e \in DOMAIN entries', NEW f \in DOMAIN entries', e < f,
             NEW a, NEW b, Shows(e, a)', Shows(f, b)'
      PROVE  T!Ordered(a, b)
  <2>1. e # n /\ Shows(e, a)
    BY <1>1, <1>4, <1>7
  <2>2. CASE f = n
    BY <1>1, <1>7, <2>1, <2>2 DEF LineOrder
  <2>3. CASE f # n
    BY <1>1, <1>4, <1>7, <2>1, <2>3 DEF LineOrder
  <2> QED BY <2>2, <2>3
<1> QED BY <1>2, <1>5, <1>6, <1>7 DEF LineOrder

LEMMA OrderRun == ASSUME IInv, LineOrder, NEW kind \in Kinds, T!Run(kind) PROVE LineOrder'
<1> DEFINE k == Len(entries) + 1
<1>1. /\ DOMAIN entries' = 1 .. k /\ DOMAIN entries = 1 .. Len(entries) /\ Len(entries) \in Nat
      /\ \A e \in DOMAIN entries : entries'[e] = entries[e]
      /\ entries'[k].out = << >> /\ toClient' = toClient
  BY RunFacts
<1>2. \A e \in DOMAIN entries' : (e \in DOMAIN entries /\ entries'[e] = entries[e]) \/ e = k
  BY <1>1
<1> HIDE DEF k
<1>3. \A e \in DOMAIN entries' : \A a : Shows(e, a)' => e \in DOMAIN entries /\ Shows(e, a)
  BY <1>1, <1>2, NothingEmpty DEF Shows
<1>4. \A a : On(a)' <=> On(a)
  BY <1>1 DEF On
<1>5. \A e \in DOMAIN entries' : T!Within(entries'[e].out)
  BY <1>1, <1>2, NothingEmpty DEF LineOrder
<1>6. T!Within(toClient')
  BY <1>1 DEF LineOrder
<1> QED BY <1>3, <1>4, <1>5, <1>6 DEF LineOrder

LEMMA OrderStep == IInv /\ LineOrder /\ [T!Next]_(T!vars) => LineOrder'
<1> SUFFICES ASSUME IInv, LineOrder, [T!Next]_(T!vars) PROVE LineOrder'
  OBVIOUS
<1>1. CASE \/ T!Open \/ T!DemoEnds \/ T!EnvironmentArrives \/ T!EnvironmentFails \/ T!SocketError
           \/ T!SocketCloses \/ T!TimerFires \/ T!ReadingRaises \/ T!ProcessEnds
           \/ (\E c \in 1 .. MaxCommands : T!StrayEnds(c)) \/ UNCHANGED T!vars
           \/ T!Take /\ toClient' = toClient
  BY <1>1, Silent, OrderSilent
<1>2. CASE \/ T!Take /\ toClient' # toClient
           \/ (\E looks \in {"text", "like"} : T!Output(looks)) \/ T!Report
  BY <1>2, Sends, OrderSend
<1>3. CASE T!Receive \/ \E kind \in Kinds : T!Run(kind)
  BY <1>3, OrderReceive, OrderRun
<1> QED BY <1>1, <1>2, <1>3 DEF T!Next, T!PageStep, T!AgentStep

\* stream_command and its timer: a command's last line is its mark of the end,
\* on the way and in the terminal.
THEOREM MarkCorrect == Spec => []MarkIsLast
<1>1. T!Init \/ T!Absent => IInv /\ LineOrder
  <2>1. T!Init \/ T!Absent => entries = << >> /\ toClient = << >>
    BY DEF T!Init, T!Absent, T!Idle
  <2> QED BY <2>1, IInit, NothingEmpty DEF LineOrder
<1>2. (IInv /\ LineOrder) /\ [T!Next]_(T!vars) => (IInv /\ LineOrder)'
  BY IStep, OrderStep
<1>3. IInv /\ LineOrder => MarkIsLast
  BY MembersSeen DEF LineOrder, MarkIsLast, T!MarkIsLast, T!Before, Shows, On
<1> QED BY <1>1, <1>2, <1>3, TerminalBegins, TerminalSteps, PTL DEF Spec

(***************************************************************************)
(* Whose line it is.                                                       *)
(***************************************************************************)
LikeBefore(k) == \E e \in DOMAIN entries : \E a : Shows(e, a) /\ a.looks = "like" /\ a.of < k

DemoInv ==
  /\ \A e \in DOMAIN entries : entries[e].demo => termSock = "closed"
  /\ termRunning => entries # << >>

Empty == toClient = << >> /\ toServer = << >> /\ command = 0

\* All that is under way is of the last entry, a mark only when nothing follows.
InStep ==
  /\ \A x : On(x) => x.of = Len(entries)
  /\ toServer \in {<< >>, <<Len(entries)>>}
  /\ command \in {0, Len(entries)}
  /\ toServer # << >> => command = 0 /\ toClient = << >>
  /\ \A i \in DOMAIN toClient : toClient[i].looks \in T!Marks =>
       i = Len(toClient) /\ command = 0 /\ toServer = << >>
  /\ termRunning \/ LikeBefore(Len(entries) + 1) \/ Empty

\* No line comes any more, or it may be misplaced, or what is under way is of
\* the last entry.
SyncInv == termSock = "closed" \/ LikeBefore(Len(entries)) \/ InStep

OwnInv == \A e \in DOMAIN entries : \A a : Shows(e, a) /\ a.of # e => LikeBefore(e)

PlaceInv == DemoInv /\ SyncInv /\ OwnInv

\* What touches nothing that is shown.
LEMMA PlaceStill ==
  ASSUME PlaceInv, entries' = entries, termSock = "closed" => termSock' = "closed",
         termRunning' => termRunning,
         InStep => InStep' \/ termSock' = "closed"
  PROVE  PlaceInv'
<1>1. \A e, a : Shows(e, a)' <=> Shows(e, a)
  BY DEF Shows
<1>2. \A k : LikeBefore(k)' <=> LikeBefore(k)
  BY <1>1 DEF LikeBefore
<1>3. DemoInv'
  BY DEF PlaceInv, DemoInv
<1>4. OwnInv'
  BY <1>1, <1>2 DEF PlaceInv, OwnInv
<1>5. SyncInv'
  BY <1>2 DEF PlaceInv, SyncInv
<1> QED BY <1>3, <1>4, <1>5 DEF PlaceInv

LEMMA PlaceSilent ==
  ASSUME IInv, PlaceInv,
         \/ T!Open \/ T!DemoEnds \/ T!EnvironmentArrives \/ T!EnvironmentFails \/ T!SocketError
         \/ T!SocketCloses \/ T!TimerFires \/ T!ReadingRaises \/ T!ProcessEnds
         \/ (\E c \in 1 .. MaxCommands : T!StrayEnds(c)) \/ UNCHANGED T!vars
  PROVE  PlaceInv'
<1>1. entries' = entries /\ toServer' = toServer /\ command' = command
  BY DEF T!Open, T!DemoEnds, T!EnvironmentArrives, T!EnvironmentFails, T!SocketError, T!SocketCloses,
         T!EnterDemo, T!agent, T!TimerFires, T!ReadingRaises, T!ProcessEnds, T!StrayEnds, T!page, T!vars
<1>2. /\ termSock = "closed" => termSock' = "closed"
      /\ toClient' = toClient \/ termSock' = "closed"
  BY DEF T!Open, T!DemoEnds, T!EnvironmentArrives, T!EnvironmentFails, T!SocketError, T!SocketCloses,
         T!EnterDemo, T!agent, T!TimerFires, T!ReadingRaises, T!ProcessEnds, T!StrayEnds, T!page, T!vars
<1>3. termRunning' = termRunning \/ termSock' = "closed"
  <2>1. CASE T!DemoEnds
    <3>1. entries[Len(entries)].demo /\ Len(entries) \in DOMAIN entries /\ termSock' = termSock
      <4>1. entries \in Seq(Entry) /\ DOMAIN entries = 1 .. Len(entries) /\ Len(entries) \in Nat
        BY Types
      <4>2. entries[Len(entries)].demo /\ termSock' = termSock
        BY <2>1 DEF T!DemoEnds
      <4>3. entries # << >>
        BY <2>1, Zenon DEF T!DemoEnds, PlaceInv, DemoInv
      <4> QED BY <4>1, <4>2, <4>3
    <3> QED BY <3>1 DEF PlaceInv, DemoInv
  <2>2. CASE ~ T!DemoEnds
    BY <2>2 DEF T!Open, T!EnvironmentArrives, T!EnvironmentFails, T!SocketError, T!SocketCloses,
         T!EnterDemo, T!agent, T!TimerFires, T!ReadingRaises, T!ProcessEnds, T!StrayEnds, T!page, T!vars
  <2> QED BY <2>1, <2>2
<1>4. ASSUME InStep, toClient' = toClient, termRunning' = termRunning PROVE InStep'
  <2>1. (\A x : On(x)' <=> On(x)) /\ (\A k : LikeBefore(k)' <=> LikeBefore(k))
    BY <1>1, <1>4 DEF On, LikeBefore, Shows
  <2> QED BY <1>1, <1>4, <2>1 DEF InStep, Empty
<1>5. termRunning' => termRunning
  BY Zenon DEF T!Open, T!DemoEnds, T!EnvironmentArrives, T!EnvironmentFails, T!SocketError, T!SocketCloses,
         T!EnterDemo, T!agent, T!TimerFires, T!ReadingRaises, T!ProcessEnds, T!StrayEnds, T!page, T!vars
<1> QED BY <1>1, <1>2, <1>3, <1>4, <1>5, PlaceStill

LEMMA PlaceTake == ASSUME IInv, PlaceInv, T!Take PROVE PlaceInv'
<1> DEFINE n == Len(entries)
           c == Head(toServer)
<1>1. UNCHANGED <<entries, termSock, termRunning>> /\ toServer # << >> /\ toServer' = Tail(toServer)
  BY DEF T!Take, T!page
<1>2. \A k : LikeBefore(k)' <=> LikeBefore(k)
  BY <1>1 DEF LikeBefore, Shows
<1> SUFFICES ASSUME InStep PROVE InStep'
  BY <1>1, PlaceStill
<1>3. toServer = <<n>> /\ toClient = << >> /\ command = 0 /\ (termRunning \/ LikeBefore(n + 1))
  BY <1>1 DEF InStep, Empty
<1>4. c = n /\ toServer' = << >>
  BY <1>1, <1>3
<1>5. n \in 1 .. MaxCommands
  BY <1>4, TakeFacts
<1>6. ASSUME NEW l, l.of = n, toClient' \in {<<l>>, << >>}, command' = 0 PROVE InStep'
  <2>1. \A x : On(x)' => x.of = n
    BY <1>6 DEF On, In
  <2>2. \A i \in DOMAIN toClient' : i = Len(toClient')
    <3>1. Len(<<l>>) = 1 /\ DOMAIN <<l>> = {1}
      OBVIOUS
    <3>2. CASE toClient' = <<l>>
      BY <3>1, <3>2
    <3>3. CASE toClient' = << >>
      BY <3>3
    <3> QED BY <1>6, <3>2, <3>3
  <2> QED BY <1>1, <1>2, <1>3, <1>4, <1>6, <2>1, <2>2 DEF InStep
<1>7. ASSUME NEW looks \in {"text", "refused"}, T!Send(<<T!Line(n, looks)>>), UNCHANGED T!agent PROVE InStep'
  <2> DEFINE l == T!Line(n, looks)
  <2>1. l \in T!Lines /\ l.of = n
    BY <1>5 DEF T!Line, T!Lines, T!Marks
  <2>2. command' = 0
    BY <1>3, <1>7 DEF T!agent
  <2> HIDE DEF l
  <2>3. toClient' \in {<<l>>, << >>}
    <3>1. toClient' = Append(toClient, l) \/ toClient' = << >>
      BY <1>7, <2>1, OneLine DEF l
    <3> QED BY <1>3, <3>1
  <2> QED BY <1>6, <2>1, <2>2, <2>3
<1>8. ASSUME command' = n, UNCHANGED toClient PROVE InStep'
  <2>1. ~ \E x : On(x)'
    BY <1>3, <1>8, NothingEmpty DEF On
  <2> QED BY <1>1, <1>2, <1>3, <1>4, <1>8, <2>1 DEF InStep
<1> HIDE DEF n
<1> QED BY <1>4, <1>7, <1>8 DEF T!Take, T!Start

LEMMA PlaceSays ==
  ASSUME IInv, PlaceInv, (\E looks \in {"text", "like"} : T!Output(looks)) \/ T!Report
  PROVE  PlaceInv'
<1> DEFINE n == Len(entries)
<1>1. UNCHANGED <<entries, termSock, termRunning, toServer>> /\ command # 0
  BY DEF T!Output, T!Report, T!page, IInv, ControlInv
<1>2. \A k : LikeBefore(k)' <=> LikeBefore(k)
  BY <1>1 DEF LikeBefore, Shows
<1> SUFFICES ASSUME InStep PROVE InStep'
  BY <1>1, PlaceStill
<1>3. command = n /\ toServer = << >> /\ (termRunning \/ LikeBefore(n + 1))
  BY <1>1 DEF InStep, Empty
<1>4. \A i \in DOMAIN toClient : toClient[i].looks \notin T!Marks
  BY <1>1 DEF InStep
<1>5. PICK l \in T!Lines : /\ T!Send(<<l>>) /\ l.of = command
                           /\ \/ command' = command /\ l.looks \notin T!Marks
                              \/ command' = 0
  <2>1. command \in 1 .. MaxCommands
    BY <1>1, Constants DEF IInv, T!TypeOK
  <2>2. CASE \E looks \in {"text", "like"} : T!Output(looks)
    <3>1. PICK looks \in {"text", "like"} : T!Output(looks)
      BY <2>2
    <3>2. T!Line(command, looks) \in T!Lines /\ T!Line(command, looks).of = command
          /\ T!Line(command, looks).looks \notin T!Marks
      BY <2>1, <3>1 DEF T!Line, T!Lines, T!Marks
    <3>3. T!Send(<<T!Line(command, looks)>>) /\ command' = command
      BY <3>1 DEF T!Output
    <3> QED BY <3>2, <3>3
  <2>3. CASE T!Report
    <3> DEFINE l == T!Line(command, IF killer = "fired" THEN "killed" ELSE "exit")
    <3>1. l \in T!Lines /\ l.of = command
      BY <2>1 DEF T!Line, T!Lines, T!Marks
    <3>2. T!Send(<<l>>) /\ command' = 0
      BY <2>3 DEF T!Report
    <3> QED BY <3>1, <3>2
  <2> QED BY <2>2, <2>3
<1>6. toClient \in Seq(T!Lines)
  BY Types
<1>7. \/ toClient' = Append(toClient, l) /\ \A x : On(x)' <=> On(x) \/ x = l
      \/ toClient' = << >> /\ \A x : ~ On(x)'
  BY <1>5, OneLine, NothingEmpty DEF On
<1>8. \A x : On(x)' => x.of = n
  BY <1>3, <1>5, <1>7 DEF InStep
<1>9. \A i \in DOMAIN toClient' : toClient'[i].looks \in T!Marks => i = Len(toClient') /\ command' = 0
  <2>1. CASE toClient' = << >>
    BY <2>1
  <2>2. CASE toClient' = Append(toClient, l)
    <3>1. /\ Len(toClient) \in Nat /\ DOMAIN toClient = 1 .. Len(toClient)
          /\ Len(toClient') = Len(toClient) + 1 /\ DOMAIN toClient' = 1 .. Len(toClient) + 1
          /\ toClient'[Len(toClient) + 1] = l
          /\ \A i \in 1 .. Len(toClient) : toClient'[i] = toClient[i]
      BY <1>6, <2>2
    <3> QED BY <1>4, <1>5, <3>1
  <2> QED BY <1>7, <2>1, <2>2
<1> QED BY <1>1, <1>2, <1>3, <1>5, <1>8, <1>9 DEF InStep

LEMMA PlaceReceive == ASSUME IInv, PlaceInv, T!Receive PROVE PlaceInv'
<1>0. PICK n, x : n = Len(entries) /\ x = Head(toClient)
  OBVIOUS
<1>1. /\ n \in DOMAIN entries /\ Len(entries') = n /\ DOMAIN entries' = DOMAIN entries
      /\ DOMAIN entries = 1 .. n /\ n \in Nat
      /\ \A e \in DOMAIN entries : e # n => entries'[e] = entries[e]
      /\ entries'[n].demo = entries[n].demo
      /\ toClient' = Tail(toClient) /\ toClient # << >> /\ On(x) /\ x \in T!Lines
      /\ toClient \in Seq(T!Lines)
      /\ \A a : Shows(n, a)' <=> Shows(n, a) \/ a = x
      /\ \A a : On(a) <=> a = x \/ On(a)'
      /\ UNCHANGED <<toServer, command, termSock>>
  BY <1>0, ReceiveFacts, Types DEF Shows
<1>2. termSock = "open" /\ (termRunning' => termRunning)
      /\ (x.looks \in T!Marks \cup {"like"} => ~ termRunning')
      /\ (x.looks \notin T!Marks \cup {"like"} /\ termRunning => termRunning')
  <2>1. termSock = "open" /\ termRunning' = (termRunning /\ x.looks \notin T!Marks \cup {"like"})
    BY <1>0 DEF T!Receive
  <2> QED BY <2>1, Zenon
<1>3. \A e \in DOMAIN entries : e # n => \A a : Shows(e, a)' <=> Shows(e, a)
  BY <1>1 DEF Shows, In
<1>4. \A k : LikeBefore(k) => LikeBefore(k)'
  BY <1>1, <1>3 DEF LikeBefore
<1>5. LikeBefore(n) \/ InStep
  BY <1>0, <1>2 DEF PlaceInv, SyncInv
<1>6. DemoInv'
  <2>1. entries' # << >>
    BY <1>1
  <2> QED BY <1>1, <2>1 DEF PlaceInv, DemoInv
<1>7. OwnInv'
  <2>1. x.of # n => LikeBefore(n)
    BY <1>0, <1>1, <1>5 DEF InStep
  <2> QED BY <1>1, <1>3, <1>4, <2>1 DEF PlaceInv, OwnInv
<1>8. ASSUME InStep PROVE InStep'
  <2>1. /\ Len(toClient) \in Nat \ {0} /\ DOMAIN toClient = 1 .. Len(toClient) /\ x = toClient[1]
        /\ DOMAIN toClient' = 1 .. Len(toClient) - 1 /\ Len(toClient') = Len(toClient) - 1
        /\ \A i \in 1 .. Len(toClient) - 1 : toClient'[i] = toClient[i + 1]
    BY <1>0, <1>1
  <2>2. x.of = n /\ toServer = << >> /\ \A a : On(a)' => a.of = n
    BY <1>0, <1>1, <1>8 DEF InStep
  <2>3. \A i \in DOMAIN toClient' : toClient'[i].looks \in T!Marks =>
          i = Len(toClient') /\ command = 0 /\ toServer = << >>
    <3>1. \A i \in DOMAIN toClient' : i + 1 \in DOMAIN toClient /\ (i + 1 = Len(toClient) => i = Len(toClient'))
      BY <2>1
    <3> QED BY <1>8, <2>1, <3>1 DEF InStep
  <2>4. termRunning' \/ LikeBefore(n + 1)' \/ Empty'
    <3>1. CASE x.looks \in T!Marks
      <4>1. 1 = Len(toClient) /\ command = 0
        BY <1>8, <2>1, <3>1 DEF InStep
      <4>2. toClient' = << >>
        BY <1>1, <2>1, <4>1
      <4> QED BY <1>1, <2>2, <4>1, <4>2 DEF Empty
    <3>2. CASE x.looks = "like"
      <4>1. x.of < n + 1
        BY <1>1, <2>2
      <4>2. Shows(n, x)'
        BY <1>1
      <4> QED BY <1>1, <3>2, <4>1, <4>2 DEF LikeBefore
    <3>3. CASE x.looks \notin T!Marks \cup {"like"}
      <4>1. termRunning \/ LikeBefore(n + 1)
        BY <1>0, <1>1, <1>8 DEF InStep, Empty
      <4>2. termRunning => termRunning'
        BY <1>2, <3>3
      <4>3. LikeBefore(n + 1) => LikeBefore(n + 1)'
        BY <1>4
      <4> QED BY <4>1, <4>2, <4>3, Zenon
    <3> QED BY <3>1, <3>2, <3>3
  <2>5. Len(entries') = n /\ UNCHANGED <<toServer, command>>
    BY <1>1
  <2>6. command \in {0, n}
    BY <1>0, <1>8 DEF InStep
  <2> QED BY <2>2, <2>3, <2>4, <2>5, <2>6 DEF InStep, LikeBefore
<1>9. SyncInv'
  BY <1>1, <1>4, <1>5, <1>8 DEF SyncInv
<1> QED BY <1>6, <1>7, <1>9 DEF PlaceInv

LEMMA PlaceRun == ASSUME IInv, PlaceInv, NEW kind \in Kinds, T!Run(kind) PROVE PlaceInv'
<1> DEFINE n == Len(entries)
           k == n + 1
<1>1. /\ Len(entries') = k /\ DOMAIN entries' = 1 .. k /\ DOMAIN entries = 1 .. n /\ n \in Nat
      /\ \A e \in DOMAIN entries : entries'[e] = entries[e]
      /\ entries'[k].out = << >> /\ entries'[k].demo = termDemo
      /\ \/ toServer' = toServer /\ termDemo
         \/ toServer' = Append(toServer, k) /\ termSock = "open"
      /\ UNCHANGED <<toClient, command, termSock>>
  BY RunFacts
<1>2. termRunning' = TRUE /\ ~ termRunning
  BY DEF T!Run
<1>3. termDemo => termSock = "closed"
  BY DEF IInv, ControlInv
<1>4. \A e \in DOMAIN entries' : (e \in DOMAIN entries /\ entries'[e] = entries[e]) \/ e = k
  BY <1>1
<1>5. \A e \in DOMAIN entries : e \in DOMAIN entries'
  BY <1>1
<1>6. /\ \A e \in DOMAIN entries' : \A a : Shows(e, a)' => e \in DOMAIN entries /\ Shows(e, a)
      /\ \A e \in DOMAIN entries : \A a : Shows(e, a) => Shows(e, a)'
  <2> HIDE DEF k
  <2> QED BY <1>1, <1>4, NothingEmpty DEF Shows
<1>7. \A j : LikeBefore(j) => LikeBefore(j)'
  BY <1>5, <1>6 DEF LikeBefore
<1>8. DemoInv'
  <2>1. entries' # << >>
    BY <1>1
  <2> HIDE DEF k
  <2> QED BY <1>1, <1>3, <1>4, <2>1 DEF PlaceInv, DemoInv
<1>9. OwnInv'
  BY <1>6, <1>7 DEF PlaceInv, OwnInv
<1>10. CASE termSock = "closed"
  BY <1>1, <1>8, <1>9, <1>10 DEF PlaceInv, SyncInv
<1>11. CASE LikeBefore(n) \/ LikeBefore(k)
  <2>1. PICK j : j = k
    OBVIOUS
  <2>2. LikeBefore(j)
    <3>1. \A a \in T!Lines : a.of \in Nat /\ (a.of < n => a.of < k)
      BY <1>1, Constants DEF T!Lines
    <3>2. \A e \in DOMAIN entries : \A a : Shows(e, a) => a \in T!Lines
      BY Types DEF Seen
    <3> HIDE DEF k
    <3> QED BY <1>11, <2>1, <3>1, <3>2 DEF LikeBefore
  <2>3. LikeBefore(j)'
    BY <1>7, <2>2
  <2>4. Len(entries') = j
    BY <1>1, <2>1
  <2>5. LikeBefore(Len(entries))'
    BY <2>3, <2>4
  <2>6. SyncInv'
    BY <2>5 DEF SyncInv
  <2> QED BY <1>8, <1>9, <2>6 DEF PlaceInv
<1>12. CASE termSock # "closed" /\ Empty
  <2>1. toServer' = <<k>> /\ toClient' = << >> /\ command' = 0
    BY <1>1, <1>3, <1>12 DEF Empty
  <2>2. \A x : ~ On(x)'
    BY <2>1, NothingEmpty DEF On
  <2>3. DOMAIN toClient' = {} /\ toServer' \in {<<Len(entries')>>}
    BY <1>1, <2>1
  <2>4. InStep'
    BY <1>2, <2>1, <2>2, <2>3 DEF InStep
  <2> QED BY <1>8, <1>9, <2>4 DEF PlaceInv, SyncInv
<1> QED BY <1>2, <1>10, <1>11, <1>12 DEF PlaceInv, SyncInv, InStep

\* RealTerminal.tsx takes the text of a line for the end of a command, and puts
\* every line under the last entry: only a line that looks like a mark can
\* bring the next lines under another command than their own.
THEOREM LinesCorrect == Spec => []LinesUnderOwnCommand
<1>1. T!Init \/ T!Absent => IInv /\ PlaceInv
  <2> SUFFICES ASSUME T!Init \/ T!Absent PROVE PlaceInv
    BY IInit
  <2>1. /\ entries = << >> /\ toClient = << >> /\ toServer = << >> /\ command = 0
        /\ termRunning = FALSE
    BY DEF T!Init, T!Absent, T!Idle
  <2>2. InStep
    BY <2>1, NothingEmpty DEF InStep, On, Empty
  <2> QED BY <2>1, <2>2 DEF PlaceInv, DemoInv, SyncInv, OwnInv
<1>2. IInv /\ PlaceInv /\ [T!Next]_(T!vars) => PlaceInv'
  <2> SUFFICES ASSUME IInv, PlaceInv, [T!Next]_(T!vars) PROVE PlaceInv'
    OBVIOUS
  <2>1. CASE \/ T!Open \/ T!DemoEnds \/ T!EnvironmentArrives \/ T!EnvironmentFails \/ T!SocketError
             \/ T!SocketCloses \/ T!TimerFires \/ T!ReadingRaises \/ T!ProcessEnds
             \/ (\E c \in 1 .. MaxCommands : T!StrayEnds(c)) \/ UNCHANGED T!vars
    BY <2>1, PlaceSilent
  <2>2. CASE T!Take \/ T!Report \/ T!Receive \/ (\E looks \in {"text", "like"} : T!Output(looks))
    BY <2>2, PlaceTake, PlaceSays, PlaceReceive
  <2>3. CASE \E kind \in Kinds : T!Run(kind)
    BY <2>3, PlaceRun
  <2> QED BY <2>1, <2>2, <2>3 DEF T!Next, T!PageStep, T!AgentStep
<1>3. IInv /\ PlaceInv => LinesUnderOwnCommand
  <2> SUFFICES ASSUME PlaceInv, NEW e \in DOMAIN entries, NEW a \in T!ToSet(entries[e].out), a.of # e
               PROVE  \E b \in T!Shown : b.looks = "like" /\ b.of < e
    BY DEF LinesUnderOwnCommand, T!LinesUnderOwnCommand
  <2>1. Shows(e, a)
    BY MembersSeen DEF Shows
  <2>2. LikeBefore(e)
    BY <2>1 DEF PlaceInv, OwnInv
  <2> QED BY <2>2, MembersSeen DEF LikeBefore
<1> QED BY <1>1, <1>2, <1>3, IStep, TerminalBegins, TerminalSteps, PTL DEF Spec

(***************************************************************************)
(* The two reports.  Both give a tenth near the same quotient, one of the  *)
(* growth and the other of the decline.                                    *)
(***************************************************************************)
LEMMA Tenths ==
  ASSUME NEW x \in Int, NEW b \in Nat \ {0}, NEW n \in R!Nearest(x, b)
  PROVE  n \in Int /\ 2 * R!Size(1000 * x - n * b) <= b
<1>1. (1000 * x) \div b \in Int
  OBVIOUS
<1> QED BY <1>1 DEF R!Nearest

LEMMA Sizes ==
  ASSUME NEW n \in Int
  PROVE  /\ R!Size(n) \in Nat /\ n <= R!Size(n) /\ 0 - n <= R!Size(n)
         /\ R!Size(n) = n \/ R!Size(n) = 0 - n
BY DEF R!Size

\* A tenth near the growth and one near the decline cancel out, or both are as
\* far away as they may be.
LEMMA Opposite ==
  ASSUME NEW x \in Int, NEW b \in Nat \ {0}, NEW l \in Int, NEW h \in Int,
         2 * R!Size(1000 * x - l * b) <= b, 2 * R!Size(1000 * (0 - x) - h * b) <= b
  PROVE  \/ l + h = 0
         \/ l + h \in {-1, 1} /\ 2 * R!Size(1000 * x - l * b) = b
<1> DEFINE lb == l * b
           hb == h * b
<1>1. lb \in Int /\ hb \in Int /\ (l + h) * b = lb + hb
  OBVIOUS
<1>2. 2 * R!Size(1000 * x - lb) <= b /\ 2 * R!Size(1000 * (0 - x) - hb) <= b
  OBVIOUS
<1> HIDE DEF lb, hb
<1>3. lb + hb <= b /\ 0 - b <= lb + hb
  BY <1>1, <1>2 DEF R!Size
<1>4. l + h <= 1 /\ -1 <= l + h
  <2>1. l + h >= 2 => (l + h) * b >= 2 * b
    OBVIOUS
  <2>2. l + h <= -2 => (l + h) * b <= (-2) * b
    OBVIOUS
  <2> QED BY <1>1, <1>3, <2>1, <2>2
<1>5. CASE l + h \in {-1, 1}
  <2>1. lb + hb = b \/ lb + hb = 0 - b
    BY <1>1, <1>5
  <2>2. 2 * R!Size(1000 * x - lb) = b
    BY <1>1, <1>2, <2>1 DEF R!Size
  <2> QED BY <1>5, <2>2 DEF lb
<1> QED BY <1>4, <1>5

LEMMA OneChange ==
  ASSUME NEW b \in Nat \ {0}, NEW a \in Nat \ {0},
         NEW label \in R!Nearest(a - b, b), NEW n \in R!Nearest(b - a, b)
  PROVE  \/ R!Size(n) = R!Size(label)
         \/ R!HalfWay(a - b, b) /\ R!Size(R!Size(n) - R!Size(label)) = 1
<1>1. PICK x \in Int : x = a - b /\ 0 - x = b - a
  OBVIOUS
<1>2. /\ label \in Int /\ 2 * R!Size(1000 * x - label * b) <= b
      /\ n \in Int /\ 2 * R!Size(1000 * (0 - x) - n * b) <= b
  <2>1. label \in R!Nearest(x, b) /\ n \in R!Nearest(0 - x, b) /\ 0 - x \in Int
    BY <1>1
  <2> QED BY <2>1, Tenths
<1>3. CASE label + n = 0
  BY <1>2, <1>3 DEF R!Size
<1>4. CASE label + n \in {-1, 1} /\ 2 * R!Size(1000 * x - label * b) = b
  <2>1. R!HalfWay(a - b, b)
    BY <1>1, <1>4 DEF R!HalfWay
  <2>2. R!Size(R!Size(n) - R!Size(label)) = 1
    BY <1>2, <1>4 DEF R!Size
  <2> QED BY <2>1, <2>2
<1> QED BY <1>2, <1>3, <1>4, Opposite

LEMMA Quotient ==
  ASSUME NEW d \in Nat \ {0}, NEW a \in Int, NEW q \in Int, d * q <= a, a < d * q + d
  PROVE  a \div d = q
<1>1. a \div d \in Int /\ d * (a \div d) <= a /\ a < d * (a \div d) + d
  OBVIOUS
<1>2. \A r \in Int : d * r <= a /\ a < d * r + d => r = q
  OBVIOUS
<1> QED BY <1>1, <1>2

LEMMA OnlyTenth ==
  ASSUME NEW x \in Int, NEW b \in Nat \ {0}, NEW q \in Int, 2 * R!Size(1000 * x - q * b) < b
  PROVE  R!Nearest(x, b) = {q}
<1> DEFINE low == (1000 * x) \div b
           e == 1000 * x - q * b
<1>1. e \in Int /\ 2 * e < b /\ 0 - b < 2 * e /\ 1000 * x = q * b + e
  BY DEF R!Size
<1>2. low = q \/ low = q - 1
  <2> DEFINE y == 1000 * x
             p == q - 1
  <2>0. y \in Int /\ p \in Int /\ b * p = b * q - b /\ q * b = b * q
    OBVIOUS
  <2>1. CASE e >= 0
    <3>1. b * q <= y /\ y < b * q + b
      BY <1>1, <2>0, <2>1
    <3> HIDE DEF y
    <3>2. y \div b = q
      BY <2>0, <3>1, Quotient
    <3> QED BY <3>2 DEF y
  <2>2. CASE e < 0
    <3>1. b * p <= y /\ y < b * p + b
      BY <1>1, <2>0, <2>2
    <3> HIDE DEF y, p
    <3>2. y \div b = p
      BY <2>0, <3>1, Quotient
    <3> QED BY <3>2 DEF y, p
  <2> QED BY <1>1, <2>1, <2>2
<1>3. ASSUME NEW n \in R!Nearest(x, b) PROVE n = q
  <2>1. n \in Int /\ 2 * R!Size(1000 * x - n * b) <= b
    BY Tenths
  <2> DEFINE nb == n * b
             qb == q * b
  <2>2. nb \in Int /\ qb \in Int /\ (n - q) * b = nb - qb
    BY <2>1
  <2>3. 2 * R!Size(1000 * x - nb) <= b /\ 2 * R!Size(1000 * x - qb) < b
    BY <2>1
  <2> HIDE DEF nb, qb
  <2>4. nb - qb < b /\ 0 - b < nb - qb
    BY <2>2, <2>3 DEF R!Size
  <2>5. (n - q >= 1 => (n - q) * b >= b) /\ (n - q <= -1 => (n - q) * b <= 0 - b)
    BY <2>1
  <2> QED BY <2>1, <2>2, <2>4, <2>5
<1>4. q \in R!Nearest(x, b)
  <2>1. q \in {low, low + 1} /\ 2 * R!Size(1000 * x - q * b) <= b
    <3>1. 2 * R!Size(1000 * x - q * b) <= b
      BY <1>1 DEF R!Size
    <3>2. q = low \/ q = low + 1
      BY <1>2
    <3> QED BY <3>1, <3>2
  <2> HIDE DEF low, e
  <2> QED BY <2>1 DEF R!Nearest, low
<1> HIDE DEF low, e
<1> QED BY <1>3, <1>4

\* The data that is built in fits itself.
LEMMA Story == R!DemoStory
<1>1. R!Nearest(382 - 527, 527) = {-275}
  <2>1. PICK x \in Int, b \in Nat \ {0}, q \in Int : x = 382 - 527 /\ b = 527 /\ q = -275
    BY SMT
  <2>2. 2 * R!Size(1000 * x - q * b) < b
    BY <2>1, SMT DEF R!Size
  <2>3. R!Nearest(x, b) = {q}
    BY <2>2, OnlyTenth
  <2> QED BY <2>1, <2>3, SMT
<1>2. R!Nearest(148920 - 152340, 152340) = {-22}
  <2>1. PICK x \in Int, b \in Nat \ {0}, q \in Int : x = 148920 - 152340 /\ b = 152340 /\ q = -22
    BY SMT
  <2>2. 2 * R!Size(1000 * x - q * b) < b
    BY <2>1, SMT DEF R!Size
  <2>3. R!Nearest(x, b) = {q}
    BY <2>2, OnlyTenth
  <2> QED BY <2>1, <2>3, SMT
<1>3. R!Nearest(4200 - 8500, 8500) = {-506}
  <2>1. PICK x \in Int, b \in Nat \ {0}, q \in Int : x = 4200 - 8500 /\ b = 8500 /\ q = -506
    BY SMT
  <2>2. 2 * R!Size(1000 * x - q * b) < b
    BY <2>1, SMT DEF R!Size
  <2>3. R!Nearest(x, b) = {q}
    BY <2>2, OnlyTenth
  <2> QED BY <2>1, <2>3, SMT
<1> QED BY <1>1, <1>2, <1>3, SMT DEF R!DemoStory, SimBenchmark, SimPatchReport, SimScheduler,
                    R!SimBenchmark, R!SimPatchReport, R!SimScheduler

ReportsInv == compared \cup reported \subseteq Answers \cup {R!SimResults}

\* results/page.tsx and SchedulerCompare.tsx: whatever /api/results contains, two
\* pages that show it give the same size of the change of the targeted metric,
\* unless the percentage is half way between two tenths, and then differ by one.
THEOREM ReportsCorrect == Spec => []PagesAgree
<1>1. Init => ReportsInv
  BY DEF Init, R!RInit, ReportsInv
<1>2. ReportsInv /\ [Next]_vars => ReportsInv'
  <2>1. [Next]_vars => R!RNext \/ UNCHANGED reports
    BY DEF Next, vars
  <2> QED BY <2>1 DEF ReportsInv, R!RNext, R!CompareLoads, R!ReportLoads, reports
<1>3. ReportsInv => PagesAgree
  <2> SUFFICES ASSUME NEW r \in Answers \cup {R!SimResults},
                      NEW label \in R!CompareScreen(r).latency.labels,
                      NEW headline \in R!ReportScreen(r).headlines
               PROVE  LET before == r.baseline.latencyP99
                          after == r.optimized.latencyP99 IN
                        \/ headline = R!Size(label)
                        \/ R!HalfWay(after - before, before) /\ R!Size(headline - R!Size(label)) = 1
    BY Story DEF ReportsInv, PagesAgree, R!PagesAgree
  <2>1. r.baseline.latencyP99 \in Nat \ {0} /\ r.optimized.latencyP99 \in Nat \ {0}
    <3>1. CASE r \in Answers
      <4>1. "baseline" \in {"baseline", "optimized"} /\ "optimized" \in {"baseline", "optimized"}
            /\ "latencyP99" \in R!Measures
        BY DEF R!Measures
      <4>2. r["baseline"]["latencyP99"] \in Nat \ {0} /\ r["optimized"]["latencyP99"] \in Nat \ {0}
        BY <3>1, <4>1, PartsAssumption DEF R!ConstantsOK
      <4> QED BY <4>2
    <3>2. CASE r = R!SimResults
      BY <3>2 DEF R!SimResults
    <3> QED BY <3>1, <3>2
  <2> DEFINE b == r.baseline.latencyP99
             a == r.optimized.latencyP99
  <2>2. label \in R!Nearest(a - b, b)
    BY DEF R!CompareScreen, R!MetricPanel
  <2>3. PICK n \in R!Nearest(b - a, b) : headline = R!Size(n)
    BY DEF R!ReportScreen, R!Headline
  <2> HIDE DEF a, b
  <2>4. \/ headline = R!Size(label)
        \/ R!HalfWay(a - b, b) /\ R!Size(headline - R!Size(label)) = 1
    BY <2>1, <2>2, <2>3, OneChange DEF a, b
  <2> QED BY <2>4 DEF a, b
<1> QED BY <1>1, <1>2, <1>3, PTL DEF Spec

(***************************************************************************)
(* The monitor among the pages.                                            *)
(***************************************************************************)
LEMMA MonitorBegins == Init => M!MInit \/ M!MAbsent
BY DEF Init

LEMMA MonitorSteps == [Next]_vars => [M!MNext]_(M!mvars)
<1>1. UNCHANGED monitor => UNCHANGED M!mvars
  BY DEF monitor, M!mvars, M!page, M!screen, M!agent
<1> QED BY <1>1 DEF Next, vars

(***************************************************************************)
(* The stop.                                                               *)
(***************************************************************************)
\* A worker that is past the test of the stop has not put a late sample yet:
\* without a stop there is no late sample, and with one the test fails.
LateInv ==
  /\ late \in {0, 1}
  /\ late = 1 => stop /\ worker # "parsing"

\* After the stop the agent puts at most one more sample, the one whose line
\* had passed the test of ebpf_agent.py:84.
THEOREM LateOnce == Spec => []OneLateSample
<1>1. Init => LateInv
  BY MonitorBegins DEF M!MInit, M!MAbsent, M!MIdle, LateInv
<1>2. LateInv /\ [M!MNext]_(M!mvars) => LateInv'
  <2> SUFFICES ASSUME LateInv, [M!MNext]_(M!mvars) PROVE LateInv'
    OBVIOUS
  <2> USE DEF LateInv
  <2>1. CASE M!Connect \/ M!Fail \/ M!CloseEvent \/ M!WorkflowTimeOut \/ M!DemoBegins \/ M!DemoTick \/ M!Leave
    BY <2>1 DEF M!Connect, M!Fail, M!CloseEvent, M!WorkflowTimeOut, M!DemoBegins, M!DemoTick, M!Leave, M!agent
  <2>2. CASE M!Prepare \/ M!Launch \/ M!TracerPrints \/ M!TracerDies \/ M!OrphanEnds
    BY <2>2 DEF M!Prepare, M!Launch, M!TracerPrints, M!TracerDies, M!OrphanEnds
  <2>3. CASE M!Relay
    BY <2>3 DEF M!Relay, M!HandlerEnds, M!agent
  <2>4. CASE M!StopSeen \/ M!TestPassed \/ M!EndOfOutput
    BY <2>4 DEF M!StopSeen, M!TestPassed, M!EndOfOutput, M!AgentEnds
  <2>5. CASE M!Parse
    BY <2>5 DEF M!Parse, M!PutSample, M!AgentRaises
  <2>6. CASE UNCHANGED M!mvars
    BY <2>6 DEF M!mvars, M!agent
  <2> QED BY <2>1, <2>2, <2>3, <2>4, <2>5, <2>6 DEF M!MNext, M!BrowserStep, M!WorkerStep
<1>3. LateInv => OneLateSample
  BY DEF LateInv, OneLateSample, M!OneLateSample
<1> QED BY <1>1, <1>2, <1>3, MonitorSteps, PTL DEF Spec

(***************************************************************************)
(* The graph.                                                              *)
(***************************************************************************)
Origins == {"real", "sim"}

\* A graph keeps what it has and gets the new point at its end.
LEMMA PlotAdds ==
  ASSUME GraphSize \in Nat \ {0}, graph \in Seq(Origins), NEW from \in Origins, M!Plot(from)
  PROVE  /\ graph' \in Seq(Origins)
         /\ Len(graph') <= GraphSize
         /\ ToSet(graph') \subseteq ToSet(graph) \cup {from}
         /\ from \in ToSet(graph')
<1> DEFINE kept == M!LastOf(graph)
<1>1. kept \in Seq(Origins) /\ Len(kept) < GraphSize /\ \A i \in 1 .. Len(kept) : \E j \in 1 .. Len(graph) : kept[i] = graph[j]
  <2>1. CASE Len(graph) < GraphSize
    BY <2>1 DEF M!LastOf
  <2>2. CASE ~ (Len(graph) < GraphSize)
    <3> DEFINE first == Len(graph) - GraphSize + 2
    <3>1. kept = SubSeq(graph, first, Len(graph))
      BY <2>2 DEF M!LastOf
    <3>2. first \in 1 .. Len(graph) + 1 /\ Len(graph) \in Nat
      BY <2>2
    <3>3. /\ kept \in Seq(Origins)
          /\ Len(kept) = Len(graph) - first + 1
          /\ \A i \in 1 .. Len(kept) : kept[i] = graph[first + i - 1]
      BY <3>1, <3>2, SubSeqProperties
    <3>4. \A i \in 1 .. Len(kept) : first + i - 1 \in 1 .. Len(graph)
      BY <3>2, <3>3
    <3> QED BY <3>3, <3>4
  <2> QED BY <2>1, <2>2
<1>2. graph' = Append(kept, from)
  BY DEF M!Plot
<1> HIDE DEF kept
<1>3. /\ graph' \in Seq(Origins)
      /\ Len(graph') = Len(kept) + 1
      /\ \A i \in 1 .. Len(kept) : graph'[i] = kept[i]
      /\ graph'[Len(kept) + 1] = from
  BY <1>1, <1>2
<1>4. \A i \in 1 .. Len(graph') : graph'[i] = from \/ \E j \in 1 .. Len(graph) : graph'[i] = graph[j]
  BY <1>1, <1>3
<1>5. Len(kept) + 1 \in 1 .. Len(graph')
  BY <1>1, <1>3
<1>6. DOMAIN graph' = 1 .. Len(graph') /\ DOMAIN graph = 1 .. Len(graph)
  BY <1>3
<1>7. Len(graph') <= GraphSize
  BY <1>1, <1>3
<1> QED BY <1>3, <1>4, <1>5, <1>6, <1>7 DEF ToSet

(***************************************************************************)
(* The source.                                                             *)
(***************************************************************************)
\* In demo mode the socket is given up or over, so nothing real comes any
\* more, and the interval runs in demo mode only.
SourceInv ==
  /\ view \in {"live", "workflow"}
  /\ monDemo \in BOOLEAN
  /\ graph \in Seq(Origins)
  /\ latest \in {"none", "real", "sim"}
  /\ monDemo => monSock \in {"closing", "over"}
  /\ feeding => monDemo
  /\ view = "live" =>
       /\ ~ monDemo => ToSet(graph) \subseteq {"real"} /\ latest # "sim"
       /\ feeding => ToSet(graph) = {"sim"} /\ latest = "sim"
  /\ view = "workflow" => (latest = "sim") = monDemo

\* What the invariant is about.
Untouched == <<view, monDemo, monSock, feeding, graph, latest>>

LEMMA SourceBegins == Init => SourceInv
<1> USE PartsAssumption DEF M!ConstantsOK
<1> SUFFICES ASSUME M!MInit \/ M!MAbsent PROVE SourceInv
  BY MonitorBegins
<1>1. graph = << >> /\ latest = "none" /\ monDemo = FALSE /\ feeding = FALSE
  BY DEF M!MInit, M!MAbsent, M!MIdle
<1>2. ToSet(graph) = {}
  BY <1>1 DEF ToSet
<1>3. graph \in Seq(Origins)
  BY <1>1
<1> QED BY <1>1, <1>2, <1>3 DEF M!MInit, M!MAbsent, M!MIdle, SourceInv

LEMMA SourceStep == SourceInv /\ [M!MNext]_(M!mvars) => SourceInv'
<1> USE PartsAssumption DEF M!ConstantsOK
<1> SUFFICES ASSUME SourceInv, [M!MNext]_(M!mvars) PROVE SourceInv'
  OBVIOUS
<1>0. ASSUME UNCHANGED Untouched PROVE SourceInv'
  BY <1>0 DEF SourceInv, Untouched
<1>1. CASE M!Connect
  BY <1>1 DEF M!Connect, M!LiveOpens, M!WorkflowOpens, SourceInv
<1>2. CASE M!Fail
  BY <1>2 DEF M!Fail, M!LiveFails, M!WorkflowFails, SourceInv
<1>3. CASE M!CloseEvent \/ M!Leave
  BY <1>3 DEF M!CloseEvent, M!Leave, SourceInv
<1>4. CASE M!WorkflowTimeOut
  BY <1>4 DEF M!WorkflowTimeOut, SourceInv
<1>5. CASE M!DemoBegins
  <2>1. CASE M!LiveDemo
    <3>1. graph' \in Seq(Origins) /\ ToSet(graph') = {"sim"}
      <4>1. graph' = [i \in 1 .. GraphSize |-> "sim"]
        BY <2>1 DEF M!LiveDemo
      <4>2. graph' \in Seq(Origins) /\ DOMAIN graph' = 1 .. GraphSize
        BY <4>1 DEF Origins
      <4>3. 1 \in 1 .. GraphSize
        OBVIOUS
      <4> QED BY <4>1, <4>2, <4>3 DEF ToSet
    <3> QED BY <1>5, <2>1, <3>1 DEF M!DemoBegins, M!LiveDemo, SourceInv
  <2>2. CASE M!WorkflowDemo
    BY <1>5, <2>2 DEF M!DemoBegins, M!WorkflowDemo, SourceInv
  <2> QED BY <1>5, <2>1, <2>2 DEF M!DemoBegins
<1>6. CASE M!DemoTick
  <2>1. CASE M!LiveTick
    <3>1. /\ graph' \in Seq(Origins)
          /\ ToSet(graph') \subseteq ToSet(graph) \cup {"sim"}
          /\ "sim" \in ToSet(graph')
      BY <2>1, PlotAdds DEF M!LiveTick, SourceInv, Origins
    <3> QED BY <1>6, <2>1, <3>1 DEF M!DemoTick, M!LiveTick, M!Plot, SourceInv
  <2>2. CASE M!WorkflowTick
    BY <1>6, <2>2 DEF M!DemoTick, M!WorkflowTick, SourceInv
  <2> QED BY <1>6, <2>1, <2>2 DEF M!DemoTick
<1>7. CASE M!Relay
  <2>1. CASE monSock = "open" /\ M!LiveMessage /\ UNCHANGED <<view, monSock, monDemo, feeding>>
    <3>1. /\ graph' \in Seq(Origins)
          /\ ToSet(graph') \subseteq ToSet(graph) \cup {"real"}
      BY <2>1, PlotAdds DEF M!LiveMessage, SourceInv, Origins
    <3> QED BY <2>1, <3>1 DEF M!LiveMessage, M!Plot, SourceInv
  <2>2. CASE monSock = "open" /\ M!WorkflowMessage /\ UNCHANGED <<view, monSock, monDemo, feeding>>
    BY <2>2 DEF M!WorkflowMessage, SourceInv
  <2>3. CASE UNCHANGED M!page
    BY <1>0, <2>3 DEF M!page, M!screen, Untouched
  <2> QED BY <1>7, <2>1, <2>2, <2>3 DEF M!Relay
<1>8. CASE M!Prepare \/ M!Launch \/ M!TracerPrints \/ M!TracerDies \/ M!OrphanEnds \/ M!StopSeen \/ M!TestPassed \/ M!Parse \/ M!EndOfOutput \/ UNCHANGED M!mvars
  <2>1. UNCHANGED M!page
    BY <1>8 DEF M!Prepare, M!Launch, M!TracerPrints, M!TracerDies, M!OrphanEnds, M!StopSeen, M!TestPassed,
                M!Parse, M!EndOfOutput, M!mvars
  <2> QED BY <1>0, <2>1 DEF M!page, M!screen, Untouched
<1> QED BY <1>1, <1>2, <1>3, <1>4, <1>5, <1>6, <1>7, <1>8 DEF M!MNext, M!BrowserStep, M!WorkerStep

\* Under the label "Live" all that is shown is the tracer's, in demo mode
\* nothing is; the workflow's numbers are simulated just in demo mode.
THEOREM SourceCorrect == Spec => []OneSource
<1>1. SourceInv => OneSource
  <2> SUFFICES ASSUME SourceInv PROVE M!OneSource
    BY DEF OneSource
  <2>1. CASE view = "live"
    <3>1. M!LiveScreen.label = "Live" => monDemo = FALSE
      BY DEF M!LiveScreen, SourceInv
    <3>2. M!LiveScreen.graph = ToSet(graph) /\ M!LiveScreen.numbers = latest
      BY DEF M!LiveScreen, M!ToSet, ToSet
    <3> QED BY <2>1, <3>1, <3>2 DEF M!OneSource, SourceInv
  <2>2. CASE view # "live"
    <3>1. M!WorkflowScreen.shows = "stages" => M!WorkflowScreen.numbers = latest
      BY DEF M!WorkflowScreen
    <3> QED BY <2>2, <3>1 DEF M!OneSource, SourceInv
  <2> QED BY <2>1, <2>2
<1>2. Init => SourceInv
  BY SourceBegins
<1>3. SourceInv /\ [M!MNext]_(M!mvars) => SourceInv'
  BY SourceStep
<1>4. [Next]_vars => [M!MNext]_(M!mvars)
  BY MonitorSteps
<1> QED BY <1>1, <1>2, <1>3, <1>4, PTL DEF Spec

(***************************************************************************)
(* The types.                                                              *)
(***************************************************************************)
\* The monitor's.
SwitchTypes ==
  /\ mounted \in BOOLEAN /\ fallback \in BOOLEAN /\ connected \in BOOLEAN /\ monDemo \in BOOLEAN
  /\ feeding \in BOOLEAN /\ stop \in BOOLEAN /\ pending \in BOOLEAN

AgentTypes ==
  /\ view \in Views
  /\ monSock \in {"connecting", "open", "closing", "over"}
  /\ latest \in {"none", "real", "sim"}
  /\ active \in 0 .. M!StageCount - 1
  /\ handler \in {"none", "accepted", "waiting", "done"}
  /\ worker \in {"none", "starting", "reading", "parsing", "failed", "raised", "done"}
  /\ tracer \in {"none", "running", "ended"} /\ bpftrace \in {"none", "running", "ended"}
  /\ late \in 0 .. 2

StreamTypes ==
  /\ lines \in Seq({"switches", "wakeups"}) /\ Len(lines) <= PipeSize
  /\ queue \in Seq({"sample", "end"})

GraphTypes == graph \in Seq(Origins) /\ Len(graph) <= GraphSize

MonitorTypes == SwitchTypes /\ AgentTypes /\ StreamTypes /\ GraphTypes

LEMMA MonitorConstants ==
  /\ GraphSize \in Nat \ {0} /\ PipeSize \in Nat /\ PipeSize >= 2 /\ CanFail \in BOOLEAN
BY PartsAssumption DEF M!ConstantsOK

LEMMA MonitorTypesBegin == Init => MonitorTypes
<1> SUFFICES ASSUME M!MInit \/ M!MAbsent PROVE MonitorTypes
  BY MonitorBegins
<1> USE DEF M!MInit, M!MAbsent, M!MIdle
<1>0. SwitchTypes
  <2>1. /\ mounted \in BOOLEAN /\ connected = FALSE /\ monDemo = FALSE /\ feeding = FALSE
        /\ stop = FALSE /\ pending = FALSE
    OBVIOUS
  <2>2. fallback \in BOOLEAN
    OBVIOUS
  <2> QED BY <2>1, <2>2, Zenon DEF SwitchTypes
<1>1. AgentTypes
  <2>1. /\ view \in Views /\ monSock \in {"connecting", "over"} /\ latest = "none" /\ active = 0
        /\ handler = "none" /\ worker = "none" /\ tracer = "none"
        /\ bpftrace = "none" /\ late = 0
    OBVIOUS
  <2> HIDE DEF M!MInit, M!MAbsent, M!MIdle
  <2> QED BY <2>1 DEF AgentTypes, M!StageCount
<1>2. lines = << >> /\ queue = << >> /\ graph = << >>
  OBVIOUS
<1>3. StreamTypes /\ GraphTypes
  BY <1>2, MonitorConstants DEF StreamTypes, GraphTypes
<1> QED BY <1>0, <1>1, <1>3 DEF MonitorTypes

LEMMA Advances ==
  ASSUME active \in 0 .. M!StageCount - 1, M!Advance PROVE active' \in 0 .. M!StageCount - 1
BY DEF M!Advance, M!StageCount

LEMMA SwitchTypesStep == ASSUME MonitorTypes, [M!MNext]_(M!mvars) PROVE SwitchTypes'
<1> USE DEF SwitchTypes, M!screen, M!page, M!agent
<1>0. SwitchTypes
  BY DEF MonitorTypes
<1>1. CASE M!Connect
  BY <1>0, <1>1, Zenon DEF M!Connect, M!LiveOpens, M!WorkflowOpens
<1>2. CASE M!Fail
  BY <1>0, <1>2, Zenon DEF M!Fail, M!LiveFails, M!WorkflowFails
<1>3. CASE M!CloseEvent \/ M!WorkflowTimeOut \/ M!Leave \/ M!DemoBegins \/ M!DemoTick
  BY <1>0, <1>3, Zenon DEF M!CloseEvent, M!WorkflowTimeOut, M!Leave, M!DemoBegins, M!DemoTick
<1>4. CASE M!Relay
  <2>1. UNCHANGED <<mounted, fallback, connected, monDemo, feeding, pending>>
    BY <1>4 DEF M!Relay
  <2>2. stop' = stop \/ stop' = TRUE
    BY <1>4, Zenon DEF M!Relay, M!HandlerEnds
  <2> QED BY <1>0, <2>1, <2>2, Zenon
<1>5. CASE M!Prepare \/ M!Launch \/ M!TracerPrints \/ M!TracerDies \/ M!OrphanEnds
  BY <1>0, <1>5, Zenon DEF M!Prepare, M!Launch, M!TracerPrints, M!TracerDies, M!OrphanEnds
<1>6. CASE M!StopSeen \/ M!TestPassed \/ M!EndOfOutput
  BY <1>0, <1>6, Zenon DEF M!StopSeen, M!TestPassed, M!EndOfOutput
<1>7. CASE M!Parse
  <2>1. UNCHANGED <<mounted, fallback, connected, monDemo, feeding, stop>>
    BY <1>7 DEF M!Parse
  <2>2. pending' = pending \/ pending' = TRUE \/ pending' = FALSE
    BY <1>7, Zenon DEF M!Parse, M!PutSample, M!AgentRaises
  <2> QED BY <1>0, <2>1, <2>2, Zenon
<1>8. CASE UNCHANGED M!mvars
  BY <1>0, <1>8, Zenon DEF M!mvars
<1> QED BY <1>1, <1>2, <1>3, <1>4, <1>5, <1>6, <1>7, <1>8
        DEF M!MNext, M!BrowserStep, M!WorkerStep

LEMMA AgentTypesStep == ASSUME MonitorTypes, [M!MNext]_(M!mvars) PROVE AgentTypes'
<1> USE DEF M!screen, M!page, M!agent
<1>0. AgentTypes
  BY DEF MonitorTypes
<1>a. ASSUME view' = view, monSock' \in {monSock, "open", "closing", "over"},
             latest' \in {latest, "real", "sim"}, active' = active \/ M!Advance,
             handler' \in {handler, "accepted", "waiting", "done"},
             worker' \in {worker, "starting", "reading", "parsing", "failed", "raised", "done"},
             tracer' \in {tracer, "running", "ended"}, bpftrace' \in {bpftrace, "running", "ended"},
             late' = late \/ (late < 2 /\ late' = late + 1)
      PROVE AgentTypes'
  BY <1>0, <1>a, Advances DEF AgentTypes
<1>1. CASE M!Connect
  BY <1>a, <1>1 DEF M!Connect, M!LiveOpens, M!WorkflowOpens
<1>2. CASE M!Fail
  BY <1>a, <1>2 DEF M!Fail, M!LiveFails, M!WorkflowFails
<1>3. CASE M!CloseEvent \/ M!WorkflowTimeOut \/ M!Leave
  BY <1>a, <1>3 DEF M!CloseEvent, M!WorkflowTimeOut, M!Leave
<1>4. CASE M!DemoBegins
  BY <1>a, <1>4 DEF M!DemoBegins, M!LiveDemo, M!WorkflowDemo
<1>5. CASE M!DemoTick
  BY <1>a, <1>5 DEF M!DemoTick, M!LiveTick, M!WorkflowTick, M!Plot
<1>6. CASE M!Relay
  BY <1>a, <1>6 DEF M!Relay, M!HandlerEnds, M!LiveMessage, M!WorkflowMessage, M!Plot
<1>7. CASE M!Prepare \/ M!Launch \/ M!TracerPrints \/ M!TracerDies \/ M!OrphanEnds
  BY <1>a, <1>7 DEF M!Prepare, M!Launch, M!TracerPrints, M!TracerDies, M!OrphanEnds
<1>8. CASE M!StopSeen \/ M!TestPassed \/ M!EndOfOutput
  BY <1>a, <1>8 DEF M!StopSeen, M!TestPassed, M!EndOfOutput, M!AgentEnds
<1>9. CASE M!Parse
  BY <1>a, <1>9 DEF M!Parse, M!PutSample, M!AgentRaises
<1>10. CASE UNCHANGED M!mvars
  BY <1>a, <1>10 DEF M!mvars
<1> QED BY <1>1, <1>2, <1>3, <1>4, <1>5, <1>6, <1>7, <1>8, <1>9, <1>10
        DEF M!MNext, M!BrowserStep, M!WorkerStep

\* The tracer prints where there is room for both lines.
LEMMA StreamTypesStep == ASSUME MonitorTypes, [M!MNext]_(M!mvars) PROVE StreamTypes'
<1> DEFINE printed2 == <<"switches", "wakeups">>
<1>0. /\ lines \in Seq({"switches", "wakeups"}) /\ Len(lines) <= PipeSize
      /\ queue \in Seq({"sample", "end"}) /\ PipeSize \in Nat
  BY MonitorConstants DEF MonitorTypes, StreamTypes
<1>1. CASE UNCHANGED <<lines, queue>>
  BY <1>0, <1>1 DEF StreamTypes
<1>2. CASE M!Relay
  <2>1. lines' = lines /\ queue # << >> /\ queue' = Tail(queue)
    BY <1>2 DEF M!Relay, M!agent
  <2> QED BY <1>0, <2>1 DEF StreamTypes
<1>3. CASE M!TracerPrints
  <2>1. /\ lines' = lines \o printed2 /\ queue' = queue /\ Len(lines) + 2 <= PipeSize
    BY <1>3 DEF M!TracerPrints
  <2>2. printed2 \in Seq({"switches", "wakeups"}) /\ Len(printed2) = 2
    OBVIOUS
  <2> DEFINE said == {"switches", "wakeups"}
  <2> HIDE DEF printed2, said
  <2>4. lines \in Seq(said) /\ printed2 \in Seq(said)
    BY <1>0, <2>2 DEF said
  <2>5. lines \o printed2 \in Seq(said) /\ Len(lines \o printed2) = Len(lines) + Len(printed2)
    BY <2>4, ConcatProperties
  <2>3. lines' \in Seq({"switches", "wakeups"}) /\ Len(lines') = Len(lines) + 2
    BY <2>1, <2>2, <2>5 DEF said
  <2> QED BY <1>0, <2>1, <2>3 DEF StreamTypes
<1>4. CASE M!StopSeen \/ M!EndOfOutput
  <2>1. lines' = lines /\ queue' = Append(queue, "end")
    BY <1>4 DEF M!StopSeen, M!EndOfOutput, M!AgentEnds
  <2> QED BY <1>0, <2>1 DEF StreamTypes
<1>5. CASE M!Parse
  <2>1. queue' = queue \/ queue' = Append(queue, "sample")
    BY <1>5 DEF M!Parse, M!PutSample, M!AgentRaises
  <2>2. queue' \in Seq({"sample", "end"})
    BY <1>0, <2>1
  <2>3. lines' = Tail(lines)
    BY <1>5 DEF M!Parse
  <2>4. lines' \in Seq({"switches", "wakeups"}) /\ Len(lines') <= PipeSize
    <3>1. CASE lines = << >>
      <4>1. lines' = << >>
        BY <2>3, <3>1
      <4> QED BY <1>0, <4>1
    <3>2. CASE lines # << >>
      BY <1>0, <2>3, <3>2
    <3> QED BY <3>1, <3>2
  <2> QED BY <2>2, <2>4 DEF StreamTypes
<1>6. \/ UNCHANGED <<lines, queue>> \/ M!Relay \/ M!TracerPrints \/ M!StopSeen \/ M!EndOfOutput \/ M!Parse
  BY DEF M!MNext, M!BrowserStep, M!WorkerStep, M!mvars, M!agent, M!Connect, M!Fail, M!CloseEvent,
         M!WorkflowTimeOut, M!DemoBegins, M!DemoTick, M!Leave, M!Prepare, M!Launch, M!TracerDies, M!OrphanEnds,
         M!TestPassed
<1> QED BY <1>1, <1>2, <1>3, <1>4, <1>5, <1>6

LEMMA GraphTypesStep == ASSUME MonitorTypes, [M!MNext]_(M!mvars) PROVE GraphTypes'
<1>0. graph \in Seq(Origins) /\ Len(graph) <= GraphSize /\ GraphSize \in Nat \ {0}
  BY MonitorConstants DEF MonitorTypes, GraphTypes
<1>1. CASE graph' = graph
  BY <1>0, <1>1 DEF GraphTypes
<1>2. CASE \E from \in Origins : M!Plot(from)
  BY <1>0, <1>2, PlotAdds DEF GraphTypes
<1>3. CASE graph' = [i \in 1 .. GraphSize |-> "sim"]
  <2>1. graph' \in Seq(Origins) /\ Len(graph') = GraphSize
    BY <1>0, <1>3 DEF Origins
  <2> QED BY <1>0, <2>1 DEF GraphTypes
<1>4. graph' = graph \/ M!Plot("sim") \/ M!Plot("real") \/ graph' = [i \in 1 .. GraphSize |-> "sim"]
  BY DEF M!MNext, M!BrowserStep, M!WorkerStep, M!mvars, M!page, M!screen, M!Connect, M!Fail,
         M!CloseEvent, M!WorkflowTimeOut, M!DemoBegins, M!LiveDemo, M!WorkflowDemo, M!DemoTick,
         M!LiveTick, M!WorkflowTick, M!Leave, M!Prepare, M!Relay, M!LiveMessage, M!WorkflowMessage,
         M!Launch, M!TracerPrints, M!TracerDies, M!OrphanEnds, M!StopSeen, M!TestPassed, M!Parse, M!EndOfOutput
<1> QED BY <1>1, <1>2, <1>3, <1>4 DEF Origins

(***************************************************************************)
(* The panel among the pages.                                              *)
(***************************************************************************)
\* PanelProofs.tla is about a panel that is open alone.  Among the pages it
\* starts as it does there, and no other page's step touches it: what those
\* theorems say holds of the pages too.
THEOREM PanelAmongPages == Spec => PSpec
<1>1. Init => PInit
  BY DEF Init
<1>2. [Next]_vars => [PNext]_pvars
  BY DEF Next, vars
<1> QED BY <1>1, <1>2, PTL DEF Spec, PSpec

\* The pages keep their types, for every value of the constants: no graph is
\* longer than it should be, no pipe fuller, no command beyond the last one.
THEOREM PageTypes == Spec => []TypeOK
<1>1. Spec => []IInv
  <2>1. Init => IInv
    BY TerminalBegins, IInit
  <2>2. IInv /\ [Next]_vars => IInv'
    BY TerminalSteps, IStep
  <2> QED BY <2>1, <2>2, PTL DEF Spec
<1>2. Spec => []PTypeOK
  BY PanelAmongPages, PanelTypes
<1>3. Spec => []MonitorTypes
  <2>1. MonitorTypes /\ [Next]_vars => MonitorTypes'
    BY MonitorSteps, SwitchTypesStep, AgentTypesStep, StreamTypesStep, GraphTypesStep DEF MonitorTypes
  <2> QED BY <2>1, MonitorTypesBegin, PTL DEF Spec
<1>4. MonitorTypes => M!MTypeOK
  BY DEF MonitorTypes, SwitchTypes, AgentTypes, StreamTypes, GraphTypes, Origins, M!MTypeOK
<1>5. IInv /\ PTypeOK /\ MonitorTypes => TypeOK
  BY <1>4 DEF IInv, TypeOK
<1> QED BY <1>1, <1>2, <1>3, <1>5, PTL

(***************************************************************************)
(* That the input comes back.  The provers know nothing of fairness; what  *)
(* they can show is that it never waits for something nobody will do.      *)
(***************************************************************************)
\* The command n is on its way to the backend, or runs, or its mark is on its
\* way back.
Outstanding(n) ==
  \/ In(n, toServer)
  \/ command = n
  \/ \E line : On(line) /\ line.of = n /\ line.looks \in T!Marks

\* The guards of the steps of the page, of the handler and its agent, and of
\* the timer, which run in any case.
AnswerComes ==
  \/ entries[Len(entries)].demo /\ T!Simulated(entries[Len(entries)].kind)
  \/ termSock = "open" /\ toClient # << >>
  \/ command = 0 /\ toServer # << >>
  \/ killer = "armed"
  \/ process \in {"ended", "killed"}
AnswersCome == termRunning /\ ~ T!InputBack => AnswerComes

\* Only a command that has an answer disables the input, and only an open
\* socket brings one; a process that runs has its timer.
AwaitInv ==
  /\ process = "running" => killer = "armed"
  /\ termRunning => termSock # "connecting" /\ Len(entries) # 0
  /\ termRunning /\ termSock = "open" =>
       \/ entries[Len(entries)].demo
       \/ entries[Len(entries)].kind = "unparseable"
       \/ Outstanding(Len(entries))

LEMMA StillOutstanding ==
  ASSUME NEW n, Outstanding(n), UNCHANGED <<toServer, command>>,
         \A line : On(line) => On(line)'
  PROVE  \/ In(n, toServer') \/ command' = n
         \/ \E line : On(line)' /\ line.of = n /\ line.looks \in T!Marks
BY DEF Outstanding

LEMMA AwaitPage ==
  ASSUME IInv, AwaitInv,
         \/ T!Open \/ T!DemoEnds
         \/ T!EnvironmentArrives \/ T!EnvironmentFails \/ T!SocketError \/ T!SocketCloses
  PROVE  AwaitInv'
<1>1. UNCHANGED <<entries, toServer, command, process, killer>>
  BY DEF T!Open, T!DemoEnds, T!EnvironmentArrives, T!EnvironmentFails, T!SocketError,
         T!SocketCloses, T!EnterDemo, T!agent
<1>2. CASE termRunning' /\ termSock' = "open"
  <2>1. termRunning /\ termSock = "open" /\ toClient' = toClient
    BY <1>2, Zenon DEF AwaitInv, T!Open, T!DemoEnds, T!EnvironmentArrives, T!EnvironmentFails,
                T!SocketError, T!SocketCloses, T!EnterDemo
  <2> QED BY <1>1, <2>1, <1>2 DEF AwaitInv, Outstanding, On, In
<1>3. termRunning' => termRunning /\ (termSock' # "connecting" \/ termSock' = termSock)
  BY Zenon DEF T!Open, T!DemoEnds, T!EnvironmentArrives, T!EnvironmentFails, T!SocketError,
         T!SocketCloses, T!EnterDemo
<1> QED BY <1>1, <1>2, <1>3 DEF AwaitInv

LEMMA AwaitTimer ==
  ASSUME IInv, AwaitInv, T!TimerFires \/ T!ReadingRaises \/ T!ProcessEnds
                         \/ (\E c \in 1 .. MaxCommands : T!StrayEnds(c))
  PROVE  AwaitInv'
<1>1. /\ UNCHANGED <<entries, toServer, toClient, command, termSock, termRunning>>
      /\ process' = "running" => process = "running" /\ killer' = killer
  BY DEF T!TimerFires, T!ReadingRaises, T!ProcessEnds, T!StrayEnds, T!page
<1> QED BY <1>1 DEF AwaitInv, Outstanding, On, In

LEMMA AwaitRun == ASSUME IInv, AwaitInv, NEW kind \in Kinds, T!Run(kind) PROVE AwaitInv'
<1> DEFINE k == Len(entries) + 1
<1>1. /\ Len(entries') = k /\ k \in 1 .. MaxCommands /\ entries'[k].demo = termDemo
      /\ \/ toServer' = toServer /\ termDemo
         \/ toServer' = Append(toServer, k) /\ termSock = "open"
      /\ UNCHANGED <<toClient, command, process, killer, termDemo, termSock>>
  BY RunFacts
<1>2. k # 0
  BY <1>1, Constants
<1>3. toServer \in Seq(1 .. MaxCommands)
  BY Types
<1> HIDE DEF k
<1>4. termSock # "connecting"
  BY <1>1 DEF IInv, ControlInv
<1>5. CASE termDemo
  BY <1>1, <1>2, <1>4, <1>5 DEF AwaitInv, IInv, ControlInv
<1>6. CASE toServer' = Append(toServer, k)
  <2>1. In(k, toServer')
    BY <1>3, <1>6, InAppend
  <2> QED BY <1>1, <1>2, <1>4, <2>1 DEF AwaitInv, Outstanding
<1> QED BY <1>1, <1>5, <1>6

LEMMA AwaitReceive == ASSUME IInv, AwaitInv, T!Receive PROVE AwaitInv'
<1> DEFINE n == Len(entries)
           line == Head(toClient)
<1>1. /\ n \in DOMAIN entries /\ Len(entries') = n
      /\ entries'[n].demo = entries[n].demo
      /\ line \in T!Lines
      /\ \A x : On(x) <=> x = line \/ On(x)'
      /\ UNCHANGED <<toServer, command, process, killer, termSock>>
  BY ReceiveFacts
<1>2. entries'[n].kind = entries[n].kind
  <2>1. entries[n] \in Entry
    BY <1>1, Types
  <2>2. entries'[n] = [entries[n] EXCEPT !.out = Append(entries[n].out, line)]
    BY <1>1 DEF T!Receive
  <2> QED BY <2>1, <2>2 DEF Entry
<1>3. termRunning' => termRunning /\ line.looks \notin T!Marks
  BY Zenon DEF T!Receive
<1> HIDE DEF line
<1>4. Outstanding(n) /\ termRunning' => Outstanding(n)'
  BY <1>1, <1>3 DEF Outstanding
<1> QED BY <1>1, <1>2, <1>3, <1>4 DEF AwaitInv, Outstanding

\* A line that the agent sends is added to those on their way.
LEMMA AwaitTake == ASSUME IInv, AwaitInv, T!Take PROVE AwaitInv'
<1> DEFINE c == Head(toServer)
           n == Len(entries)
<1>1. UNCHANGED <<entries, termSock, termRunning>>
  BY DEF T!Take, T!page
<1>2. /\ command = 0 /\ c \in 1 .. MaxCommands
      /\ \A x : In(x, toServer) <=> x = c \/ In(x, toServer')
  <2>1. toServer \in Seq(1 .. MaxCommands) /\ toServer # << >> /\ toServer' = Tail(toServer) /\ command = 0
    BY Types DEF T!Take
  <2> QED BY <2>1, InTail
<1>3. ASSUME NEW looks \in {"text", "refused"}, T!Send(<<T!Line(c, looks)>>), UNCHANGED T!agent,
             looks = "text" => entries[c].kind = "unparseable"
      PROVE  AwaitInv'
  <2> DEFINE l == T!Line(c, looks)
  <2>1. l \in T!Lines /\ l.of = c /\ l.looks = looks
    BY <1>2 DEF T!Line, T!Lines, T!Marks
  <2>2. UNCHANGED <<command, process, killer>>
    BY <1>3 DEF T!agent
  <2> HIDE DEF l
  <2>3. termSock = "open" => \A x : On(x)' <=> On(x) \/ x = l
    BY <1>3, <2>1, OneLine DEF On, l
  <2>4. ASSUME termRunning, termSock = "open" 
        PROVE  entries[n].demo \/ entries[n].kind = "unparseable" \/ Outstanding(n)'
    <3>1. (Outstanding(n) /\ n # 0) \/ entries[n].demo \/ entries[n].kind = "unparseable"
      BY <2>4 DEF AwaitInv
    <3>2. CASE n = c
      <4>1. CASE looks = "refused"
        BY <1>1, <2>1, <2>3, <2>4, <3>2, <4>1 DEF Outstanding, T!Marks
      <4> QED BY <1>3, <3>2, <4>1
    <3>3. CASE n # c
      BY <1>1, <1>2, <2>2, <2>3, <2>4, <3>1, <3>3 DEF Outstanding
    <3> QED BY <3>2, <3>3
  <2> QED BY <1>1, <2>2, <2>4 DEF AwaitInv
<1>4. ASSUME command' = c, process' = "running" => killer' = "armed", UNCHANGED toClient
      PROVE  AwaitInv'
  <2>1. Outstanding(n) /\ n # 0 => Outstanding(n)'
    BY <1>1, <1>2, <1>4 DEF Outstanding, On, In
  <2> QED BY <1>1, <1>4, <2>1 DEF AwaitInv
<1> HIDE DEF c
<1> QED BY <1>3, <1>4 DEF T!Take, T!Start, c

LEMMA AwaitSays ==
  ASSUME IInv, AwaitInv, \/ \E looks \in {"text", "like"} : T!Output(looks)
                         \/ T!Report
  PROVE  AwaitInv'
<1> DEFINE n == Len(entries)
<1>0. UNCHANGED <<entries, termSock, termRunning, toServer>>
  BY DEF T!Output, T!Report, T!page
<1>1. command # 0 /\ command \in 1 .. MaxCommands
  <2>1. command # 0
    BY DEF T!Output, T!Report, IInv, ControlInv
  <2> QED BY <2>1, Constants DEF IInv, T!TypeOK
<1>2. PICK l \in T!Lines :
        /\ T!Send(<<l>>) /\ l.of = command
        /\ \/ UNCHANGED <<command, process, killer>>
           \/ process' = "none" /\ l.looks \in T!Marks
  <2>1. ASSUME NEW looks \in {"text", "like"}, T!Output(looks)
        PROVE  \E l \in T!Lines : /\ T!Send(<<l>>) /\ l.of = command
                                  /\ UNCHANGED <<command, process, killer>>
    <3>1. T!Line(command, looks) \in T!Lines /\ T!Line(command, looks).of = command
      BY <1>1, <2>1 DEF T!Line, T!Lines, T!Marks
    <3>2. T!Send(<<T!Line(command, looks)>>) /\ UNCHANGED <<command, process, killer>>
      BY <2>1 DEF T!Output
    <3> QED BY <3>1, <3>2
  <2>2. ASSUME T!Report
        PROVE  \E l \in T!Lines : /\ T!Send(<<l>>) /\ l.of = command
                                  /\ process' = "none" /\ l.looks \in T!Marks
    <3> DEFINE l == T!Line(command, IF killer = "fired" THEN "killed" ELSE "exit")
    <3>1. l \in T!Lines /\ l.of = command /\ l.looks \in T!Marks
      BY <1>1 DEF T!Line, T!Lines, T!Marks
    <3>2. T!Send(<<l>>) /\ process' = "none"
      BY <2>2 DEF T!Report
    <3> QED BY <3>1, <3>2
  <2> QED BY <2>1, <2>2
<1>3. termSock = "open" => \A x : On(x)' <=> On(x) \/ x = l
  BY <1>2, OneLine DEF On
<1>4. ASSUME termSock = "open", Outstanding(n) PROVE Outstanding(n)'
  BY <1>0, <1>2, <1>3, <1>4 DEF Outstanding
<1> QED BY <1>0, <1>2, <1>4 DEF AwaitInv

LEMMA AwaitStep == IInv /\ AwaitInv /\ [T!Next]_(T!vars) => AwaitInv'
<1> SUFFICES ASSUME IInv, AwaitInv, [T!Next]_(T!vars) PROVE AwaitInv'
  OBVIOUS
<1>1. CASE UNCHANGED T!vars
  BY <1>1 DEF T!vars, AwaitInv, Outstanding, On, In
<1>2. CASE T!PageStep \/ T!EnvironmentArrives \/ T!EnvironmentFails \/ T!SocketError \/ T!SocketCloses
  BY <1>2, AwaitPage, AwaitReceive DEF T!PageStep
<1>3. CASE T!AgentStep \/ T!TimerFires \/ T!ReadingRaises \/ (\E c \in 1 .. MaxCommands : T!StrayEnds(c))
           \/ \E looks \in {"text", "like"} : T!Output(looks)
  BY <1>3, AwaitTimer, AwaitTake, AwaitSays DEF T!AgentStep
<1>4. CASE \E kind \in Kinds : T!Run(kind)
  BY <1>4, AwaitRun
<1> QED BY <1>1, <1>2, <1>3, <1>4 DEF T!Next

\* While the input is disabled and it is not one of the cases in which it stays
\* so (RealTerminal.tsx:44-53, 98-101; lab.py:60-63), the last command is still to be
\* taken, or a process runs under its timer, or a mark is on its way, or a
\* simulated output is being shown.
THEOREM InputIsAwaited == Spec => []AnswersCome
<1>1. Init => IInv /\ AwaitInv
  <2>1. Init => AwaitInv
    <3> SUFFICES ASSUME T!Init \/ T!Absent PROVE AwaitInv
      BY TerminalBegins
    <3>1. process = "none" /\ termRunning = FALSE
      BY DEF T!Init, T!Absent, T!Idle
    <3> QED BY <3>1 DEF AwaitInv
  <2> QED BY <2>1, TerminalBegins, IInit
<1>2. IInv /\ AwaitInv /\ [Next]_vars => IInv' /\ AwaitInv'
  BY TerminalSteps, IStep, AwaitStep
<1>3. ASSUME IInv, AwaitInv PROVE AnswersCome
  <2> SUFFICES ASSUME termRunning, ~ T!InputBack PROVE AnswerComes
    BY DEF AnswersCome
  <2> DEFINE n == Len(entries)
  <2>0. n # 0 /\ termSock \in {"connecting", "open", "closed"} /\ termSock # "connecting"
    BY <1>3 DEF AwaitInv, IInv, T!TypeOK
  <2>1. CASE entries[n].demo
    <3>1. entries[n].kind # "inherited"
      BY <2>1 DEF T!InputBack
    <3> QED BY <2>1, <3>1 DEF AnswerComes, T!Simulated
  <2>2. CASE ~ entries[n].demo
    <3>1. termSock = "open" /\ Outstanding(n)
      BY <1>3, <2>0, <2>2 DEF T!InputBack, AwaitInv
    <3>2. CASE \E line : On(line)
      <4>1. toClient # << >>
        BY <3>2 DEF On, In
      <4> QED BY <3>1, <4>1 DEF AnswerComes
    <3>3. CASE command # 0
      <4>1. process \in {"running", "ended", "killed"}
        BY <1>3, <2>2, <3>3 DEF IInv, ControlInv, T!TypeOK, T!InputBack
      <4> QED BY <1>3, <4>1 DEF AnswerComes, AwaitInv
    <3>4. CASE In(n, toServer) /\ command = 0
      <4>1. toServer # << >>
        BY <3>4 DEF In
      <4> QED BY <3>4, <4>1 DEF AnswerComes
    <3> QED BY <2>0, <3>1, <3>2, <3>3, <3>4 DEF Outstanding
  <2> QED BY <2>1, <2>2
<1> QED BY <1>1, <1>2, <1>3, PTL DEF Spec

(***************************************************************************)
(* That a visit cleans up: when the page is gone, there is always somebody *)
(* who will do the next thing about it.                                    *)
(***************************************************************************)
\* The guards of the steps of the handler, the worker and bpftrace, all of
\* which run in any case.
CleanupGoesOn ==
  \/ handler = "accepted"
  \/ handler = "waiting" /\ queue # << >>
  \/ worker = "starting"
  \/ worker = "reading" /\ (lines # << >> \/ tracer = "ended")
  \/ worker = "parsing" /\ lines # << >>
  \/ /\ tracer = "running" /\ bpftrace = "running" /\ Len(lines) + 2 <= PipeSize
     /\ handler # "done" => Len(queue) < QueueSize
CleanupProceeds == M!VisitOver /\ ~ M!CleanedUp => CleanupGoesOn

EndsWithEnd == queue # << >> /\ queue[Len(queue)] = "end"

\* The worker is there when the handler waits for it, the client when the worker
\* reads and bpftrace when the client runs; the client of a worker that ended
\* or raised is killed, if it was ever started; a worker that ended has put the
\* end.
AgentInv ==
  /\ handler \in {"none", "accepted"} => worker = "none"
  /\ handler = "waiting" => worker # "none"
  /\ worker \in {"none", "starting"} => tracer = "none"
  /\ worker \in {"reading", "parsing"} => tracer # "none"
  /\ worker = "done" => tracer = "ended"
  /\ worker = "raised" => tracer # "running"
  /\ tracer = "running" => bpftrace = "running"
  /\ worker = "parsing" => lines # << >>
  /\ handler = "waiting" /\ worker = "done" => EndsWithEnd

LEMMA AppendedLast ==
  ASSUME NEW U, NEW s \in Seq(U), NEW x
  PROVE  Append(s, x) # << >> /\ Append(s, x)[Len(Append(s, x))] = x
<1> DEFINE t == Append(s, x)
<1>1. Len(s) \in Nat /\ t \in Seq(U \cup {x}) /\ Len(t) = Len(s) + 1 /\ t[Len(s) + 1] = x
  OBVIOUS
<1> HIDE DEF t
<1>2. Len(t) # 0 /\ t[Len(t)] = x
  BY <1>1
<1>3. t # << >>
  BY <1>2
<1> QED BY <1>2, <1>3 DEF t

LEMMA TailKeepsLast ==
  ASSUME NEW U, NEW s \in Seq(U), s # << >>, NEW x, s[Len(s)] = x, Head(s) # x
  PROVE  Tail(s) # << >> /\ Tail(s)[Len(Tail(s))] = x
<1>1. /\ Len(s) \in Nat \ {0} /\ Head(s) = s[1] /\ Len(Tail(s)) = Len(s) - 1
      /\ \A i \in 1 .. Len(s) - 1 : Tail(s)[i] = s[i + 1]
  OBVIOUS
<1>2. Len(s) # 1
  BY <1>1
<1> DEFINE t == Tail(s)
<1>3. Len(s) - 1 \in 1 .. Len(s) - 1 /\ (Len(s) - 1) + 1 = Len(s) /\ Len(t) = Len(s) - 1 /\ Len(t) # 0
      /\ t[Len(s) - 1] = s[Len(s)]
  BY <1>1, <1>2
<1> HIDE DEF t
<1>4. t # << >>
  BY <1>3
<1> QED BY <1>3, <1>4 DEF t

LEMMA AgentStep == ASSUME MonitorTypes, AgentInv, [M!MNext]_(M!mvars) PROVE AgentInv'
<1> USE DEF AgentInv
<1>0. queue \in Seq({"sample", "end"})
  BY DEF MonitorTypes, StreamTypes
<1>1. CASE UNCHANGED <<handler, worker, tracer, bpftrace, lines, queue>>
  BY <1>1 DEF EndsWithEnd
<1>2. CASE M!Connect
  BY <1>2 DEF M!Connect, M!agent, EndsWithEnd
<1>3. CASE M!Prepare
  BY <1>3 DEF M!Prepare
<1>4. CASE M!Relay
  <2>1. UNCHANGED <<worker, tracer, bpftrace, lines>> /\ handler = "waiting" /\ queue # << >> /\ queue' = Tail(queue)
    BY <1>4 DEF M!Relay, M!agent
  <2>2. handler' = "done" \/ (handler' = handler /\ Head(queue) = "sample")
    BY <1>4, Zenon DEF M!Relay, M!HandlerEnds
  <2>3. CASE handler' = "done"
    BY <2>1, <2>3
  <2>4. CASE handler' = handler /\ Head(queue) = "sample"
    <3>1. EndsWithEnd => EndsWithEnd'
      BY <1>0, <2>1, <2>4, TailKeepsLast DEF EndsWithEnd
    <3> QED BY <2>1, <2>4, <3>1
  <2> QED BY <2>2, <2>3, <2>4
<1>5. CASE M!Launch \/ M!TracerDies \/ M!OrphanEnds
  BY <1>5 DEF M!Launch, M!TracerDies, M!OrphanEnds, EndsWithEnd
<1>6. CASE M!TracerPrints
  <2>1. lines' = lines \o <<"switches", "wakeups">> /\ UNCHANGED <<handler, queue, worker, tracer, bpftrace>>
    BY <1>6 DEF M!TracerPrints
  <2>2. worker # "parsing" \/ lines' # << >>
    <3>1. lines \in Seq({"switches", "wakeups"}) /\ <<"switches", "wakeups">> \in Seq({"switches", "wakeups"})
      BY DEF MonitorTypes, StreamTypes
    <3>2. Len(lines') = Len(lines) + 2 /\ Len(lines) \in Nat
      BY <2>1, <3>1
    <3> QED BY <3>2
  <2> QED BY <2>1, <2>2 DEF EndsWithEnd
<1>7. CASE M!StopSeen \/ M!EndOfOutput
  <2>1. worker' = "done" /\ tracer' = "ended" /\ queue' = Append(queue, "end") /\ UNCHANGED <<lines, handler, bpftrace>>
        /\ worker = "reading"
    BY <1>7 DEF M!StopSeen, M!EndOfOutput, M!AgentEnds
  <2>2. EndsWithEnd'
    BY <1>0, <2>1, AppendedLast DEF EndsWithEnd
  <2> QED BY <2>1, <2>2
<1>8. CASE M!TestPassed
  BY <1>8 DEF M!TestPassed, EndsWithEnd
<1>9. CASE M!Parse
  <2>1. handler' = handler /\ worker = "parsing" /\ bpftrace' = bpftrace
        /\ \/ worker' = "reading" /\ tracer' = tracer
           \/ worker' = "raised" /\ tracer' = "ended"
    BY <1>9 DEF M!Parse, M!PutSample, M!AgentRaises
  <2> QED BY <2>1
<1> QED
  <2>1. \/ UNCHANGED <<handler, worker, tracer, bpftrace, lines, queue>> \/ M!Connect \/ M!Prepare \/ M!Relay
        \/ M!Launch \/ M!TracerDies \/ M!OrphanEnds \/ M!TracerPrints \/ M!StopSeen \/ M!EndOfOutput \/ M!TestPassed
        \/ M!Parse
    BY DEF M!MNext, M!BrowserStep, M!WorkerStep, M!mvars, M!agent, M!Fail, M!CloseEvent,
           M!WorkflowTimeOut, M!DemoBegins, M!DemoTick, M!Leave
  <2> QED BY <1>1, <1>2, <1>3, <1>4, <1>5, <1>6, <1>7, <1>8, <1>9, <2>1

\* When the page is gone the handler has an item to relay, or the worker a line
\* to read, or bpftrace a line to print, until the handler has returned and the
\* docker client of bpftrace is killed (monitor.py:40-43, ebpf_agent.py:82-84,
\* 113); or until what a raise in the worker leaves behind is all there is: a
\* handler that waits, and the client that no finally clause kills.
THEOREM CleanupCorrect == Spec => []CleanupProceeds
<1>1. Init => AgentInv
  <2> SUFFICES ASSUME M!MInit \/ M!MAbsent PROVE AgentInv
    BY MonitorBegins
  <2>1. handler = "none" /\ worker = "none" /\ tracer = "none" /\ bpftrace = "none"
    BY DEF M!MInit, M!MAbsent, M!MIdle
  <2> QED BY <2>1 DEF AgentInv
<1>2. MonitorTypes /\ [Next]_vars => MonitorTypes'
  BY MonitorSteps, SwitchTypesStep, AgentTypesStep, StreamTypesStep, GraphTypesStep DEF MonitorTypes
<1>3. MonitorTypes /\ AgentInv /\ [Next]_vars => AgentInv'
  BY MonitorSteps, AgentStep
<1>4. ASSUME MonitorTypes, AgentInv PROVE CleanupProceeds
  <2> SUFFICES ASSUME ~ M!CleanedUp PROVE CleanupGoesOn
    BY DEF CleanupProceeds
  <2>0. /\ handler \in {"none", "accepted", "waiting", "done"} /\ tracer \in {"none", "running", "ended"}
        /\ worker \in {"none", "starting", "reading", "parsing", "failed", "raised", "done"}
        /\ queue \in Seq({"sample", "end"}) /\ lines \in Seq({"switches", "wakeups"})
        /\ PipeSize \in Nat /\ PipeSize >= 2 /\ QueueSize \in Nat \ {0}
    BY <1>4, MonitorConstants, PartsAssumption DEF MonitorTypes, AgentTypes, StreamTypes, M!ConstantsOK
  <2>1. \/ handler = "accepted"
        \/ handler = "waiting" /\ (queue # << >> \/ worker \notin {"raised", "failed"})
        \/ tracer = "running" /\ worker # "failed"
    BY <2>0 DEF M!CleanedUp, M!HandlerOver, M!ClientOver, M!Stranded
  <2>2. CASE worker = "reading" /\ tracer = "running" /\ lines = << >> /\ (handler = "done" \/ queue = << >>)
    <3>1. Len(lines) = 0 /\ (handler # "done" => Len(queue) = 0)
      BY <2>2
    <3>2. bpftrace = "running"
      BY <1>4, <2>2 DEF AgentInv
    <3> QED BY <2>0, <2>2, <3>1, <3>2 DEF CleanupGoesOn
  <2> QED BY <1>4, <2>0, <2>1, <2>2 DEF AgentInv, EndsWithEnd, CleanupGoesOn
<1> QED BY <1>1, <1>2, <1>3, <1>4, MonitorTypesBegin, PTL DEF Spec
=============================================================================
