------------------------------ MODULE MCRelay ------------------------------
(* Relay on small sets of sessions, one assignment of endpoints per run. *)
EXTENDS Relay, TLC

CONSTANTS s1, s2, s3

\* Two requests each, on two endpoints that treat a message differently.
LabAndBenchmark == (s1 :> "lab") @@ (s2 :> "benchmark")

\* The endpoint that raises on a malformed message beside one that never
\* touches the container.
ChaosAndBenchmark == (s1 :> "chaos") @@ (s2 :> "benchmark")

\* A benchmark beside two endpoints whose agents raise when a docker exec runs
\* into its timeout.
BenchmarkBesideInjections ==
  (s1 :> "benchmark") @@ (s2 :> "chaos") @@ (s3 :> "experiments")

\* benchmark.py (lines 37-40) and lab.py (55-57) run agents in threads and
\* relay their events "so the event loop stays free to serve other
\* connections": a request on a session whose agent works is answered,
\* whatever became of the agents of the other sessions.
OtherConnectionsServed ==
  \A s \in Sessions \ MayRaise :
    hpc[s] = "waiting" /\ conn[s] = "open"
      ~> conn[s] = "gone" \/ hpc[s] = "receive"
=============================================================================
