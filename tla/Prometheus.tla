------------------------------ MODULE Prometheus ------------------------------
(***************************************************************************)
(* The bulletin board's control of its Prometheus process                  *)
(* (metrics/prometheus.go): RestartPrometheus rewrites prometheus.yml in   *)
(* place, step by step, and starts a process on it; StopPrometheus kills   *)
(* the process of which the board knows the PID.  The file outlives the    *)
(* board, and so does a process the board does not kill.                   *)
(***************************************************************************)
EXTENDS Naturals

VARIABLES
  step,     \* RestartPrometheus: "read", "open", "write", "stop", "start", "done",
            \* "error" or, after os.Exit, "exit"
  file,     \* prometheus.yml: Torn, Earlier or the nodes it lists as targets
  scraped,  \* {}, or the file as this board's running Prometheus read it
  PID       \* 0 if the board knows of no process

vars == <<step, file, scraped, PID>>

\* A file is empty or a configuration that lists targets.
Torn == [holds |-> "nothing", targets |-> {}]
Earlier == [holds |-> "yaml", targets |-> {}]
Listing(targets) == [holds |-> "yaml", targets |-> targets]

\* A board begins with the file the one before has left; what it lists matters no more.
InitWith(f) ==
  /\ step = "read"
  /\ file = f
  /\ scraped = {}
  /\ PID = 0

\* cleanenv.ReadConfig, though its result is not used: YAML decoding fails on a
\* file without a document.  (Both paths tried lead to the one file.)
ReadConfig ==
  /\ step = "read" /\ file # Torn
  /\ step' = "open"
  /\ UNCHANGED <<file, scraped, PID>>

\* os.OpenFile with O_TRUNC
OpenFile ==
  /\ step = "open"
  /\ file' = Torn /\ step' = "write"
  /\ UNCHANGED <<scraped, PID>>

Write(targets) ==
  /\ step = "write"
  /\ file' = Listing(targets) /\ step' = "stop"
  /\ UNCHANGED <<scraped, PID>>

\* kill succeeds: the process is the board's child, and nobody has waited for it.
StopPrometheus ==
  /\ scraped' = IF PID # 0 THEN {} ELSE scraped
  /\ PID' = 0
  /\ UNCHANGED file

StopBeforeStart ==
  /\ step = "stop" /\ StopPrometheus
  /\ step' = "start"

StartPrometheusForgetsPID ==
  /\ step = "start"
  /\ scraped' = {file} /\ step' = "done"
  /\ UNCHANGED <<file, PID>>

\* cmd.Start; the new process reads the file.
StartPrometheus ==
  /\ step = "start"
  /\ scraped' = {file} /\ PID' = 1 /\ step' = "done"
  /\ UNCHANGED file

\* What StartPrometheus does if cmd.Start fails.
Exit ==
  /\ step = "start"
  /\ step' = "exit"
  /\ UNCHANGED <<file, scraped, PID>>

\* Any other system call may fail; what the file holds then is what it held.
Fails ==
  /\ step \in {"read", "open", "write", "stop"}
  /\ step' = "error"
  /\ UNCHANGED <<file, scraped, PID>>

RestartPrometheus(targets) ==
  ReadConfig \/ OpenFile \/ Write(targets) \/ StopBeforeStart \/ StartPrometheus \/ Exit \/ Fails
=============================================================================
