---------------------------- MODULE Rfm69Gateway -----------------------------
(***************************************************************************)
(* run_monitor of the metermon gateway (metermon-rs/src/main.rs) over the  *)
(* RFM69 driver: it polls for packets, supervises the radio with a         *)
(* watchdog (metermon-rs/src/health.rs) at each report, and parks the      *)
(* radio when it is told to stop.                                          *)
(*                                                                         *)
(* Time is abstracted to whether the last packet is younger than the       *)
(* watchdog's window.  The airwave sweep, which closes the driver and       *)
(* opens a new one, is in GatewayMonitor.                                  *)
(***************************************************************************)
EXTENDS Rfm69Receiver

CONSTANT MaxAttempts    \* RadioWatchdog::max_attempts (3)

ASSUME AttemptsAssumption == MaxAttempts \in Nat

VARIABLES
  gpc,                  \* where run_monitor is
  attempts,             \* RadioWatchdog::attempts
  fresh,                \* a packet has come within stall_after_secs
  asked                 \* SIGTERM has been received

gateway == <<gpc, attempts, fresh, asked>>
vars    == <<rfm69, gateway>>

GatewayPc == {"opened", "starting", "loop", "poll", "report", "recovering",
              "stopping", "exited", "stopped"}
Running   == gpc \notin {"exited", "stopped"}
Goto(p)   == gpc' = p

(* The radio has been opened: its driver is initialised.                   *)
Init ==
  /\ Rfm69Init
  /\ gpc = "opened" /\ attempts = 0 /\ fresh = TRUE /\ asked = FALSE

(* radio.start()?: an error ends the monitor.                              *)
Start ==
  /\ gpc = "opened" /\ Goto("starting")
  /\ StartReceive
  /\ UNCHANGED <<attempts, fresh, asked>>
Started ==
  /\ gpc = "starting" /\ Idle
  /\ Goto(IF call.ok THEN "loop" ELSE "exited")
  /\ UNCHANGED <<rfm69, attempts, fresh, asked>>

(* The top of the loop: the shutdown flag, looked at once a round.         *)
CheckShutdown ==
  /\ gpc = "loop" /\ ~asked /\ Goto("poll")
  /\ UNCHANGED <<rfm69, attempts, fresh, asked>>
Stop ==
  /\ gpc = "loop" /\ asked /\ Goto("stopping")
  /\ Shutdown
  /\ UNCHANGED <<attempts, fresh, asked>>

PollPacket ==
  /\ gpc = "poll" /\ Goto("report")
  /\ \/ /\ queue # <<>>
        /\ queue' = Tail(queue) /\ fresh' = TRUE
     \/ queue = <<>> /\ UNCHANGED <<queue, fresh>>
  /\ UNCHANGED <<attempts, asked, chip, current, task, shutdown, call, faults, history>>

NoReport ==
  /\ gpc = "report" /\ Goto("loop")
  /\ UNCHANGED <<rfm69, attempts, fresh, asked>>

(* Mutant of Assess: the count of recoveries never reaches the limit.      *)
AssessForgetful ==
  /\ gpc = "report"
  /\ IF fresh THEN Goto("loop") /\ UNCHANGED rfm69 ELSE Goto("recovering") /\ StartReceive
  /\ attempts' = 0
  /\ UNCHANGED <<fresh, asked>>

(* RadioWatchdog::assess at a report, and what run_monitor does about it.  *)
Assess ==
  /\ gpc = "report"
  /\ \/ /\ fresh /\ Goto("loop")
        /\ attempts' = 0 /\ UNCHANGED rfm69
     \/ /\ ~fresh /\ attempts < MaxAttempts /\ Goto("recovering")
        /\ attempts' = attempts + 1 /\ StartReceive
     \/ /\ ~fresh /\ attempts = MaxAttempts /\ Goto("exited")
        /\ attempts' = attempts + 1 /\ UNCHANGED rfm69
  /\ UNCHANGED <<fresh, asked>>

(* The error of a recovery is only logged.                                 *)
Recovered ==
  /\ gpc = "recovering" /\ Idle /\ Goto("loop")
  /\ UNCHANGED <<rfm69, attempts, fresh, asked>>

Stopped ==
  /\ gpc = "stopping" /\ Idle /\ Goto("stopped")
  /\ UNCHANGED <<rfm69, attempts, fresh, asked>>

(* The window of the watchdog passes without a packet.                     *)
Stall ==
  /\ Running /\ fresh /\ queue = <<>>
  /\ fresh' = FALSE
  /\ UNCHANGED <<gpc, attempts, asked, rfm69>>

Sigterm == Running /\ ~asked /\ asked' = TRUE /\ UNCHANGED <<gpc, attempts, fresh, rfm69>>

-----------------------------------------------------------------------------
Loop ==
  Start \/ Started \/ CheckShutdown \/ Stop \/ PollPacket \/ NoReport \/ Assess
    \/ Recovered \/ Stopped
Driver == Running /\ (Air \/ Task \/ CallStep) /\ UNCHANGED gateway
Next == Loop \/ Stall \/ Sigterm \/ Driver

(* Threads run, the report falls due again and again, timers run out; the  *)
(* air owes nothing.                                                       *)
Fairness ==
  /\ WF_vars(Running /\ TaskStep /\ UNCHANGED <<Owner, gateway>>)
  /\ WF_vars(Running /\ CallStep /\ UNCHANGED gateway)
  /\ WF_vars(Loop) /\ SF_vars(Assess) /\ WF_vars(Stall)

Spec == Init /\ [][Next]_vars /\ Fairness

TypeOK ==
  /\ Rfm69TypeOK
  /\ gpc \in GatewayPc /\ attempts \in 0..(MaxAttempts + 1)
  /\ fresh \in BOOLEAN /\ asked \in BOOLEAN

(* Rfm69Source::stop: "stop the interrupt task and put the chip to sleep   *)
(* so the SPI bus is quiescent": whatever burst the task was in, nobody    *)
(* wakes the chip again.                                                   *)
ParkedAtStop ==
  gpc = "stopped" => tpc = "ended" /\ (chip.mode = "Sleep" \/ faults > 0)

(* A radio that has stopped receiving for good does not leave the gateway  *)
(* deaf: the process ends, for systemd to start it again.                  *)
DeafRadioReplaced == <>[](chip.mode = "Standby") => <>(~Running)

(* source.rs, recover: "Re-arm the receiver (drain FIFO, restart RX) as    *)
(* cheap in-process recovery for a radio that has fallen out of RX": when  *)
(* it succeeds and the task is between two bursts, the chip receives.      *)
RecoverRestoresRx ==
  [][gpc = "recovering" /\ gpc' = "loop" /\ call.ok /\ tpc = "poll" => chip.mode = "Rx"]_vars
=============================================================================
