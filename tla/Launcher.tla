------------------------------ MODULE Launcher ------------------------------
(***************************************************************************)
(* tools/dev_runner.py: a launch from its command line to its exit code.   *)
(* After the set-up of Provisioning the launcher starts the two servers,   *)
(* waits until something answers on their ports, watches them, and stops   *)
(* them.  On POSIX each server leads a process group of its own: the       *)
(* leader (npm; Django's reloader) has a helper (Vite; the serving         *)
(* process), and the helper is the one that listens.                       *)
(*                                                                         *)
(* External: the servers, which may end by themselves at any time; other   *)
(* programs that take a port; signals, which are a flag once the handlers  *)
(* are installed, save those that end the launcher at once.                *)
(***************************************************************************)
EXTENDS Provisioning

CONSTANTS
  ApiPort, WebPort, MaxPort    \* preferred ports; the ports are 1..MaxPort

ASSUME LauncherAssumption == {ApiPort, WebPort} \subseteq 1..MaxPort

VARIABLES
  server,    \* by name: its port, leader, helper, and how it was stopped
  stop,      \* stop_requested
  alive,     \* shutdown: the servers still to be stopped
  taken,     \* ports other programs listen on
  lines      \* the command lines of the launches still to come

vars == <<setupVars, server, stop, alive, taken, lines>>
supervision == <<server, stop, alive, taken, lines>>
provisions == <<args, found, host, files, venv, node, models, data, edits>>

Names == {"api", "web"}

(* The servers are kept in a list, the API first.                          *)
First(servers) == IF "api" \in servers THEN "api" ELSE "web"

WantsServer(s) == IF s = "api" THEN WantsBackend ELSE WantsFrontend

NotStarted(port) == [port |-> port, leader |-> "none", helper |-> "none",
                     ours |-> FALSE, alone |-> FALSE, killed |-> FALSE]

Running(s) == server[s].leader = "running"
Died(s) == server[s].leader = "exited"

Listening == {server[s].port : s \in {n \in Names : server[n].helper = "listening"}}

Init ==
  /\ SetupInit
  /\ server = [s \in Names |-> NotStarted(IF s = "api" THEN ApiPort ELSE WebPort)]
  /\ stop = FALSE /\ alive = {} /\ taken = {} /\ lines \in Arguments

(* main.  A helper that outlived its launch is now another program.        *)
Launch ==
  /\ pc = "off" /\ lines # <<>>
  /\ args' = Head(lines) /\ lines' = Tail(lines)
  /\ pc' = "preflight" /\ code' = 1 /\ failed' = FALSE /\ host' = NoHost
  /\ taken' = taken \union Listening
  /\ server' = [s \in Names |-> NotStarted(IF s = "api" THEN ApiPort ELSE WebPort)]
  /\ stop' = FALSE /\ alive' = {}
  /\ UNCHANGED <<found, files, venv, node, models, data, edits, breaks>>

SetUp == SetupStep /\ UNCHANGED supervision

(* execute returned.                                                       *)
Return ==
  /\ pc = "return"
  /\ Raise(IF failed THEN 1 ELSE 0)
  /\ UNCHANGED <<provisions, failed, breaks, supervision>>

----------------------------------------------------------------------------
(* free_port, and the port of the web server that avoids the API's only    *)
(* where it starts to look.                                                *)
FreePorts(p) == {q \in p..MaxPort : q \notin taken \union Listening}

ResolvePorts ==
  LET api == IF WantsBackend THEN Min(FreePorts(ApiPort)) ELSE ApiPort
      from == IF WebPort = api THEN WebPort + 1 ELSE WebPort
      web == IF WantsFrontend THEN Min(FreePorts(from)) ELSE WebPort
  IN /\ pc = "servers"
     /\ IF \/ WantsBackend /\ FreePorts(ApiPort) = {}
           \/ WantsFrontend /\ FreePorts(from) = {}
        THEN Fail /\ UNCHANGED server
        ELSE /\ server' = [s \in Names |-> NotStarted(IF s = "api" THEN api ELSE web)]
             /\ Proceed("start")
     /\ UNCHANGED <<provisions, failed, stop, alive, taken, lines>>

ToStart == {s \in Names : WantsServer(s) /\ server[s].leader = "none"}

(* ManagedProcess.start; the signal handlers are there from here on.       *)
StartServer ==
  /\ pc = "start" /\ ToStart # {}
  /\ \/ /\ server' = [server EXCEPT ![First(ToStart)].leader = "running",
                                    ![First(ToStart)].helper = "starting"]
        /\ Proceed("start")
     \/ UNCHANGED server /\ breaks < MaxBreaks /\ Raise(1) /\ breaks' = breaks + 1
  /\ UNCHANGED <<provisions, failed, stop, alive, taken, lines>>

(* 0.4 s later: a server that has exited ends the launch.                  *)
Settle ==
  /\ pc = "start" /\ ToStart = {}
  /\ IF \E s \in Names : Died(s) THEN Fail
     ELSE Proceed(IF WantsBackend THEN "await api" ELSE "await web")
  /\ UNCHANGED <<provisions, failed, supervision>>

(* wait_for_http, for one server after the other: anything that answers on *)
(* its port will do, and only the server waited for is looked at.          *)
Await(s, step, next) ==
  /\ pc = step
  /\ \/ Died(s) /\ Fail
     \/ ~Died(s) /\ server[s].port \in taken \union Listening /\ Proceed(next)
     \/ ~Died(s) /\ server[s].port \notin taken \union Listening /\ Fail
  /\ UNCHANGED <<provisions, failed, supervision>>

AwaitServers ==
  \/ Await("api", "await api", IF WantsFrontend THEN "await web" ELSE "browser")
  \/ Await("web", "await web", "browser")

OpenBrowser ==
  /\ pc = "browser" /\ Proceed("supervise")
  /\ UNCHANGED <<provisions, failed, supervision>>

(* phase_supervise: the flag, then the servers.                            *)
Supervise ==
  /\ pc = "supervise"
  /\ IF stop THEN Raise(IF failed THEN 1 ELSE 0) /\ UNCHANGED breaks ELSE Proceed("look")
  /\ UNCHANGED <<provisions, failed, supervision>>

(* A mutant: a server that exits is an ordinary end.                       *)
LookNoFailure ==
  /\ pc = "look"
  /\ IF \E s \in Names : Died(s) /\ ~server[s].ours
     THEN Raise(0) /\ UNCHANGED <<failed, breaks>>
     ELSE Proceed("supervise") /\ UNCHANGED failed
  /\ UNCHANGED <<provisions, supervision>>

Look ==
  /\ pc = "look"
  /\ IF \E s \in Names : Died(s) /\ ~server[s].ours
     THEN Fail /\ failed' = TRUE
     ELSE Proceed("supervise") /\ UNCHANGED failed
  /\ UNCHANGED <<provisions, supervision>>

----------------------------------------------------------------------------
(* shutdown, from every exit path: the servers that run, in order.         *)
BeginShutdown ==
  /\ pc = "shutdown"
  /\ alive' = {s \in Names : Running(s)}
  /\ pc' = "stopping"
  /\ UNCHANGED <<provisions, code, failed, breaks, server, stop, taken, lines>>

(* stop: SIGTERM to the group of a leader that still runs ...              *)
StopNext ==
  /\ pc = "stopping"
  /\ IF alive = {} THEN pc' = "over" /\ UNCHANGED <<server, alive>>
     ELSE IF Running(First(alive))
     THEN server' = [server EXCEPT ![First(alive)].ours = TRUE] /\ pc' = "grace" /\ UNCHANGED alive
     ELSE alive' = alive \ {First(alive)} /\ UNCHANGED <<pc, server>>
  /\ UNCHANGED <<provisions, code, failed, breaks, stop, taken, lines>>

(* A mutant: without the ten seconds.                                      *)
GraceForever ==
  /\ pc = "grace" /\ ~Running(First(alive))
  /\ pc' = "stopping" /\ alive' = alive \ {First(alive)}
  /\ UNCHANGED <<provisions, code, failed, breaks, server, stop, taken, lines>>

(* signal_child: SIGKILL to the group that popen_kwargs made of a server.  *)
Killed(s) == [server EXCEPT ![s].leader = "exited", ![s].helper = "exited", ![s].killed = TRUE]

(* ... until the leader has gone, or for ten seconds; then SIGKILL to the  *)
(* group, and a wait that may fail.                                        *)
Grace ==
  LET s == First(alive)
  IN /\ pc = "grace" /\ pc' = "stopping" /\ alive' = alive \ {First(alive)}
     /\ \/ ~Running(s) /\ UNCHANGED <<server, breaks>>
        \/ Running(s) /\ server' = Killed(s) /\ UNCHANGED breaks
        \/ /\ Running(s) /\ breaks < MaxBreaks /\ breaks' = breaks + 1
           /\ server' = [server EXCEPT ![s].killed = TRUE]
     /\ UNCHANGED <<provisions, code, failed, stop, taken, lines>>

Exit ==
  /\ pc = "over" /\ pc' = "off"
  /\ UNCHANGED <<provisions, code, failed, breaks, supervision>>

Step == SetUp \/ Return \/ ResolvePorts \/ StartServer \/ Settle \/ AwaitServers
        \/ OpenBrowser \/ Supervise \/ Look \/ BeginShutdown \/ StopNext \/ Grace \/ Exit

----------------------------------------------------------------------------
Handled == pc \in {"start", "await api", "await web", "browser", "supervise", "look",
                   "shutdown", "stopping", "grace"}

(* SIGINT, SIGTERM                                                         *)
Signal ==
  /\ Handled /\ ~stop /\ stop' = TRUE
  /\ UNCHANGED <<setupVars, server, alive, taken, lines>>

(* SIGHUP or SIGKILL of the launcher.                                      *)
Perish ==
  /\ Handled /\ breaks < MaxBreaks /\ breaks' = breaks + 1 /\ pc' = "off"
  /\ UNCHANGED <<provisions, code, failed, supervision>>

(* A helper binds its port or fails.                                       *)
Bind(s) ==
  /\ server[s].helper = "starting"
  /\ server' = [server EXCEPT ![s].helper =
                  IF server[s].port \in taken \union Listening THEN "exited" ELSE "listening"]
  /\ UNCHANGED <<setupVars, stop, alive, taken, lines>>

HelperEnds(s) ==
  /\ server[s].helper \in {"starting", "listening"}
  /\ server[s].ours \/ breaks < MaxBreaks
  /\ breaks' = IF server[s].ours THEN breaks ELSE breaks + 1
  /\ server' = [server EXCEPT ![s].helper = "exited"]
  /\ UNCHANGED <<pc, code, failed, provisions, stop, alive, taken, lines>>

(* A leader ends after its helper, on SIGTERM, or by itself.               *)
LeaderEnds(s) ==
  LET expected == server[s].ours \/ server[s].helper = "exited"
  IN /\ Running(s)
     /\ expected \/ breaks < MaxBreaks
     /\ breaks' = IF expected THEN breaks ELSE breaks + 1
     /\ server' = [server EXCEPT ![s].leader = "exited", ![s].alone = ~server[s].ours]
     /\ UNCHANGED <<pc, code, failed, provisions, stop, alive, taken, lines>>

TakePort(p) ==
  /\ p \notin taken \union Listening /\ breaks < MaxBreaks /\ breaks' = breaks + 1
  /\ taken' = taken \union {p}
  /\ UNCHANGED <<pc, code, failed, provisions, server, stop, alive, lines>>

Environment ==
  \/ Edit /\ UNCHANGED supervision
  \/ Signal \/ Perish
  \/ \E s \in Names : Bind(s) \/ HelperEnds(s) \/ LeaderEnds(s)
  \/ \E p \in 1..MaxPort : TakePort(p)

Next == Launch \/ Step \/ Environment

(* Every wait of the launcher has a time-out.                              *)
Spec == Init /\ [][Next]_vars /\ WF_vars(Step)

----------------------------------------------------------------------------
TypeOK ==
  /\ code \in {0, 1, 130} /\ failed \in BOOLEAN /\ stop \in BOOLEAN
  /\ {reqs, lock} \subseteq Versions
  /\ venv.pkgs \in Versions \union {None, Torn} /\ node.pkgs \in Versions \union {None, Torn}
  /\ venv.stamp # None => venv.built /\ venv.pip
  /\ detector \in {"none", "short", "whole"}
  /\ dataset \in [train : 0..Pairs, val : 0..Pairs, manifest : {"none", "torn", "whole"}]
  /\ training.best = Max({-1} \union training.seen)
  /\ samples \in [files : 0..5, codec : 1..Codecs, cut : BOOLEAN]
  /\ (db.seeded => db.migrated)
  /\ \A s \in Names : server[s].port \in 1..MaxPort /\ (server[s].helper # "none" => server[s].leader # "none")

(***************************************************************************)
(* The servers die together.  When a launch is over, the leader of every   *)
(* server it started has gone, save one that survived SIGKILL; each group  *)
(* was sent its signals, unless its leader ended by itself; and exit code  *)
(* 0 after a phase of servers means that somebody asked for the end.       *)
(***************************************************************************)
DieTogether ==
  pc = "over" =>
    /\ \A s \in Names :
         /\ Running(s) => server[s].killed
         /\ Died(s) => server[s].ours \/ server[s].alone
    /\ code = 0 /\ "--check" \notin args => stop

(***************************************************************************)
(* A launch whose server ends, or that is asked to stop, comes to its end, *)
(* in whatever phase that finds it.                                        *)
(***************************************************************************)
LaunchEnds == (Handled /\ (stop \/ \E s \in Names : Died(s))) ~> pc \in {"over", "off"}

(***************************************************************************)
(* ManagedProcess: "stop it without orphans"; the README of scripts/: the  *)
(* helpers "go down too instead of surviving as orphans holding the        *)
(* ports".                                                                 *)
(***************************************************************************)
NoOrphans == pc = "over" => Listening = {}

----------------------------------------------------------------------------
(* What the proofs need besides: where a launch can be, and what its       *)
(* servers are there.  Up to phase 7 there are none ...                    *)
BeforeServers ==
  {"preflight", "venv", "pip upgrade", "pip install", "pip stamp",
   "frontend", "npm ci", "npm install", "npm stamp",
   "ml", "segmenter", "dataset", "train split", "val split", "manifest",
   "start training", "train", "save",
   "database", "migrate", "seed", "samples", "make samples", "tests", "servers", "return"}

WithServers == {"start", "await api", "await web", "browser", "supervise", "look"}

Servers == [port : 1..MaxPort, leader : {"none", "running", "exited"},
            helper : {"none", "starting", "listening", "exited"},
            ours : BOOLEAN, alone : BOOLEAN, killed : BOOLEAN]

ServersTypeOK ==
  /\ pc \in BeforeServers \union WithServers \union {"shutdown", "stopping", "grace", "over", "off"}
  /\ server \in [Names -> Servers]
  /\ stop \in BOOLEAN /\ alive \subseteq Names
  /\ \A s \in Names : server[s].helper # "none" => server[s].leader # "none"

(* ... up to the shutdown, none was sent a signal by the launcher, and     *)
(* then those that run are still to be stopped, or survived it ...         *)
ServersInv ==
  /\ pc \in BeforeServers => ~stop /\ \A s \in Names : server[s].leader = "none"
  /\ \A s \in Names : Died(s) => server[s].ours \/ server[s].alone
  /\ pc \in {"stopping", "grace"} => \A s \in Names : Running(s) => s \in alive \/ server[s].killed
  /\ pc = "grace" => alive # {} /\ server[First(alive)].ours
  /\ pc = "over" => \A s \in Names : Running(s) => server[s].killed

(* ... and a launch that says 0 checked the tests, or was asked to end.    *)
CodeInv ==
  /\ pc = "return" => "--check" \in args
  /\ pc \in {"shutdown", "stopping", "grace", "over"} /\ code = 0 /\ "--check" \notin args => stop

LaunchInv == ServersTypeOK /\ ServersInv /\ CodeInv
=============================================================================
