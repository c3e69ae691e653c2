-------------------------------- MODULE Rollout --------------------------------
(***************************************************************************)
(* How certificates, keys, configurations and Quadlet units get from the   *)
(* checkout to the running services: preflight's check of the supplied     *)
(* pairs, the copies under runtime/, the units under                       *)
(* /etc/containers/systemd, the daemon-reload and the restarts; and the    *)
(* commands start, stop, restart and destroy on the same units.            *)
(*                                                                         *)
(* systemd works on its own meanwhile.  It starts what is wanted, restarts *)
(* what crashes, and starts everything installed at boot, each time from   *)
(* the files that are there at that moment.                                *)
(*                                                                         *)
(* A generation is a version of the content of a file.  A certificate fits *)
(* a key of its own generation only.                                       *)
(***************************************************************************)
EXTENDS Naturals, Sequences

CONSTANTS
  Order,      \* the services in the order of SERVICES, a sequence
  Requires,   \* Requires[s]: the services of s's Requires= and After=
  Has,        \* Has[s]: the files that the container of s is started from
  Command,    \* the elkctl commands the operator uses
  Careful,    \* the operator changes supplied files only between commands
  ABSENT,     \* no such file, no such unit
  TORN,       \* a file that shutil.copyfile has truncated and not filled
  STOPPED,    \* no container of the service runs
  Renewable,  \* bound: the files the operator renews
  MaxGen,     \* bound: generations of each supplied file
  MaxFaults   \* bound: interruptions, timeouts, failed stops, crashes and boots together

Service == {Order[i] : i \in DOMAIN Order}
Gen == 1..MaxGen
Pair == {"crt", "key"}
Shared == {"ca", "proxy"}                  \* one supplied file for all services
Copied == Pair \cup Shared \cup {"script"}  \* copied in place
Slot == Copied \cup {"config", "unit"}      \* the others are rendered

ASSUME OrderAssumption ==
  /\ Order \in Seq(Service) /\ Order # <<>>
  /\ Requires \in [Service -> SUBSET Service]
  /\ \A i, j \in DOMAIN Order :
       (Order[i] = Order[j] => i = j) /\ (Order[j] \in Requires[Order[i]] => j < i)
ASSUME FileAssumption ==
  /\ Has \in [Service -> SUBSET Slot]
  /\ \A s \in Service : "unit" \in Has[s] /\ ("crt" \in Has[s] <=> "key" \in Has[s])
  /\ Renewable \subseteq Copied
ASSUME CommandAssumption ==
  /\ Command \subseteq {"deploy", "start", "stop", "restart", "destroy"}
  /\ Careful \in BOOLEAN
ASSUME GenAssumption ==
  MaxGen \in Nat \ {0} /\ {ABSENT, TORN, STOPPED} \cap Gen = {} /\ ABSENT # TORN
ASSUME FaultAssumption == MaxFaults \in Nat

VARIABLES
  pki,        \* pki[s][f]: what is supplied to be copied for s
  site,       \* the supplied config/stack.json
  staged,     \* staged[s][f]: the copy or rendering under runtime/
  installed,  \* installed[s]: the Quadlet source in /etc/containers/systemd
  loaded,     \* loaded[s]: the unit systemd generated from it
  wanted,     \* wanted[s]: systemd has a reason to (re)start s
  running,    \* running[s]: what the container of s was started from
  command,    \* the elkctl command that runs, or "none"
  step,       \* its next step
  half,       \* the step is half done: a file truncated, a job submitted
  config,     \* the generation of stack.json it loaded
  faults,     \* interruptions, timeouts, failed stops, crashes and boots so far
  cut,        \* history: the services whose copies a command was cut off at
  spared      \* history: the services whose last stop failed

files == <<staged, installed>>
units == <<loaded, wanted, running>>
process == <<command, step, half, config>>
history == <<cut, spared>>
vars == <<pki, site, files, units, process, faults, history>>

Init ==
  /\ pki = [s \in Service |-> [f \in Copied |-> 1]]
  /\ site = 1
  /\ staged = [s \in Service |-> [f \in Slot |-> ABSENT]]
  /\ installed = [s \in Service |-> ABSENT]
  /\ loaded = [s \in Service |-> ABSENT]
  /\ wanted = [s \in Service |-> FALSE]
  /\ running = [s \in Service |-> STOPPED]
  /\ command = "none"
  /\ step = 1
  /\ half = FALSE
  /\ config = 1
  /\ faults = 0
  /\ cut = {}
  /\ spared = {}

-----------------------------------------------------------------------------
(* The steps of each command, in their order.                              *)

Each(op) == [i \in DOMAIN Order |-> [op |-> op, service |-> Order[i]]]
Backwards(op) == [i \in DOMAIN Order |-> [op |-> op, service |-> Order[Len(Order) + 1 - i]]]
Reload == <<[op |-> "reload", service |-> Order[1]]>>

\* Mutant: all certificates are copied before the keys.
CopyCertificatesFirst == Each("ca") \o Each("crt") \o Each("key")

\* install_pki goes service by service: the CA chain, the certificate, the key.
CopyPairs ==
  [i \in 1..(3 * Len(Order)) |->
     [op |-> CASE i % 3 = 1 -> "ca" [] i % 3 = 2 -> "crt" [] i % 3 = 0 -> "key",
      service |-> Order[(i + 2) \div 3]]]

\* A step for a file that the service does not have is there and does nothing.
Program(c) ==
  CASE c = "deploy" -> Each("check") \o CopyPairs \o Each("proxy") \o Each("config")
                         \o Each("script") \o Each("unit")
                         \o Each("install") \o Reload \o Each("restart")
    [] c = "start" -> Each("start")
    [] c = "restart" -> Each("restart")
    [] c = "stop" -> Backwards("stop")
    [] c = "destroy" -> Backwards("stop") \o Each("unlink") \o Reload

Doing(ops) ==
  /\ command # "none"
  /\ step <= Len(Program(command))
  /\ Program(command)[step].op \in ops
Here == Program(command)[step].service
File == Program(command)[step].op

Return == step' = step + 1 /\ half' = FALSE /\ UNCHANGED <<command, config>>
Halfway == half' = TRUE /\ UNCHANGED <<command, step, config>>
Exit == command' = "none" /\ step' = 1 /\ half' = FALSE /\ UNCHANGED config

\* main loads stack.json once; everything later uses that.
Begin ==
  /\ command = "none"
  /\ command' \in Command
  /\ config' = site
  /\ UNCHANGED <<pki, site, files, units, step, half, faults, history>>

Finish ==
  /\ command # "none" /\ step = Len(Program(command)) + 1
  /\ Exit
  /\ UNCHANGED <<pki, site, files, units, faults, history>>

Fault == faults < MaxFaults /\ faults' = faults + 1

\* While the copy of one of its files is truncated, or its new certificate stands
\* beside its old key, s could not be started.
Window(s) ==
  /\ Doing(Copied \cap Has[s]) /\ Here = s
  /\ half \/ Doing({"key"})

CutOff == Exit /\ cut' = cut \cup {s \in Service : Window(s)}

Interrupt ==
  /\ command # "none"
  /\ Fault
  /\ CutOff
  /\ UNCHANGED <<pki, site, files, units, spared>>

-----------------------------------------------------------------------------
(* deploy: preflight, render_all, install_quadlets.                        *)

\* A pair that does not fit is a failure, and deploy ends before any change.
CheckPair ==
  /\ Doing({"check"})
  /\ IF pki[Here]["crt"] = pki[Here]["key"] THEN Return ELSE Exit
  /\ UNCHANGED <<pki, site, files, units, faults, history>>

\* The last copy for a service makes up for those that were cut off.
Mend == cut' = IF File = "script" THEN cut \ {Here} ELSE cut

\* Mutant: an existing copy is not replaced.
CopyOnce ==
  /\ Doing(Copied)
  /\ \/ /\ File \in Has[Here] /\ ~half /\ staged[Here][File] = ABSENT
        /\ staged' = [staged EXCEPT ![Here][File] = TORN]
        /\ Halfway
        /\ UNCHANGED cut
     \/ /\ half \/ File \notin Has[Here] \/ staged[Here][File] # ABSENT
        /\ staged' = IF half THEN [staged EXCEPT ![Here][File] = pki[Here][File]] ELSE staged
        /\ Return
        /\ Mend
  /\ UNCHANGED <<pki, site, installed, units, faults, spared>>

\* shutil.copyfile: the copy is truncated first.
Copy ==
  /\ Doing(Copied)
  /\ \/ /\ File \in Has[Here] /\ ~half
        /\ staged' = [staged EXCEPT ![Here][File] = TORN]
        /\ Halfway
        /\ UNCHANGED cut
     \/ /\ half \/ File \notin Has[Here]
        /\ staged' = IF File \in Has[Here]
                       THEN [staged EXCEPT ![Here][File] = pki[Here][File]] ELSE staged
        /\ Return
        /\ Mend
  /\ UNCHANGED <<pki, site, installed, units, faults, spared>>

\* atomic_write: a temporary file replaces the old one in one step.
Render ==
  /\ Doing({"config", "unit"})
  /\ staged' = [staged EXCEPT ![Here][File] = IF File \in Has[Here] THEN config ELSE @]
  /\ Return
  /\ UNCHANGED <<pki, site, installed, units, faults, history>>

\* Mutant: an installed unit is not replaced.
InstallOnce ==
  /\ Doing({"install"})
  /\ CASE half -> installed' = [installed EXCEPT ![Here] = staged[Here]["unit"]] /\ Return
       [] ~half /\ installed[Here] = ABSENT ->
            installed' = [installed EXCEPT ![Here] = TORN] /\ Halfway
       [] OTHER -> Return /\ UNCHANGED installed
  /\ UNCHANGED <<pki, site, staged, units, faults, history>>

Install ==
  /\ Doing({"install"})
  /\ IF half
       THEN installed' = [installed EXCEPT ![Here] = staged[Here]["unit"]] /\ Return
       ELSE installed' = [installed EXCEPT ![Here] = TORN] /\ Halfway
  /\ UNCHANGED <<pki, site, staged, units, faults, history>>

Unlink ==
  /\ Doing({"unlink"})
  /\ installed' = [installed EXCEPT ![Here] = ABSENT]
  /\ Return
  /\ UNCHANGED <<pki, site, staged, units, faults, history>>

\* Mutant: the generator takes whatever is there.
GeneratedUnparsed == installed

\* The Quadlet generator makes no unit from a source it cannot parse.
Generated == [s \in Service |-> IF installed[s] = TORN THEN ABSENT ELSE installed[s]]

DaemonReload ==
  /\ Doing({"reload"})
  /\ loaded' = Generated
  /\ Return
  /\ UNCHANGED <<pki, site, files, wanted, running, faults, history>>

-----------------------------------------------------------------------------
(* systemctl start, restart, stop; what systemd does with the jobs.        *)

Needs[s \in Service] == Requires[s] \cup UNION {Needs[t] : t \in Requires[s]}
Dependents(s) == {t \in Service : s \in Needs[t]}

\* What a container of s would be started from now, and whether it would run.
StartedFrom(s) == [staged[s] EXCEPT !["unit"] = loaded[s]]
Usable(s) ==
  /\ \A f \in Has[s] : StartedFrom(s)[f] \in Gen
  /\ staged[s]["crt"] = staged[s]["key"]

\* Mutant: systemctl start where the code has systemctl restart.
SubmitStart(s, stopped) ==
  /\ wanted' = [t \in Service |-> wanted[t] \/ t \in {s} \cup Needs[s]]
  /\ running' = [t \in Service |-> IF wanted'[t] # wanted[t] THEN STOPPED ELSE running[t]]

\* A start pulls in what s requires.  A restart also stops s and every active
\* service that requires it, and starts them again.  A unit that was stopping
\* finishes first.
Submit(s, stopped) ==
  /\ wanted' = [t \in Service |-> wanted[t] \/ t \in {s} \cup Needs[s]]
  /\ running' = [t \in Service |->
       IF t \in stopped \/ wanted'[t] # wanted[t] THEN STOPPED ELSE running[t]]

\* The command waits for the job and ends with an error when it fails.  Only
\* deploy also waits for the service: to the other commands a container that
\* exits again right away has started.
StartOrRestart ==
  /\ Doing({"start", "restart"})
  /\ IF half
       THEN /\ \/ running[Here] # STOPPED /\ Return
               \/ command # "deploy" /\ ~Usable(Here) /\ Return
               \/ (\E t \in {Here} \cup Needs[Here] : ~Usable(t)) /\ Exit
            /\ UNCHANGED units
       ELSE \/ loaded[Here] = ABSENT /\ Exit /\ UNCHANGED units
            \/ /\ loaded[Here] # ABSENT
               /\ IF Doing({"restart"})
                    THEN Submit(Here, {Here} \cup {t \in Dependents(Here) : wanted[t]})
                    ELSE Submit(Here, {})
               /\ Halfway
               /\ UNCHANGED loaded
  /\ UNCHANGED <<pki, site, files, faults, history>>

\* Mutant: systemctl stop --no-block.
StopWithoutWaiting ==
  /\ Doing({"stop"})
  /\ wanted' = [t \in Service |-> wanted[t] /\ t \notin {Here} \cup Dependents(Here)]
  /\ spared' = spared \ {Here}
  /\ Return
  /\ UNCHANGED <<pki, site, files, loaded, running, faults, cut>>

\* A stop takes the services that require s along.
Stop ==
  /\ Doing({"stop"})
  /\ IF half
       THEN /\ running[Here] = STOPPED
            /\ spared' = spared \ {Here}
            /\ Return
            /\ UNCHANGED units
       ELSE /\ wanted' = [t \in Service |-> wanted[t] /\ t \notin {Here} \cup Dependents(Here)]
            /\ Halfway
            /\ UNCHANGED <<loaded, running, spared>>
  /\ UNCHANGED <<pki, site, files, faults, cut>>

\* A stop that fails is ignored: systemd did not take it, or dropped its job while
\* the service ran.
StopFails ==
  /\ Doing({"stop"})
  /\ Fault
  /\ wanted' = [wanted EXCEPT ![Here] = @ \/ (half /\ running[Here] # STOPPED)]
  /\ spared' = spared \cup {Here}
  /\ Return
  /\ UNCHANGED <<pki, site, files, loaded, running, cut>>

\* systemd's own steps.  A job goes on when the command that waited for it is
\* gone: the runner gives a systemctl 120 seconds, the units up to 300.  Services
\* stop in the reverse of the order in which they start.
Up(s) ==
  /\ wanted[s] /\ running[s] = STOPPED
  /\ Usable(s) /\ \A t \in Requires[s] : running[t] # STOPPED
  /\ running' = [running EXCEPT ![s] = StartedFrom(s)]
  /\ UNCHANGED <<pki, site, files, loaded, wanted, process, faults, history>>

Down(s) ==
  /\ ~wanted[s] /\ running[s] # STOPPED
  /\ \A t \in Service : s \in Requires[t] => wanted[t] \/ running[t] = STOPPED
  /\ running' = [running EXCEPT ![s] = STOPPED]
  /\ UNCHANGED <<pki, site, files, loaded, wanted, process, faults, history>>

\* Restart=on-failure: the service stays wanted.
Crash(s) ==
  /\ running[s] # STOPPED
  /\ Fault
  /\ running' = [running EXCEPT ![s] = STOPPED]
  /\ UNCHANGED <<pki, site, files, loaded, wanted, process, history>>

Boot ==
  /\ Fault
  /\ CutOff
  /\ loaded' = Generated
  /\ wanted' = [s \in Service |-> loaded'[s] # ABSENT]
  /\ running' = [s \in Service |-> STOPPED]
  /\ UNCHANGED <<pki, site, files, spared>>

Renewed(names, s) ==
  [f \in Copied |-> IF f \in names \cap Has[s] THEN pki[s][f] + 1 ELSE pki[s][f]]

\* The operator replaces one supplied file atomically, as the PKI guide says.  The
\* CA chains are those of all services, and the same file where no proxy is set.
Renew ==
  /\ Careful => command = "none"
  /\ \/ /\ \/ \E s \in Service : \E f \in (Renewable \ Shared) \cap Has[s] :
                pki' = [pki EXCEPT ![s] = Renewed({f}, s)]
           \/ \E names \in (SUBSET (Renewable \cap Shared)) \ {{}} :
                pki' = [s \in Service |-> Renewed(names, s)]
        /\ \A s \in Service : pki'[s] \in [Copied -> Gen]
        /\ UNCHANGED site
     \/ site < MaxGen /\ site' = site + 1 /\ UNCHANGED pki
  /\ UNCHANGED <<files, units, process, faults, history>>

-----------------------------------------------------------------------------
Proceed ==
  \/ Begin \/ Finish
  \/ CheckPair \/ Copy \/ Render \/ Install \/ Unlink \/ DaemonReload
  \/ StartOrRestart \/ Stop

Next ==
  \/ Proceed \/ StopFails \/ Interrupt \/ Boot \/ Renew
  \/ \E s \in Service : Up(s) \/ Down(s) \/ Crash(s)

Spec == Init /\ [][Next]_vars

\* A command that runs goes on, systemd carries its jobs out, and the operator
\* uses elkctl again.  Faults and renewals are never forced.
FairSpec ==
  Spec /\ WF_vars(Proceed) /\ \A s \in Service : WF_vars(Up(s)) /\ WF_vars(Down(s))

-----------------------------------------------------------------------------
\* Every variable holds what the operator, elkctl or systemd can put there; what a
\* container was started from was whole.
TypeOK ==
  /\ pki \in [Service -> [Copied -> Gen]]
  /\ site \in Gen /\ config \in Gen
  /\ staged \in [Service -> [Slot -> Gen \cup {ABSENT, TORN}]]
  /\ installed \in [Service -> Gen \cup {ABSENT, TORN}]
  /\ loaded \in [Service -> Gen \cup {ABSENT}]
  /\ wanted \in [Service -> BOOLEAN]
  /\ running \in [Service -> [Slot -> Gen \cup {ABSENT}] \cup {STOPPED}]
  /\ \A s \in Service : running[s] # STOPPED => \A f \in Has[s] : running[s][f] \in Gen
  /\ command \in Command \cup {"none"}
  /\ step \in 1..(10 * Len(Order) + 2)
  /\ half \in BOOLEAN
  /\ faults \in 0..MaxFaults
  /\ cut \subseteq Service /\ spared \subseteq Service

Returning(c) == command = c /\ step = Len(Program(c)) + 1
Supplied(s) ==
  [f \in Slot |-> CASE f \notin Has[s] -> ABSENT
                    [] f \in Has[s] \cap Copied -> pki[s][f]
                    [] f \in Has[s] \ Copied -> site]

\* "Deployment converged": every service runs from the files supplied now, and
\* a crash or a reboot would bring back the same.  (Careful operators.)
ConvergedIsCurrent ==
  Returning("deploy") =>
    \A s \in Service :
      /\ running[s] \in {Supplied(s), STOPPED}
      /\ StartedFrom(s) = Supplied(s)
      /\ installed[s] = loaded[s] /\ wanted[s]

\* Whatever the operator changes meanwhile, deploy does not return with a
\* service that could not be started again, or started from two configurations.
ReturnsUsable ==
  Returning("deploy") =>
    \A s \in Service :
      /\ Usable(s) /\ loaded[s] = config
      /\ "config" \in Has[s] => staged[s]["config"] = config

\* A service that runs could be restarted at any time, but while one of its files
\* is being copied (between its certificate and its key, too), after a copy that
\* was cut off until a deploy has copied them all, and once destroy has removed
\* its unit although its stop had failed.  (Careful operators.)
RunningIsRestartable ==
  \A s \in Service :
    running[s] # STOPPED /\ wanted[s] /\ ~Usable(s) =>
      Window(s) \/ s \in cut \/ (loaded[s] = ABSENT /\ s \in spared)

\* When stop has returned, what it stopped is down and will not be restarted; only
\* a service whose own systemctl stop failed can be running.
StoppedMeansDown ==
  Returning("stop") =>
    \A s \in Service \ spared : running[s] = STOPPED /\ ~wanted[s]

\* When destroy has returned no unit is left, now or after a reboot, and only a
\* service whose stop failed can be running.
DestroyedMeansGone ==
  Returning("destroy") =>
    /\ \A s \in Service : installed[s] = ABSENT /\ loaded[s] = ABSENT
    /\ \A s \in Service \ spared : running[s] = STOPPED /\ ~wanted[s]

\* Once the supplied files stay a fitting set, deploy, run again after every
\* end, brings them to every service: what runs from then on runs from them,
\* and every service comes back after each restart.
RenewalArrives ==
  <>[](\A s \in Service : pki[s]["crt"] = pki[s]["key"])
    => \A s \in Service :
         <>[](running[s] \in {Supplied(s), STOPPED}) /\ []<>(running[s] # STOPPED)
================================================================================
