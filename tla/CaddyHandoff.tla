---------------------------- MODULE CaddyHandoff ----------------------------
(***************************************************************************)
(* The shell script that tenant-ingress runs when a broker hands it its    *)
(* TLS certificate (genpolicy.rs, CADDY_DNS01_BROKER_TLS_HANDOFF_SCRIPT):  *)
(* wait for the files, run caddy, and restart it when the certificate      *)
(* changes or caddy dies.                                                  *)
(*                                                                         *)
(* Three processes share the certificate directory: the script, caddy, and *)
(* the broker, which replaces each file atomically but not the two at      *)
(* once.  A certificate is its version, 0 when there is none; one turn of  *)
(* a loop that sleeps a second is one step.                                *)
(***************************************************************************)
EXTENDS Naturals

CONSTANTS WaitLimit,   \* turns to wait for the first certificate (300)
          Period,      \* turns between two looks at the certificate (60)
          Grace,       \* turns between TERM and KILL (30)
          MaxVersion   \* bound: certificates the broker hands over

ASSUME WaitAssumption   == WaitLimit \in Nat
ASSUME PeriodAssumption == Period \in Nat \ {0}
ASSUME GraceAssumption  == Grace \in Nat
ASSUME BoundAssumption  == MaxVersion \in Nat

VARIABLES
  crt, key,   \* versions of tls.crt and tls.key
  pc,         \* where the script is
  turns,      \* i, ticks modulo Period or n, in the loop that counts it
  stamp,      \* what certstamp said before caddy was started
  caddy,      \* the caddy process
  loaded,     \* the certificate it serves
  kills       \* history variable: how often the script has stopped caddy

files  == <<crt, key>>
script == <<pc, turns, stamp, kills>>
vars   == <<crt, key, pc, turns, stamp, caddy, loaded, kills>>

Labels == {"wait", "arrived", "validate", "stamp", "start", "watch", "kill", "grace",
           "kill9", "reap", "pause", "failed", "stopped"}

Init ==
  /\ crt = 0 /\ key = 0
  /\ pc = "wait" /\ turns = 0 /\ stamp = 0 /\ kills = 0
  /\ caddy = "none" /\ loaded = 0

-----------------------------------------------------------------------------
(* The broker.                                                             *)

\* A renewal replaces both files, in either order.
WriteCrt == crt <= key /\ crt < MaxVersion /\ crt' = crt + 1 /\ UNCHANGED <<key, script, caddy, loaded>>
WriteKey == key <= crt /\ key < MaxVersion /\ key' = key + 1 /\ UNCHANGED <<crt, script, caddy, loaded>>

-----------------------------------------------------------------------------
(* The script.                                                             *)

Arrived == crt # 0 /\ key # 0
Matching == Arrived /\ crt = key

Goto(label) == pc' = label /\ turns' = 0
Again(label) == pc' = label /\ turns' = turns + 1

\* Mutant: nothing counts the turns down.
WaitForever ==
  /\ pc = "wait"
  /\ IF ~Arrived THEN Again("wait") ELSE Goto("arrived")
  /\ UNCHANGED <<files, stamp, kills, caddy, loaded>>
\* while i < 300: leave when both files are readable.
Wait ==
  /\ pc = "wait"
  /\ IF turns < WaitLimit /\ ~Arrived THEN Again("wait") ELSE Goto("arrived")
  /\ UNCHANGED <<files, stamp, kills, caddy, loaded>>

\* The last look, after the loop.
LastLook ==
  /\ pc = "arrived"
  /\ Goto(IF Arrived THEN "validate" ELSE "failed")
  /\ UNCHANGED <<files, stamp, kills, caddy, loaded>>

\* caddy validate loads the certificate that the Caddyfile names.
Validate ==
  /\ pc = "validate"
  /\ Goto(IF Matching THEN "stamp" ELSE "pause")
  /\ UNCHANGED <<files, stamp, kills, caddy, loaded>>

\* cksum tells the versions apart.
Certstamp == crt

\* Mutant: the stamp of the first certificate stays.
StampOnce ==
  /\ pc = "stamp"
  /\ stamp' = IF stamp = 0 THEN Certstamp ELSE stamp
  /\ Goto("start")
  /\ UNCHANGED <<files, kills, caddy, loaded>>
Stamp ==
  /\ pc = "stamp"
  /\ stamp' = Certstamp
  /\ Goto("start")
  /\ UNCHANGED <<files, kills, caddy, loaded>>

\* caddy run &
Start ==
  /\ pc = "start"
  /\ caddy' = "starting"
  /\ Goto("watch")
  /\ UNCHANGED <<files, stamp, kills, loaded>>

Alive == caddy # "none"

\* while kill -0: every Period turns, compare the certificate with the stamp.
Watch ==
  /\ pc = "watch"
  /\ \/ ~Alive /\ Goto("reap")
     \/ /\ Alive /\ turns + 1 = Period
        /\ Goto(IF Certstamp # stamp THEN "kill" ELSE "watch")
     \/ Alive /\ turns + 1 # Period /\ Again("watch")
  /\ UNCHANGED <<files, stamp, kills, caddy, loaded>>

Kill ==
  /\ pc = "kill"
  /\ caddy' = IF Alive THEN "stopping" ELSE caddy
  /\ kills' = kills + 1
  /\ Goto("grace")
  /\ UNCHANGED <<files, stamp, loaded>>

\* Mutant: the loop goes on as soon as the signal is sent.
AwaitNot ==
  /\ pc = "grace"
  /\ Goto("pause")
  /\ UNCHANGED <<files, stamp, kills, caddy, loaded>>
\* while kill -0 and n < 30
AwaitStop ==
  /\ pc = "grace"
  /\ IF Alive /\ turns < Grace THEN Again("grace") ELSE Goto("kill9")
  /\ UNCHANGED <<files, stamp, kills, caddy, loaded>>

\* Mutant: no kill -9.
KillNot ==
  /\ pc = "kill9"
  /\ Goto("reap")
  /\ UNCHANGED <<files, stamp, kills, caddy, loaded>>
Kill9 ==
  /\ pc = "kill9"
  /\ caddy' = "none" /\ loaded' = 0
  /\ Goto("reap")
  /\ UNCHANGED <<files, stamp, kills>>

\* wait "$caddy_pid"
Reap ==
  /\ pc = "reap" /\ ~Alive
  /\ Goto("pause")
  /\ UNCHANGED <<files, stamp, kills, caddy, loaded>>

\* sleep 5
Pause ==
  /\ pc = "pause"
  /\ Goto("validate")
  /\ UNCHANGED <<files, stamp, kills, caddy, loaded>>

Script ==
  \/ Wait \/ LastLook \/ Validate \/ Stamp \/ Start \/ Watch
  \/ Kill \/ AwaitStop \/ Kill9 \/ Reap \/ Pause

-----------------------------------------------------------------------------
(* Caddy and the container.                                                *)

\* caddy run reads the two files once; it exits when they do not match.
Load ==
  /\ caddy = "starting"
  /\ IF Matching THEN caddy' = "serving" /\ loaded' = crt
                 ELSE caddy' = "none" /\ UNCHANGED loaded
  /\ UNCHANGED <<files, script>>

\* It dies, or it stops after a TERM; it may also ignore the TERM.
Die ==
  /\ caddy \in {"serving", "stopping"}
  /\ caddy' = "none" /\ loaded' = 0
  /\ UNCHANGED <<files, script>>

\* exit 1: the kubelet starts the container again.
Restart ==
  /\ pc = "failed"
  /\ Goto("wait")
  /\ UNCHANGED <<files, stamp, kills, caddy, loaded>>

\* trap 'exit 0' TERM INT, when the Pod is deleted: caddy goes with the container.
Terminate ==
  /\ pc \notin {"failed", "stopped"}
  /\ Goto("stopped")
  /\ caddy' = "none" /\ loaded' = 0
  /\ UNCHANGED <<files, stamp, kills>>

Next == WriteCrt \/ WriteKey \/ Script \/ Load \/ Die \/ Restart \/ Terminate

Spec == Init /\ [][Next]_vars

\* The shell, a starting caddy and the kubelet run; nothing makes caddy obey a TERM,
\* and nothing makes the broker renew.
Fairness == WF_vars(Script) /\ WF_vars(Load) /\ WF_vars(Restart)
FairSpec == Spec /\ Fairness

-----------------------------------------------------------------------------
(* Properties.                                                             *)

TypeOK ==
  /\ crt \in 0 .. MaxVersion /\ key \in 0 .. MaxVersion
  /\ pc \in Labels
  /\ turns \in Nat
  /\ pc = "wait" => turns <= WaitLimit
  /\ pc = "watch" => turns < Period
  /\ pc = "grace" => turns <= Grace
  /\ pc \notin {"wait", "watch", "grace"} => turns = 0
  /\ stamp \in 0 .. MaxVersion /\ kills \in Nat
  /\ caddy \in {"none", "starting", "serving", "stopping"}
  /\ loaded \in 0 .. MaxVersion

\* The script never starts caddy beside another: whatever way the last one ended,
\* it is gone before the next is validated and started, and the port is free.
OneCaddy == Alive => pc \in {"watch", "kill", "grace", "kill9", "reap"}

\* Caddy is stopped for a reason: at most once for each renewal, however the
\* renewals fall between the stamp, the start and the looks at the file.
StopsJustified == kills = 0 \/ kills < crt

\* A certificate that stays is served in the end, whatever caddy served before, ignored
\* or died of, unless the Pod is deleted.
RenewalServed ==
  \A v \in 1 .. MaxVersion :
    crt = v /\ key = v
    ~> (caddy = "serving" /\ loaded = v) \/ crt # v \/ key # v \/ pc = "stopped"
=============================================================================
