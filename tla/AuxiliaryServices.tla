-------------------------- MODULE AuxiliaryServices --------------------------
(***************************************************************************)
(* StartNetcatListener and StartDropbearServer (lines 164-201): process    *)
(* launches through system() on detached threads.  A netcat launch goes    *)
(* through the states of the process it starts:                            *)
(*   "forked"    the detached thread exists, the shell has not run nc yet  *)
(*               (pidof does not see it);                                  *)
(*   "starting"  nc runs with TIVA_RS485_DEVICE_FILE open on its standard  *)
(*               input and output, and has not bound TIVA_TCP_PORT yet;    *)
(*   "listening" nc -l holds the port;                                     *)
(*   "exited"    the shell failed, the bind failed, or the one connection *)
(*               nc -l serves has ended.                                   *)
(* The caller's sleep(1) is not a bound on any of these steps: the check   *)
(* after it may come before or after the process starts.  A slot of Slots  *)
(* is a process table entry, reused once its process has exited.           *)
(***************************************************************************)
EXTENDS Naturals, FiniteSets

CONSTANTS
    Callers,  \* threads that call StartNetcatListener / StartDropbearServer
    Slots,    \* process table entries for the launched nc processes
    NoSlot,
    MaxScripts  \* bound on the dropbear threads not yet run

VARIABLES
    nc,        \* nc[i]: the state of the process launched in slot i
    pc,        \* where each caller is in StartNetcatListener
    mine,      \* the slot of the caller's own launch
    reported,  \* reported[i]: what the launching call logged of slot i
    dropbear,  \* the dropbear daemon: "stopped" or "running"
    scripts    \* detached threads that have not run the init script yet

vars == <<nc, pc, mine, reported, dropbear, scripts>>

NcStates == {"free", "forked", "starting", "listening", "exited"}

(* The nc processes `pidof nc` lists.                                      *)
Visible == {i \in Slots : nc[i] \in {"starting", "listening"}}

(* The launched processes that have TIVA_RS485_DEVICE_FILE open.           *)
HoldsDevice == Visible

Init ==
    /\ nc = [i \in Slots |-> "free"]
    /\ pc = [c \in Callers |-> "idle"]
    /\ mine = [c \in Callers |-> NoSlot]
    /\ reported = [i \in Slots |-> "none"]
    /\ dropbear = "stopped"
    /\ scripts = 0

-----------------------------------------------------------------------------
(* int ret = system("pidof nc"); if (ret != 0) ... else "already running". *)
PidofCheck(c) ==
    /\ pc[c] = "idle"
    /\ pc' = [pc EXCEPT ![c] = IF Visible = {} THEN "launch" ELSE "idle"]
    /\ UNCHANGED <<nc, mine, reported, dropbear, scripts>>

(* thread([]{ system("nc -l -p ..."); }).detach(); then sleep(1).          *)
Launch(c) ==
    /\ pc[c] = "launch"
    /\ \E i \in Slots :
          /\ nc[i] \in {"free", "exited"}
          /\ nc' = [nc EXCEPT ![i] = "forked"]
          /\ reported' = [reported EXCEPT ![i] = "none"]
          /\ mine' = [mine EXCEPT ![c] = i]
    /\ pc' = [pc EXCEPT ![c] = "sleeping"]
    /\ UNCHANGED <<dropbear, scripts>>

(* After the sleep: if (system("pidof nc") != 0) "Failed to start netcat  *)
(* listener" else "Netcat listener is started".                            *)
Verify(c) ==
    /\ pc[c] = "sleeping"
    /\ reported' = [reported EXCEPT ![mine[c]] =
                       IF Visible = {} THEN "failed" ELSE "started"]
    /\ pc' = [pc EXCEPT ![c] = "idle"]
    /\ mine' = [mine EXCEPT ![c] = NoSlot]
    /\ UNCHANGED <<nc, dropbear, scripts>>

(* The detached thread's shell opens the device file and runs nc, or fails *)
(* to (the redirection or the exec fails) and the thread ends.             *)
Exec(i) ==
    /\ nc[i] = "forked"
    /\ \E ok \in BOOLEAN : nc' = [nc EXCEPT ![i] = IF ok THEN "starting" ELSE "exited"]
    /\ UNCHANGED <<pc, mine, reported, dropbear, scripts>>

(* nc binds TIVA_TCP_PORT; the bind fails while another nc listens on it.  *)
Bind(i) ==
    /\ nc[i] = "starting"
    /\ nc' = [nc EXCEPT ![i] =
                 IF \E j \in Slots : nc[j] = "listening" THEN "exited" ELSE "listening"]
    /\ UNCHANGED <<pc, mine, reported, dropbear, scripts>>

(* nc -l serves one connection and exits when it closes.                   *)
Serve(i) ==
    /\ nc[i] = "listening"
    /\ nc' = [nc EXCEPT ![i] = "exited"]
    /\ UNCHANGED <<pc, mine, reported, dropbear, scripts>>

(* StartDropbearServer: the init script runs on a detached thread, and    *)
(* "Dropbear server is started" is logged at once.                         *)
StartDropbearServer(c) ==
    /\ pc[c] = "idle"
    /\ scripts < MaxScripts
    /\ scripts' = scripts + 1
    /\ UNCHANGED <<nc, pc, mine, reported, dropbear>>

(* system("/etc/init.d/dropbear start"): starts the daemon unless it runs, *)
(* or fails.                                                               *)
DropbearScript ==
    /\ scripts > 0
    /\ scripts' = scripts - 1
    /\ \E ok \in BOOLEAN : dropbear' = IF ok THEN "running" ELSE dropbear
    /\ UNCHANGED <<nc, pc, mine, reported>>

(* The daemon may die.                                                     *)
DropbearExit ==
    /\ dropbear = "running"
    /\ dropbear' = "stopped"
    /\ UNCHANGED <<nc, pc, mine, reported, scripts>>

Next ==
    \/ \E c \in Callers :
          PidofCheck(c) \/ Launch(c) \/ Verify(c) \/ StartDropbearServer(c)
    \/ \E i \in Slots : Exec(i) \/ Bind(i) \/ Serve(i)
    \/ DropbearScript \/ DropbearExit

Spec == Init /\ [][Next]_vars

-----------------------------------------------------------------------------
TypeOK ==
    /\ nc \in [Slots -> NcStates]
    /\ pc \in [Callers -> {"idle", "launch", "sleeping"}]
    /\ mine \in [Callers -> Slots \cup {NoSlot}]
    /\ reported \in [Slots -> {"none", "started", "failed"}]
    /\ dropbear \in {"stopped", "running"}
    /\ scripts \in 0 .. MaxScripts

(* At most one launched nc has TIVA_RS485_DEVICE_FILE open: the pidof test *)
(* before the launch keeps a second listener from reading the serial       *)
(* device.                                                                 *)
DeviceOpenedOnce == Cardinality(HoldsDevice) <= 1
=============================================================================
