------------------------------ MODULE Lifecycle ------------------------------
(***************************************************************************)
(* The life of a device process: Interface::start (src/interface/mod.rs),  *)
(* the configuration socket in the file system (ConfigurationService::new, *)
(* get_path and drop, src/interface/config.rs) and the grim reaper, the    *)
(* thread that watches that socket (src/interface/grim_reaper.rs).         *)
(*                                                                         *)
(* Several processes for one interface name share the tunnel device, which *)
(* only one of them can hold, and the path of the socket.  A process may   *)
(* be killed at any point, and a user may remove the socket to stop a      *)
(* process, or delete the tunnel device.  The kernel's tunnel device and   *)
(* the file watcher are external.                                          *)
(***************************************************************************)
EXTENDS Option, Integers

CONSTANTS
  Processes

ASSUME LifecycleConstants == NONE \notin Processes

VARIABLES
  pc,                      \* where a process is in Interface::start
  tun,                     \* who holds the tunnel device
  lost,                    \* processes whose device was deleted under them
  file,                    \* who bound the socket at the path
  reaper,                  \* the watcher thread of a process
  signalled                \* SIGINT or SIGTERM has reached the process

lifecycleVars == <<pc, tun, lost, file, reaper, signalled>>

LifecycleInit ==
  /\ pc = [i \in Processes |-> "off"]
  /\ tun = NONE /\ lost = {} /\ file = NONE
  /\ reaper = [i \in Processes |-> "none"]
  /\ signalled = {}

Goto(i, where) == pc' = [pc EXCEPT ![i] = where]

\* Every thread that watches the file is told that it is removed.
Unlink ==
  /\ file' = NONE
  /\ reaper' = [i \in Processes |-> IF reaper[i] = "watching" THEN "told" ELSE reaper[i]]

-----------------------------------------------------------------------------
(* Interface::start *)

\* UtunStream::connect: a device that is held makes start return an error.
Connect(i) ==
  /\ pc[i] = "off" /\ tun = NONE
  /\ tun' = i
  /\ Goto(i, "connected")
  /\ UNCHANGED <<lost, file, reaper, signalled>>

\* Mutant: a socket that is there is left there.
get_path_keeps(i) ==
  /\ pc[i] = "connected"
  /\ Goto(i, "path")
  /\ UNCHANGED <<tun, lost, file, reaper, signalled>>

\* get_path: is there something a killed process left behind?
get_path(i) ==
  /\ pc[i] = "connected"
  /\ Goto(i, IF file = NONE THEN "path" ELSE "stale")
  /\ UNCHANGED <<tun, lost, file, reaper, signalled>>

\* remove_file: it fails, and with it the unwrap of get_path, when the file
\* has gone meanwhile.
RemoveStale(i) ==
  /\ pc[i] = "stale"
  /\ Goto(i, IF file = NONE THEN "start failed" ELSE "path")
  /\ IF file = NONE THEN UNCHANGED <<file, reaper>> ELSE Unlink
  /\ UNCHANGED <<tun, lost, signalled>>

\* UnixListener::bind, whose unwrap fails when the path exists, and
\* GrimReaper::spawn.
Bind(i) ==
  /\ pc[i] = "path"
  /\ IF file = NONE
     THEN file' = i /\ Goto(i, "running") /\ reaper' = [reaper EXCEPT ![i] = "sleeping"]
     ELSE Goto(i, "bind failed") /\ UNCHANGED <<file, reaper>>
  /\ UNCHANGED <<tun, lost, signalled>>

-----------------------------------------------------------------------------
(* The grim reaper's thread.  Whichever way it ends, its sender is gone.     *)

\* Mutant: the thread waits for the file to appear.
watch_when_there(i) ==
  /\ reaper[i] = "sleeping" /\ file # NONE
  /\ reaper' = [reaper EXCEPT ![i] = "watching"]
  /\ UNCHANGED <<pc, tun, lost, file, signalled>>

\* After half a second: watch the path, or panic because it is not there.
Watch(i) ==
  /\ reaper[i] = "sleeping"
  /\ reaper' = [reaper EXCEPT ![i] = IF file = NONE THEN "ended" ELSE "watching"]
  /\ UNCHANGED <<pc, tun, lost, file, signalled>>

Removed(i) ==
  /\ reaper[i] = "told"
  /\ reaper' = [reaper EXCEPT ![i] = "ended"]
  /\ UNCHANGED <<pc, tun, lost, file, signalled>>

-----------------------------------------------------------------------------
(* The end of core.run: the joined futures are dropped in their order, the   *)
(* configuration service before the streams of the tunnel device.            *)

\* The reaper, a signal, or an error on the tunnel's streams.
Stop(i) ==
  /\ pc[i] = "running"
  /\ reaper[i] = "ended" \/ i \in signalled \/ i \in lost
  /\ Goto(i, "stopping")
  /\ UNCHANGED <<tun, lost, file, reaper, signalled>>

\* Mutant: the tunnel device is released first.
drop_tunnel_first(i) ==
  /\ pc[i] = "stopping"
  /\ tun' = IF tun = i THEN NONE ELSE tun
  /\ Goto(i, IF file = NONE THEN "dropped" ELSE "removing")
  /\ UNCHANGED <<lost, file, reaper, signalled>>

\* ConfigurationService::drop: whatever is at the path is removed, if there is
\* anything, and an error ignored.
DropConfig(i) ==
  /\ pc[i] = "stopping"
  /\ Goto(i, IF file = NONE THEN "dropped" ELSE "removing")
  /\ UNCHANGED <<tun, lost, file, reaper, signalled>>

RemoveOwn(i) ==
  /\ pc[i] = "removing"
  /\ Unlink
  /\ Goto(i, "dropped")
  /\ UNCHANGED <<tun, lost, signalled>>

\* All traces of the process in the kernel are gone.
Ended(i) ==
  /\ tun' = IF tun = i THEN NONE ELSE tun
  /\ lost' = lost \ {i} /\ signalled' = signalled \ {i}
  /\ reaper' = [reaper EXCEPT ![i] = "none"]
  /\ Goto(i, "off")
  /\ UNCHANGED file

Exit(i) == pc[i] \in {"dropped", "start failed", "bind failed"} /\ Ended(i)

-----------------------------------------------------------------------------
(* The outside *)

Kill(i) == pc[i] # "off" /\ Ended(i)

Signal(i) ==
  /\ pc[i] = "running"
  /\ signalled' = signalled \cup {i}
  /\ UNCHANGED <<pc, tun, lost, file, reaper>>

RemoveSocket ==
  /\ file # NONE
  /\ Unlink
  /\ UNCHANGED <<pc, tun, lost, signalled>>

\* Of a process that runs: what a user sees and deletes.
DeleteDevice ==
  /\ tun # NONE /\ pc[tun] = "running"
  /\ lost' = lost \cup {tun}
  /\ tun' = NONE
  /\ UNCHANGED <<pc, file, reaper, signalled>>

Process(i) ==
  \/ Connect(i) \/ get_path(i) \/ RemoveStale(i) \/ Bind(i)
  \/ Watch(i) \/ Removed(i)
  \/ Stop(i) \/ DropConfig(i) \/ RemoveOwn(i) \/ Exit(i)

Outside == RemoveSocket \/ DeleteDevice \/ \E i \in Processes : Kill(i) \/ Signal(i)

LifecycleNext == Outside \/ \E i \in Processes : Process(i)

\* A process that has been started goes on, and so does its thread.
Fairness ==
  \A i \in Processes :
    /\ WF_lifecycleVars(get_path(i)) /\ WF_lifecycleVars(RemoveStale(i))
    /\ WF_lifecycleVars(Bind(i))
    /\ WF_lifecycleVars(Watch(i)) /\ WF_lifecycleVars(Removed(i))
    /\ WF_lifecycleVars(Stop(i)) /\ WF_lifecycleVars(DropConfig(i))
    /\ WF_lifecycleVars(RemoveOwn(i)) /\ WF_lifecycleVars(Exit(i))

LifecycleSpec == LifecycleInit /\ [][LifecycleNext]_lifecycleVars

LifecycleFairSpec == LifecycleSpec /\ Fairness

-----------------------------------------------------------------------------
LifecycleTypeOK ==
  /\ pc \in [Processes -> {"off", "connected", "path", "stale", "running", "stopping",
                           "removing", "dropped", "start failed", "bind failed"}]
  /\ {tun, file} \subseteq Processes \cup {NONE}
  /\ lost \cup signalled \subseteq Processes
  /\ reaper \in [Processes -> {"none", "sleeping", "watching", "told", "ended"}]

(***************************************************************************)
(* A process that comes as far as binding the socket finds the path free,  *)
(* also after another was killed at any point: the unwrap does not fail.   *)
(***************************************************************************)
PathIsFree == \A i \in Processes : pc[i] # "bind failed"

(***************************************************************************)
(* The socket of a process that runs is not removed by another process,    *)
(* neither by one that starts nor by one that still stops: unless the      *)
(* tunnel device of one of the two was deleted under it, which lets the    *)
(* other start before the first has stopped.                               *)
(***************************************************************************)
SocketKept ==
  [][\A i \in Processes :
       file = i /\ file' # i /\ pc[i] = "running" /\ i \notin lost =>
         RemoveSocket \/ \E j \in lost : RemoveOwn(j)]_lifecycleVars

(***************************************************************************)
(* Liveness: to remove the socket stops the process, whenever it happens,  *)
(* also before the reaper has begun to watch it.                           *)
(***************************************************************************)
RemovalStops ==
  \A i \in Processes : pc[i] = "running" /\ file # i ~> pc[i] # "running"
=============================================================================
