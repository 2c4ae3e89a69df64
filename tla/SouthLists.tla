----------------------------- MODULE SouthLists -----------------------------
(***************************************************************************)
(* What the interface of libsouth (libsouth_interface/south.h) promises:   *)
(* a device has a sequence of monitors and a monitor a sequence of         *)
(* targets, the first of which shows its status and cannot be deleted.     *)
(* Monitors and targets are added at the end and deleted by label, the     *)
(* first of that label; what is deleted or destroyed is gone.              *)
(***************************************************************************)
EXTENDS Naturals, Sequences, SequencesExt

CONSTANTS
  Monitors,       \* what monitor_new may return
  Names,          \* labels of monitors
  Labels,         \* labels of targets
  Stats,          \* enum statu
  None            \* a monitor that does not exist, no device

VARIABLES
  monitor,        \* each monitor: its name, status and targets
  device          \* the monitors of the device, or None

listVars == <<monitor, device>>

ListInit ==
  /\ monitor = [m \in Monitors |-> None]
  /\ device = None

Exists(m) == monitor[m] # None
Listed == IF device = None THEN {} ELSE ToSet(device)

-----------------------------------------------------------------------------
NewMonitor(m, n, s) ==
  /\ ~Exists(m)
  /\ monitor' = [monitor EXCEPT ![m] = [name |-> n, stat |-> s, targets |-> <<>>]]
  /\ UNCHANGED device

AddTarget(m, l) ==
  /\ Exists(m)
  /\ monitor' = [monitor EXCEPT ![m].targets = Append(@, l)]
  /\ UNCHANGED device

DelTarget(m, l) ==
  /\ Exists(m)
  /\ LET targets == monitor[m].targets
     IN  \E i \in DOMAIN targets :
           /\ targets[i] = l
           /\ \A j \in 1 .. i - 1 : targets[j] # l
           /\ monitor' = [monitor EXCEPT ![m].targets = RemoveAt(targets, i)]
  /\ UNCHANGED device

SetStat(m, s) ==
  /\ Exists(m)
  /\ monitor' = [monitor EXCEPT ![m].stat = s]
  /\ UNCHANGED device

DestroyMonitor(m) ==
  /\ Exists(m) /\ m \notin Listed
  /\ monitor' = [monitor EXCEPT ![m] = None]
  /\ UNCHANGED device

NewDevice ==
  /\ device = None
  /\ device' = <<>>
  /\ UNCHANGED monitor

AddMonitor(m) ==
  /\ device # None
  /\ Exists(m) /\ m \notin Listed
  /\ device' = Append(device, m)
  /\ UNCHANGED monitor

DelMonitor(n) ==
  /\ device # None
  /\ \E i \in DOMAIN device :
       /\ monitor[device[i]].name = n
       /\ \A j \in 1 .. i - 1 : monitor[device[j]].name # n
       /\ device' = RemoveAt(device, i)
       /\ monitor' = [monitor EXCEPT ![device[i]] = None]

DestroyDevice ==
  /\ device # None
  /\ device' = None
  /\ monitor' = [m \in Monitors |-> IF m \in Listed THEN None ELSE monitor[m]]

ListNext ==
  \/ \E m \in Monitors :
       \/ \E n \in Names, s \in Stats : NewMonitor(m, n, s)
       \/ \E l \in Labels : AddTarget(m, l) \/ DelTarget(m, l)
       \/ \E s \in Stats : SetStat(m, s)
       \/ DestroyMonitor(m)
       \/ AddMonitor(m)
  \/ \E n \in Names : DelMonitor(n)
  \/ NewDevice
  \/ DestroyDevice

ListSpec == ListInit /\ [][ListNext]_listVars
===============================================================================
