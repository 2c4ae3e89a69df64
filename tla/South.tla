-------------------------------- MODULE South --------------------------------
(***************************************************************************)
(* libsouth_interface/south.cpp: a device, its linked list of monitors and *)
(* each monitor's linked list of targets, in a heap whose cells malloc may *)
(* hand out again after free.  Each list is kept by its head and by a      *)
(* pointer to where the next element goes (_cru, _curmon).                 *)
(*                                                                         *)
(* The caller passes pointers to live monitors, adds a monitor to the      *)
(* device once and destroys itself only monitors it has not added.  An     *)
(* allocation that fails leaves the state unchanged.                       *)
(***************************************************************************)
EXTENDS Naturals, FiniteSets, Sequences, SequencesExt

CONSTANTS
  M, T,           \* the addresses of monitors and of targets
  Names, Labels,  \* the labels of monitors, of targets
  Stats,          \* enum statu
  Null,
  AddsAfterTailDeletion
                  \* the caller adds to a list whose last element was deleted

ASSUME AddsAssumption == AddsAfterTailDeletion \in BOOLEAN
ASSUME MemoryAssumption == IsFiniteSet(M) /\ IsFiniteSet(T)

VARIABLES
  mon, mlive,     \* struct monitor at each address, the allocated ones
  tgt, tlive,     \* struct target at each address, the allocated ones
  dev,            \* the struct device, or Null
  faults          \* an access through a pointer to freed memory

vars == <<mon, mlive, tgt, tlive, dev, faults>>

MonitorStructs ==
  [_label : Names, _target : T, _cru : T, _itarget : Nat, _next : M \cup {Null}]
TargetStructs ==
  [_label : Labels \cup {Null}, _value : Stats \cup {Null}, _next : T \cup {Null}]
DeviceStructs ==
  [_monitor : M \cup {Null}, _curmon : M \cup {Null}, _imonitor : Nat]

\* A monitor as a reader of the lists sees it.
Shown ==
  [name : Names, stat : Stats \cup {Null}, targets : Seq(Labels \cup {Null})]

ASSUME NullAssumption ==
  /\ Null \notin M \cup T \cup Seq(M)
  /\ Null \notin MonitorStructs \cup TargetStructs \cup DeviceStructs \cup Shown

TypeOK ==
  /\ mlive \subseteq M /\ tlive \subseteq T
  /\ mon \in [M -> MonitorStructs \cup {Null}]
  /\ tgt \in [T -> TargetStructs \cup {Null}]
  /\ dev \in DeviceStructs \cup {Null}
  /\ \A m \in M : m \in mlive <=> mon[m] # Null
  /\ \A t \in T : t \in tlive <=> tgt[t] # Null
  /\ faults \subseteq {"freed"}

Init ==
  /\ mon = [m \in M |-> Null] /\ mlive = {}
  /\ tgt = [t \in T |-> Null] /\ tlive = {}
  /\ dev = Null
  /\ faults = {}

-----------------------------------------------------------------------------
(* The lists as a traversal finds them.                                    *)

Defined == faults = {}

\* The elements from head along the _next pointers of cell; a list that runs into
\* itself has more elements than there are cells.
Path(head, cell) ==
  LET n == Cardinality(DOMAIN cell) + 1
      at[i \in 1 .. n] ==
        IF i = 1 THEN head
        ELSE LET previous == at[i - 1]
             IN  IF previous = Null THEN Null ELSE cell[previous]._next
      length == Cardinality({i \in 1 .. n : at[i] # Null})
  IN  [i \in 1 .. length |-> at[i]]

TargetsOf(m) == Path(mon[m]._target, tgt)
MonitorsOf == IF dev = Null THEN <<>> ELSE Path(dev._monitor, mon)
Listed == ToSet(MonitorsOf)
OwnTargets(ms) == UNION {ToSet(TargetsOf(m)) : m \in ms}

\* The caller's part of AddsAfterTailDeletion.
MayAdd(list, next) ==
  AddsAfterTailDeletion \/ list = <<>> \/ next \in ToSet(list)

-----------------------------------------------------------------------------
(* Monitors.                                                               *)

monitor_new(m, t, n, s) ==
  /\ Defined /\ m \notin mlive /\ t \notin tlive
  /\ mlive' = mlive \cup {m} /\ tlive' = tlive \cup {t}
  /\ tgt' = [tgt EXCEPT ![t] = [_label |-> Null, _value |-> s, _next |-> Null]]
  /\ mon' = [mon EXCEPT ![m] = [_label |-> n, _target |-> t, _cru |-> t,
                                _itarget |-> 1, _next |-> Null]]
  /\ UNCHANGED <<dev, faults>>

\* mutant: _cru is not moved
AppendPointKept(m, t) == mon[m]._cru
AppendPoint(m, t) == t

monitor_add_target(m, t, l) ==
  /\ Defined /\ m \in mlive /\ t \notin tlive
  /\ MayAdd(TargetsOf(m), mon[m]._cru)
  /\ LET last == mon[m]._cru
         new == [tgt EXCEPT ![t] = [_label |-> l, _value |-> Null, _next |-> Null]]
     IN  IF last \in tlive \cup {t}
           THEN /\ tgt' = [new EXCEPT ![last]._next = t]
                /\ tlive' = tlive \cup {t}
                /\ mon' = [mon EXCEPT ![m]._cru = AppendPoint(m, t),
                                      ![m]._itarget = @ + 1]
                /\ UNCHANGED faults
           ELSE /\ faults' = {"freed"}
                /\ UNCHANGED <<mon, tgt, tlive>>
  /\ UNCHANGED <<mlive, dev>>

\* The search begins with the second target, the first is the one of the status.
FirstDeletable == 2

monitor_del_target(m, l) ==
  /\ Defined /\ m \in mlive
  /\ LET list == TargetsOf(m)
     IN  \E i \in FirstDeletable .. Len(list) :
           /\ tgt[list[i]]._label = l
           /\ \A j \in FirstDeletable .. i - 1 : tgt[list[j]]._label # l
           /\ tgt' = [tgt EXCEPT ![list[i - 1]]._next = tgt[list[i]]._next,
                                 ![list[i]] = Null]
           /\ tlive' = tlive \ {list[i]}
  /\ mon' = [mon EXCEPT ![m]._itarget = @ - 1]
  /\ UNCHANGED <<mlive, dev, faults>>

monitor_set_stat(m, s) ==
  /\ Defined /\ m \in mlive
  /\ tgt' = [tgt EXCEPT ![mon[m]._target]._value = s]
  /\ UNCHANGED <<mon, mlive, tlive, dev, faults>>

\* monitor_destory of the monitors ms, each with all its targets
FreeOnlyTheMonitors(ms) ==        \* mutant: the targets are forgotten
  /\ mlive' = mlive \ ms
  /\ mon' = [m \in M |-> IF m \in ms THEN Null ELSE mon[m]]
  /\ UNCHANGED <<tlive, tgt>>
Free(ms) ==
  /\ mlive' = mlive \ ms
  /\ tlive' = tlive \ OwnTargets(ms)
  /\ mon' = [m \in M |-> IF m \in ms THEN Null ELSE mon[m]]
  /\ tgt' = [t \in T |-> IF t \in OwnTargets(ms) THEN Null ELSE tgt[t]]

monitor_destory(m) ==
  /\ Defined /\ m \in mlive \ Listed
  /\ Free({m})
  /\ UNCHANGED <<dev, faults>>

-----------------------------------------------------------------------------
(* The device.                                                             *)

device_new ==
  /\ Defined /\ dev = Null
  /\ dev' = [_monitor |-> Null, _curmon |-> Null, _imonitor |-> 0]
  /\ UNCHANGED <<mon, mlive, tgt, tlive, faults>>

device_add_monitor(m) ==
  /\ Defined /\ dev # Null
  /\ m \in mlive \ Listed
  /\ MayAdd(MonitorsOf, dev._curmon)
  /\ IF dev._monitor = Null
       THEN /\ dev' = [dev EXCEPT !._monitor = m, !._curmon = m, !._imonitor = @ + 1]
            /\ UNCHANGED <<mon, faults>>
       ELSE IF dev._curmon \in mlive
       THEN /\ dev' = [dev EXCEPT !._curmon = m, !._imonitor = @ + 1]
            /\ mon' = [mon EXCEPT ![dev._curmon]._next = m]
            /\ UNCHANGED faults
       ELSE faults' = {"freed"} /\ UNCHANGED <<mon, dev>>
  /\ UNCHANGED <<mlive, tgt, tlive>>

\* The monitor is unlinked, then destroyed.
device_del_monitor(n) ==
  /\ Defined /\ dev # Null
  /\ LET list == MonitorsOf
     IN  \E i \in DOMAIN list :
           LET m == list[i]
               rest == mon[m]._next
           IN  /\ mon[m]._label = n
               /\ \A j \in 1 .. i - 1 : mon[list[j]]._label # n
               /\ dev' = [dev EXCEPT !._monitor = IF i = 1 THEN rest ELSE @,
                                     !._imonitor = @ - 1]
               /\ mlive' = mlive \ {m}
               /\ mon' = IF i = 1 THEN [mon EXCEPT ![m] = Null]
                         ELSE [mon EXCEPT ![list[i - 1]]._next = rest, ![m] = Null]
               /\ tlive' = tlive \ OwnTargets({m})
               /\ tgt' = [t \in T |-> IF t \in OwnTargets({m}) THEN Null ELSE tgt[t]]
  /\ UNCHANGED faults

device_destory ==
  /\ Defined /\ dev # Null
  /\ Free(Listed)
  /\ dev' = Null
  /\ UNCHANGED faults

-----------------------------------------------------------------------------
Next ==
  \/ \E m \in M :
       \/ \E t \in T, n \in Names, s \in Stats : monitor_new(m, t, n, s)
       \/ \E t \in T, l \in Labels : monitor_add_target(m, t, l)
       \/ \E l \in Labels : monitor_del_target(m, l)
       \/ \E s \in Stats : monitor_set_stat(m, s)
       \/ monitor_destory(m)
       \/ device_add_monitor(m)
  \/ device_new
  \/ \E n \in Names : device_del_monitor(n)
  \/ device_destory

Spec == Init /\ [][Next]_vars

-----------------------------------------------------------------------------
(* Properties.                                                             *)

\* The heap is well formed, and every allocated target belongs to one monitor's
\* list, once, and no list reaches freed memory: nothing leaks, nothing is freed
\* twice.
OneOwner ==
  /\ TypeOK
  /\ OwnTargets(mlive) = tlive
  /\ \A m \in mlive : IsInjective(TargetsOf(m))
  /\ \A m, o \in mlive : m # o => OwnTargets({m}) \cap OwnTargets({o}) = {}
  /\ Listed \subseteq mlive
  /\ IsInjective(MonitorsOf)

\* A target that monitor_add_target has added is in the list of its monitor: the
\* list has as many elements as _itarget says, and the device's as _imonitor says.
Counts ==
  /\ \A m \in mlive : mon[m]._itarget = Len(TargetsOf(m))
  /\ dev # Null => dev._imonitor = Len(MonitorsOf)

\* The pointers and the heap together are the sequences of SouthLists.
ShownMonitors ==
  [m \in M |-> IF m \notin mlive THEN Null
               ELSE [name |-> mon[m]._label,
                     stat |-> tgt[mon[m]._target]._value,
                     targets |-> [i \in 1 .. Len(TargetsOf(m)) - 1 |->
                                    tgt[TargetsOf(m)[i + 1]]._label]]]
ShownDevice == IF dev = Null THEN Null ELSE MonitorsOf

Lists == INSTANCE SouthLists WITH
  Monitors <- M, None <- Null, monitor <- ShownMonitors, device <- ShownDevice

ImplementsLists == Lists!ListSpec
===============================================================================
