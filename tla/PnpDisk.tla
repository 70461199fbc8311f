------------------------------- MODULE PnpDisk -------------------------------
(***************************************************************************)
(* The plug-and-play virtual disk, driver/blk/pnp_disk_driver.{h,c}: one   *)
(* function device for each physical device of the root bus, its mount     *)
(* manager interface and its open files.  Reads, writes and controls are   *)
(* answered from constants and change nothing; they are left out.          *)
(*                                                                         *)
(* The plug-and-play manager, the lower device and the object manager are  *)
(* external: "node" is what the manager knows of a device, "os" what the   *)
(* driver has left with the system.  Every handler is one step; a START    *)
(* that the lower device keeps pending is finished in a step of its own.   *)
(***************************************************************************)
EXTENDS Integers, FiniteSets

CONSTANTS
  Pdos,         \* PhysicalDeviceObject
  MaxHandles    \* bound: open handles of a device

ASSUME DiskAssumption == MaxHandles \in Nat

VARIABLES
  fdo,      \* the extension of each function device: [exists, Started, registered]
  os,       \* [attached, name, enabled]: stack, interface name, interface state
  node,     \* the manager's state of each device
  handles   \* open handles of each device

disk == <<fdo, os, node, handles>>

NoFdo == [exists |-> FALSE, Started |-> FALSE, registered |-> FALSE]
Clean == [attached |-> FALSE, name |-> FALSE, enabled |-> FALSE]

DiskInit ==
  /\ fdo = [p \in Pdos |-> NoFdo] /\ os = [p \in Pdos |-> Clean]
  /\ node = [p \in Pdos |-> "present"] /\ handles = [p \in Pdos |-> 0]

Moves(p, from, to) == node[p] \in from /\ node' = [node EXCEPT ![p] = to]
Forwarded == UNCHANGED <<fdo, os, handles>>

-----------------------------------------------------------------------------
(* AddDevice and plug and play.                                            *)

\* The name of the device is fixed, so a second device is refused.
NameTaken == \E p \in Pdos : fdo[p].exists

\* A device that cannot be attached is deleted; one whose interface cannot be
\* registered is used without.
HdBlkAddDevice(p, created, attached, registered) ==
  /\ node[p] = "present"
  /\ IF created /\ ~NameTaken /\ attached
     THEN /\ fdo' = [fdo EXCEPT ![p] = [exists |-> TRUE, Started |-> FALSE,
                                        registered |-> registered]]
          /\ os' = [os EXCEPT ![p] = [attached |-> TRUE, name |-> registered, enabled |-> FALSE]]
          /\ node' = [node EXCEPT ![p] = "added"]
     ELSE UNCHANGED <<fdo, os, node>>
  /\ UNCHANGED handles

\* IRP_MN_START_DEVICE goes down first.  STATUS_PENDING is a success, too, and
\* that the interface could not be enabled is not noticed.
StartDevice(p, lower, enabled) ==
  /\ \/ lower = "success" /\ Moves(p, {"added", "stopped"}, "started")
     \/ lower = "pending" /\ Moves(p, {"added"}, "starting")
     \/ lower = "pending" /\ Moves(p, {"stopped"}, "restarting")
     \/ lower = "failure" /\ Moves(p, {"added"}, "failed")
     \/ lower = "failure" /\ Moves(p, {"stopped"}, "restartFailed")
  /\ IF lower # "failure"
     THEN /\ fdo' = [fdo EXCEPT ![p].Started = TRUE]
          /\ os' = [os EXCEPT ![p].enabled = @ \/ (fdo[p].registered /\ enabled)]
     ELSE UNCHANGED <<fdo, os>>
  /\ UNCHANGED handles

\* The lower device answers a pending START; the driver is not told.
StartCompleted(p, ok) ==
  /\ \/ ok /\ Moves(p, {"starting", "restarting"}, "started")
     \/ ~ok /\ Moves(p, {"starting"}, "failed")
     \/ ~ok /\ Moves(p, {"restarting"}, "restartFailed")
  /\ Forwarded

\* The queries and their cancellations, and, by the default case, STOP, are
\* passed down.  The manager refuses to remove a device with open handles.
QueryStop(p) == Moves(p, {"started"}, "stopQueried") /\ Forwarded
CancelStop(p) == Moves(p, {"stopQueried"}, "started") /\ Forwarded
StopDevice(p) == Moves(p, {"stopQueried"}, "stopped") /\ Forwarded
QueryRemove(p) == handles[p] = 0 /\ Moves(p, {"started"}, "removeQueried") /\ Forwarded
CancelRemove(p) == Moves(p, {"removeQueried"}, "started") /\ Forwarded

\* IRP_MN_SURPRISE_REMOVAL: the device is gone, or could not be started again.
SurpriseRemoval(p) ==
  /\ Moves(p, {"started", "stopQueried", "stopped", "removeQueried", "restartFailed"}, "surprise")
  /\ os' = [os EXCEPT ![p].enabled = IF fdo[p].registered THEN FALSE ELSE @]
  /\ fdo' = [fdo EXCEPT ![p].Started = FALSE]
  /\ UNCHANGED handles

\* Faulty IRP_MN_REMOVE_DEVICE: the interface is closed only when it is in use.
RemoveStarted(p) ==
  /\ handles[p] = 0
  /\ Moves(p, {"removeQueried", "surprise", "failed"}, "present")
  /\ os' = [os EXCEPT ![p] = IF fdo[p].registered /\ fdo[p].Started THEN Clean
                             ELSE [@ EXCEPT !.attached = FALSE]]
  /\ fdo' = [fdo EXCEPT ![p] = NoFdo]
  /\ UNCHANGED handles

\* IRP_MN_REMOVE_DEVICE.
RemoveDevice(p) ==
  /\ handles[p] = 0
  /\ Moves(p, {"removeQueried", "surprise", "failed"}, "present")
  /\ os' = [os EXCEPT ![p] = IF fdo[p].registered THEN Clean
                             ELSE [@ EXCEPT !.attached = FALSE]]
  /\ fdo' = [fdo EXCEPT ![p] = NoFdo]
  /\ UNCHANGED handles

-----------------------------------------------------------------------------
(* Files.                                                                  *)

HdBlkDispatchCreate(p) ==
  /\ node[p] \in {"started", "stopQueried"} /\ handles[p] < MaxHandles
  /\ handles' = [handles EXCEPT ![p] = @ + 1]
  /\ UNCHANGED <<fdo, os, node>>

HdBlkDispatchClose(p) ==
  /\ handles[p] > 0
  /\ handles' = [handles EXCEPT ![p] = @ - 1]
  /\ UNCHANGED <<fdo, os, node>>

DiskNext == \E p \in Pdos :
  \/ \E created, attached, registered \in BOOLEAN :
       HdBlkAddDevice(p, created, attached, registered)
  \/ \E lower \in {"success", "pending", "failure"}, enabled \in BOOLEAN :
       StartDevice(p, lower, enabled)
  \/ \E ok \in BOOLEAN : StartCompleted(p, ok)
  \/ QueryStop(p) \/ CancelStop(p) \/ StopDevice(p)
  \/ QueryRemove(p) \/ CancelRemove(p)
  \/ SurpriseRemoval(p) \/ RemoveDevice(p)
  \/ HdBlkDispatchCreate(p) \/ HdBlkDispatchClose(p)

DiskSpec == DiskInit /\ [][DiskNext]_disk

-----------------------------------------------------------------------------
(* Properties.                                                             *)

\* A device that is there is attached, owns the name of its interface, and has
\* it enabled only while it is Started.  One that is not there, whether it
\* was never attached, failed to start at once or after a pending START,
\* vanished or was removed, has left nothing with the system.
NothingLeftBehind ==
  \A p \in Pdos :
    IF fdo[p].exists
    THEN /\ os[p].attached
         /\ os[p].name = fdo[p].registered
         /\ os[p].enabled => fdo[p].registered /\ fdo[p].Started
    ELSE os[p] = Clean /\ handles[p] = 0
=============================================================================
