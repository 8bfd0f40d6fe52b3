---------------------------- MODULE UsbipServer ----------------------------
(***************************************************************************)
(* The USB/IP server's lists (src/src/usbip/server.inl): what is exported, *)
(* and whose socket serves an import.  Each import runs handle_client on a *)
(* detached thread of its own; the agent's threads add and remove devices, *)
(* and a transport may cut the imports of a device it keeps exported.  What*)
(* an import does while it lasts is UrbSession's.                          *)
(*                                                                         *)
(* A device is the number of its add_device; a socket is its import.  An   *)
(* operator no action uses is a plausible mistake in the one below it.     *)
(***************************************************************************)
EXTENDS Naturals, FiniteSets

CONSTANTS BusId,
          Remover,     \* threads that remove or cut at a time
          MaxDevice,   \* bound: devices exported
          MaxImport    \* bound: imports attempted

ASSUME ServerAssumption == MaxDevice \in Nat /\ MaxImport \in Nat

Import == 1..MaxImport

VARIABLES
    exported,   \* devices_: by busid, the device, or 0
    devices,    \* devices exported so far
    ipc,        \* by import, where its thread is
    bus, dev,   \* by import, the match it copied
    active,     \* activeClients_
    shut,       \* imports whose socket was shut down
    rmv,        \* by remover, [at, bus]
    hit,        \* by remover, the sockets it copied and has yet to shut down
    slipped     \* history: imports registered when the removal had passed

listVars  == <<exported, devices>>
cutVars   == <<rmv, hit>>
serverVars == <<listVars, ipc, bus, dev, active, shut, cutVars, slipped>>

ServerTypeOK ==
    /\ exported \in [BusId -> 0..devices] /\ devices \in 0..MaxDevice
    /\ ipc \in [Import -> {"new", "matched", "loop", "left", "closing", "closed"}]
    /\ bus \in [Import -> BusId] /\ dev \in [Import -> 0..devices]
    /\ active \in [BusId -> SUBSET Import]
    /\ shut \subseteq Import /\ slipped \subseteq Import
    /\ rmv \in [Remover -> [at : {"idle", "erased", "copied"}, bus : BusId]]
    /\ hit \in [Remover -> SUBSET Import]

ServerInit ==
    /\ exported = [b \in BusId |-> 0] /\ devices = 0
    /\ ipc = [i \in Import |-> "new"]
    /\ bus \in [Import -> BusId]     \* which busid each will ask for
    /\ dev = [i \in Import |-> 0]
    /\ active = [b \in BusId |-> {}]
    /\ shut = {} /\ slipped = {}
    /\ rmv \in [Remover -> {[at |-> "idle", bus |-> b] : b \in BusId}]
    /\ hit = [r \in Remover |-> {}]

\* A busid is added once the session that had it is stopped.
AddDevice(b) ==
    /\ exported[b] = 0 /\ devices < MaxDevice
    /\ devices' = devices + 1
    /\ exported' = [exported EXCEPT ![b] = devices + 1]
    /\ UNCHANGED <<ipc, bus, dev, active, shut, cutVars, slipped>>

Goes(r, from, to, b) == rmv[r].at = from /\ rmv' = [rmv EXCEPT ![r] = [at |-> to, bus |-> b]]

\* remove_device, under devicesMutex_.
RemoveErases(r, b) ==
    /\ exported[b] # 0 /\ Goes(r, "idle", "erased", b)
    /\ exported' = [exported EXCEPT ![b] = 0]
    /\ UNCHANGED <<devices, ipc, bus, dev, active, shut, hit, slipped>>

\* detach_device: the export stays.
DetachBegins(r, b) ==
    /\ active[b] # {} /\ Goes(r, "idle", "erased", b)
    /\ UNCHANGED <<listVars, ipc, bus, dev, active, shut, hit, slipped>>

\* shutdown_active_clients, under activeClientsMutex_ ...
CutCopies(r) ==
    LET b == rmv[r].bus IN
    /\ Goes(r, "erased", "copied", b)
    /\ hit' = [hit EXCEPT ![r] = active[b]]
    /\ active' = [active EXCEPT ![b] = {}]
    /\ UNCHANGED <<listVars, ipc, bus, dev, shut, slipped>>

\* ... and after it, one by one.
CutShuts(r) ==
    /\ rmv[r].at = "copied" /\ hit[r] # {}
    /\ \E i \in hit[r] : /\ shut' = shut \cup {i}
                        /\ hit' = [hit EXCEPT ![r] = @ \ {i}]
    /\ UNCHANGED <<listVars, ipc, bus, dev, active, rmv, slipped>>

CutEnds(r) ==
    /\ hit[r] = {} /\ Goes(r, "copied", "idle", rmv[r].bus)
    /\ UNCHANGED <<listVars, ipc, bus, dev, active, shut, hit, slipped>>

Moves(i, from, to) == ipc[i] = from /\ ipc' = [ipc EXCEPT ![i] = to]

\* handle_client finds the device in its own copy of the list and answers.
ImportMatches(i) ==
    /\ exported[bus[i]] # 0 /\ Moves(i, "new", "matched")
    /\ dev' = [dev EXCEPT ![i] = exported[bus[i]]]
    /\ UNCHANGED <<listVars, bus, active, shut, cutVars, slipped>>

\* No such busid, or the answer cannot be sent.
ImportRefused(i) ==
    /\ Moves(i, "new", "closed") \/ Moves(i, "matched", "closed")
    /\ UNCHANGED <<listVars, bus, dev, active, shut, cutVars, slipped>>

\* A removal of its device that will still copy the list.
StillToCut(i) == \E r \in Remover : rmv[r].at = "erased" /\ rmv[r].bus = bus[i]

ImportRegisters(i) ==
    /\ Moves(i, "matched", "loop")
    /\ active' = [active EXCEPT ![bus[i]] = @ \cup {i}]
    /\ slipped' = IF exported[bus[i]] # dev[i] /\ ~StillToCut(i)
                  THEN slipped \cup {i} ELSE slipped
    /\ UNCHANGED <<listVars, bus, dev, shut, cutVars>>

DeafTo(i) == FALSE
\* The socket fails under urb_loop, which then joins its threads.
Shut(i) == i \in shut

\* urb_loop returns: its host has gone, or its socket is shut.
ImportLeaves(i) ==
    /\ Moves(i, "loop", "left")
    /\ UNCHANGED <<listVars, bus, dev, active, shut, cutVars, slipped>>

ImportCut(i) == Shut(i) /\ ImportLeaves(i)

WithoutAll(b, i) == {}
\* unregister_active_client takes this client out, and the entry when it is empty.
Without(b, i) == active[b] \ {i}

ImportUnregisters(i) ==
    /\ Moves(i, "left", "closing")
    /\ active' = [active EXCEPT ![bus[i]] = Without(bus[i], i)]
    /\ UNCHANGED <<listVars, bus, dev, shut, cutVars, slipped>>

ImportCloses(i) ==
    /\ Moves(i, "closing", "closed")
    /\ UNCHANGED <<listVars, bus, dev, active, shut, cutVars, slipped>>

\* Every thread is gone and no device is left to export.
ServerRests ==
    /\ \A i \in Import : ipc[i] \in {"new", "closed"}
    /\ \A r \in Remover : rmv[r].at = "idle"
    /\ UNCHANGED serverVars

CutStep(r) == CutCopies(r) \/ CutShuts(r) \/ CutEnds(r)

ServerNext ==
    \/ \E b \in BusId : \/ AddDevice(b)
                       \/ \E r \in Remover : RemoveErases(r, b) \/ DetachBegins(r, b)
    \/ \E r \in Remover : CutStep(r)
    \/ \E i \in Import : \/ ImportMatches(i) \/ ImportRefused(i) \/ ImportRegisters(i)
                        \/ ImportLeaves(i) \/ ImportUnregisters(i) \/ ImportCloses(i)
    \/ ServerRests

ServerSpec == ServerInit /\ [][ServerNext]_serverVars

\* Threads that have begun go on; no host is obliged to leave.
ServerFairSpec ==
    /\ ServerSpec
    /\ \A r \in Remover : WF_serverVars(CutStep(r))
    /\ \A i \in Import : /\ WF_serverVars(ImportRegisters(i))
                       /\ WF_serverVars(ImportCut(i))
----------------------------------------------------------------------------
(* Properties.                                                             *)

\* An import that is being served can be reached: it is in the list a removal
\* works from, or a removal has it in hand, or its socket is shut already.
ImportsInReach ==
    \A i \in Import : ipc[i] = "loop" =>
        i \in active[bus[i]] \cup shut \cup UNION {hit[r] : r \in Remover}

\* A removed device is unplugged from every host that had imported it, unless
\* the import registered after the removal had gone past.
Unplugged(i) == ipc[i] = "loop" /\ exported[bus[i]] # dev[i] /\ i \notin slipped

RemovedImportsEnd == \A i \in Import : Unplugged(i) ~> ipc[i] # "loop"

\* "cleanly remove the virtual device": no import outlasts its device.
NoImportSlips == slipped = {}

\* shutdown() is called on a socket its import still owns: the copy is used
\* after the lock, when the thread may have closed it and Windows given its
\* number to another connection.
ShutsOwnSocket ==
    \A r \in Remover : \A i \in hit[r] : ipc[i] # "closed"
============================================================================
