------------------------------ MODULE Devices ------------------------------
(***************************************************************************)
(* The device pool of gpsd 3.16: devices[] of gpsd.c, how its main loop    *)
(* opens, polls, pauses, releases and reconnects devices, and what it      *)
(* makes of all_fds.  Clients are only what they ask for: a path is        *)
(* watched or not.  gpsd runs without -n, so that a device is opened when  *)
(* somebody watches it.                                                    *)
(*                                                                         *)
(* A source, what a path leads to, sends what and when it likes, and now   *)
(* and then a read that select promised data for finds none.  The session  *)
(* ends on a source that goes, that signs off with "# EOF", or that sends  *)
(* nothing but garbage until a hunt through all speeds has failed.  Any    *)
(* opening may find that the source is not there.                          *)
(*                                                                         *)
(* PPS threads, one for each open device with such a signal, drop clients  *)
(* and for that read all_fds, clear the client's bit and write it back,    *)
(* with nothing to keep the main loop from changing it in between.  The    *)
(* client is closed by then, and its number may be a device's already.  Of *)
(* all_fds the devices' bits are kept here; maxfd, which select is given   *)
(* with it, and what clients do to either is the module Subscribers.       *)
(* Sources behind NTRIP, and /dev/ppsX, which is opened without a          *)
(* descriptor, are left out.                                               *)
(*                                                                         *)
(* Any time may pass while select waits: after a long one every running    *)
(* timer has expired, after another each may have.  So releasetime and     *)
(* reawake are only set or not, and of opentime nothing is kept.           *)
(***************************************************************************)
EXTENDS Integers, SequencesExt

CONSTANTS
  Path,         \* names of devices
  MaxDevices,   \* MAX_DEVICES
  MaxFd,        \* the largest descriptor a device may get
  MaxCopies,    \* how many PPS threads are changing all_fds at a time
  CommandLine   \* the devices named on the command line

NoPath == "none"
Slot == 0..MaxDevices - 1
Fd == 1..MaxFd
UNALLOCATED_FD == -1

ASSUME DevicesAssumption ==
  /\ NoPath \notin Path
  /\ MaxDevices \in Nat \ {0} /\ MaxFd \in Nat /\ MaxCopies \in Nat
  /\ CommandLine \in Seq(Path) /\ Len(CommandLine) <= MaxDevices

VARIABLES
  watched,   \* the paths some client watches
  dev,       \* devices[]
  opened,    \* the descriptors open on devices
  leaked,    \* those of openings that failed and did not close them
  all_fds,
  copies,    \* what PPS threads have read of all_fds and will write back
  undone,    \* history: those of devices that PPS threads have taken out of
             \* all_fds, and the main loop has neither set nor cleared since
  main,      \* where the main loop is, what it asked select for, and
             \* whether select returned after a long time
  restarted  \* history: SIGHUP has restarted the daemon

bits == <<all_fds, undone>>
held == <<opened, leaked, bits>>
fds == <<dev, held>>
vars == <<watched, fds, copies, main, restarted>>

Device ==
  [path : Path \cup {NoPath}, fd : Fd \cup {UNALLOCATED_FD},
   typed : BOOLEAN,        \* lexer.type is not BAD_PACKET
   releasetime : BOOLEAN, reawake : BOOLEAN, zerokill : BOOLEAN]

Unused ==
  [path |-> NoPath, fd |-> UNALLOCATED_FD, typed |-> FALSE,
   releasetime |-> FALSE, reawake |-> FALSE, zerokill |-> FALSE]

\* gpsd_init; what free_device leaves in a slot counts for nothing.
Stashed(p) == [Unused EXCEPT !.path = p]

AtSelect == [at |-> "select", slot |-> 0, asked |-> {}, late |-> FALSE]

Init ==
  /\ watched = {}
  /\ dev = [d \in Slot |-> IF d < Len(CommandLine)
                           THEN Stashed(CommandLine[d + 1]) ELSE Unused]
  /\ opened = {}
  /\ leaked = {}
  /\ all_fds = {}
  /\ copies = {}
  /\ undone = {}
  /\ main = AtSelect
  /\ restarted = FALSE

-----------------------------------------------------------------------------
(* Devices, and all_fds.                                                   *)

Allocated(d) == dev[d].path # NoPath
IsOpen(d) == dev[d].fd # UNALLOCATED_FD

\* FD_SET and FD_CLR by the main loop.
Flag(fd) == all_fds' = all_fds \cup {fd} /\ undone' = undone \ {fd}
Unflag(fd) == all_fds' = all_fds \ {fd} /\ undone' = undone \ {fd}

\* FD_CLR of a client by a PPS thread: all_fds is read, and written back.
PpsRead ==
  /\ Cardinality(copies) < MaxCopies
  /\ copies' = copies \cup {all_fds}
  /\ UNCHANGED <<watched, fds, main, restarted>>

PpsWrite(copy, client) ==
  /\ copies' = copies \ {copy}
  /\ all_fds' = copy \ {client}
  /\ undone' = ((undone \cup all_fds) \ all_fds') \cap (opened \ leaked)
  /\ UNCHANGED <<watched, dev, opened, leaked, main, restarted>>

-----------------------------------------------------------------------------
(* Opening and closing.                                                    *)

Lowest == Min(Fd \ opened)

\* gpsd_deactivate.  The packet type and releasetime of a closed device count
\* for nothing, and gpsd_clear resets them when it is opened.
Deactivated(device) ==
  [device EXCEPT !.fd = UNALLOCATED_FD, !.typed = FALSE, !.releasetime = FALSE]

\* gpsd_clear of a source just opened; zerokill and reawake stay.
Cleared(device, fd) == [device EXCEPT !.fd = fd]

\* An opening that succeeds.  Any may fail, and one may leave the descriptor
\* open: gpsd_serial_open returns UNALLOCATED_FD when it cannot read the
\* settings of the terminal, and nobody closes it.
Open(d) ==
  /\ Fd \ opened # {}
  /\ dev' = [dev EXCEPT ![d] = Cleared(@, Lowest)]
  /\ opened' = opened \cup {Lowest}
  /\ Flag(Lowest)
  /\ UNCHANGED leaked

Fail(d) ==
  /\ dev' = [dev EXCEPT ![d] = Unused]
  /\ \/ UNCHANGED <<opened, leaked>>
     \/ /\ Fd \ opened # {}
        /\ opened' = opened \cup {Lowest} /\ leaked' = leaked \cup {Lowest}
  /\ UNCHANGED bits

\* awaken: a device that cannot be opened is freed.
Awaken(d) == IF IsOpen(d) THEN UNCHANGED fds ELSE Open(d) \/ Fail(d)

CloseFd(fd) == opened' = opened \ {fd} /\ leaked' = leaked

\* deactivate_device, of a device x in slot d
CloseAs(d, x) ==
  /\ dev' = [dev EXCEPT ![d] = Deactivated(x)]
  /\ CloseFd(dev[d].fd)
  /\ Unflag(dev[d].fd)

Deactivate(d) == CloseAs(d, dev[d])

-----------------------------------------------------------------------------
(* The main loop.                                                          *)

Slots(p) == {d \in Slot : dev[d].path = p}

\* Once the devices are polled, what select answered counts for nothing.
Start(phase) == [main EXCEPT !.at = phase, !.slot = 0, !.asked = {}]

\* The next slot, and then the next phase.
Onward(next) ==
  main' = IF main.slot + 1 \in Slot THEN [main EXCEPT !.slot = @ + 1] ELSE next

\* Mutant: a device is added again.
AddAgain(p) ==
  /\ Slots(NoPath) # {}
  /\ dev' = [dev EXCEPT ![Min(Slots(NoPath))] = Stashed(p)]
  /\ UNCHANGED held

\* handle_control: + stashes a device in the first free slot, - removes it.
Add(p) ==
  /\ Slots(p) = {} /\ Slots(NoPath) # {}
  /\ dev' = [dev EXCEPT ![Min(Slots(NoPath))] = Stashed(p)]
  /\ UNCHANGED held

\* Mutant: the device is freed but not deactivated.
UnplugOpen(p) ==
  /\ Slots(p) # {}
  /\ dev' = [dev EXCEPT ![Min(Slots(p))] = Unused]
  /\ UNCHANGED held

Unplug(p) ==
  /\ Slots(p) # {}
  /\ LET d == Min(Slots(p))
     IN  /\ dev' = [dev EXCEPT ![d] = Unused]
         /\ CloseFd(dev[d].fd)
         /\ Unflag(dev[d].fd)

Control == \E p \in Path : Add(p) \/ Unplug(p)

\* select returns because some of what it is asked for is readable, or because a
\* client or a command stirs it.
Await(late) ==
  /\ main.at = "select" /\ all_fds \subseteq opened
  /\ main' = [at |-> "poll", slot |-> 0, asked |-> all_fds, late |-> late]
  /\ Control \/ UNCHANGED fds
  /\ UNCHANGED <<watched, copies, restarted>>

\* Of a set with closed descriptors it returns EBADF, and those are cleared.
\* (The main loop would also free the devices they are of: there are none.)
BadDescriptors ==
  /\ main.at = "select" /\ ~(all_fds \subseteq opened)
  /\ all_fds' = all_fds \cap opened
  /\ UNCHANGED <<watched, dev, opened, leaked, undone, copies, main,
                 restarted>>

\* Nothing was read: the device pauses, or is closed when that was its second
\* chance, and then select is left to find that it is.
ZeroRead(d) ==
  IF dev[d].zerokill
  THEN /\ dev' = [dev EXCEPT ![d] = Deactivated(@)]
       /\ CloseFd(dev[d].fd)
       /\ all_fds' = all_fds /\ undone' = undone \ {dev[d].fd}
  ELSE /\ dev' = [dev EXCEPT ![d].reawake = TRUE]
       /\ Unflag(dev[d].fd)
       /\ UNCHANGED <<opened, leaked>>

Heard(device) == [device EXCEPT !.zerokill = FALSE, !.reawake = FALSE]

\* Data, whose last packet may be a good one, a bad one or not complete.
GotData(d) ==
  /\ \E good \in BOOLEAN : dev' = [dev EXCEPT ![d] = [Heard(@) EXCEPT !.typed = good]]
  /\ UNCHANGED held

\* EOF or an error, with or without data before it.
SignedOff(d) == CloseAs(d, dev[d]) \/ CloseAs(d, Heard(dev[d]))

\* Mutant: the descriptor of a reawakened device is not watched again.
ReawakenDeaf(d) ==
  /\ dev' = [dev EXCEPT ![d].reawake = FALSE, ![d].zerokill = TRUE]
  /\ UNCHANGED held

Reawaken(d) ==
  /\ dev' = [dev EXCEPT ![d].reawake = FALSE, ![d].zerokill = TRUE]
  /\ Flag(dev[d].fd)
  /\ UNCHANGED <<opened, leaked>>

\* gpsd_multipoll, and what the main loop does with its result.  The device is
\* in rfds if it is readable, and select was asked for it.
Readable(d) ==
  dev[d].fd \in main.asked /\ (ZeroRead(d) \/ GotData(d) \/ SignedOff(d))

Unreadable(d) ==
  \/ dev[d].reawake /\ Reawaken(d)
  \/ ~(dev[d].reawake /\ main.late) /\ UNCHANGED fds

Multipoll(d) == Readable(d) \/ Unreadable(d)

Poll ==
  /\ main.at = "poll"
  /\ IF Allocated(main.slot) /\ IsOpen(main.slot) THEN Multipoll(main.slot)
     ELSE UNCHANGED fds
  /\ Onward(Start("clients"))
  /\ UNCHANGED <<watched, copies, restarted>>

\* Requests of a client: WATCH of a device or of all, or the end of a watch.
Watch(p) ==
  /\ watched' = watched \cup {p}
  /\ IF Slots(p) = {} THEN UNCHANGED fds
     ELSE Awaken(Min(Slots(p)))
  /\ main' = Start("release")

\* Every device of the pool is awakened, one after the other.
WatchAll ==
  /\ watched' = Path
  /\ main' = Start("awaken")
  /\ UNCHANGED fds

AwakenEach ==
  /\ main.at = "awaken"
  /\ IF Allocated(main.slot) THEN Awaken(main.slot) ELSE UNCHANGED fds
  /\ Onward(Start("release"))
  /\ UNCHANGED <<watched, copies, restarted>>

Unwatch(p) ==
  /\ watched' = watched \ {p}
  /\ main' = Start("release")
  /\ UNCHANGED fds

NoRequest == main' = Start("release") /\ UNCHANGED <<watched, fds>>

Clients ==
  /\ main.at = "clients"
  /\ (\E p \in Path : Watch(p) \/ Unwatch(p)) \/ WatchAll \/ NoRequest
  /\ UNCHANGED <<copies, restarted>>

Needed(d) == dev[d].path \in watched

\* Mutant: whether anybody watches the device is not asked.
RetireAll(d) ==
  /\ IsOpen(d) /\ dev[d].typed
  /\ \/ /\ ~dev[d].releasetime
        /\ dev' = [dev EXCEPT ![d].releasetime = TRUE]
        /\ UNCHANGED held
     \/ dev[d].releasetime /\ Deactivate(d)

\* A device with packets that nobody watches is closed RELEASE_TIMEOUT after
\* the loop has first seen that.
Retire(d) ==
  /\ ~Needed(d) /\ IsOpen(d) /\ dev[d].typed
  /\ \/ /\ ~dev[d].releasetime
        /\ dev' = [dev EXCEPT ![d].releasetime = TRUE]
        /\ UNCHANGED held
     \/ dev[d].releasetime /\ Deactivate(d)
     \/ dev[d].releasetime /\ ~main.late /\ UNCHANGED fds

\* Mutant: not one that was killed after its second chance.
ReconnectUnkilled(d) ==
  /\ Needed(d) /\ ~IsOpen(d)
  /\ (~dev[d].zerokill /\ Awaken(d)) \/ (dev[d].zerokill /\ UNCHANGED fds)

\* One that is watched and closed is opened, DEVICE_RECONNECT after it last was.
Reconnect(d) ==
  /\ Needed(d) /\ ~IsOpen(d)
  /\ Awaken(d) \/ (~main.late /\ UNCHANGED fds)

Keep(d) ==
  /\ IF Needed(d) THEN IsOpen(d) ELSE ~(IsOpen(d) /\ dev[d].typed)
  /\ UNCHANGED fds

Release ==
  /\ main.at = "release"
  /\ LET d == main.slot
     IN  IF Allocated(d) THEN Retire(d) \/ Reconnect(d) \/ Keep(d) ELSE UNCHANGED fds
  /\ Onward(AtSelect)
  /\ UNCHANGED <<watched, copies, restarted>>

\* SIGHUP ends select: gpsd_terminate closes the devices, but leaves them in
\* the pool and in all_fds; those of the command line are stashed once more.
Restart ==
  /\ main.at = "select" /\ ~restarted
  /\ restarted' = TRUE
  /\ LET before(d) == Cardinality({e \in Slots(NoPath) : e < d})
     IN  dev' = [d \in Slot |->
                   IF ~Allocated(d) /\ before(d) < Len(CommandLine)
                   THEN Stashed(CommandLine[before(d) + 1])
                   ELSE Deactivated(dev[d])]
  /\ opened' = leaked /\ undone' = {}
  /\ UNCHANGED <<watched, leaked, all_fds, copies, main>>

Loop == Poll \/ Clients \/ AwakenEach \/ Release

Next ==
  \/ \E late \in BOOLEAN : Await(late)
  \/ BadDescriptors
  \/ Loop
  \/ PpsRead \/ (\E copy \in copies, client \in Fd \cup {UNALLOCATED_FD} : PpsWrite(copy, client))
  \/ Restart

Spec == Init /\ [][Next]_vars

-----------------------------------------------------------------------------
(* Properties.                                                             *)

\* Type invariant of the pool, the descriptors and the main loop.
TypeOK ==
  /\ watched \subseteq Path
  /\ dev \in [Slot -> Device]
  /\ opened \subseteq Fd /\ leaked \subseteq opened
  /\ all_fds \subseteq Fd /\ undone \subseteq Fd /\ copies \subseteq SUBSET Fd
  /\ main \in [at : {"select", "poll", "clients", "awaken", "release"}, slot : Slot,
               asked : SUBSET Fd, late : BOOLEAN]
  /\ restarted \in BOOLEAN

\* Every open descriptor is that of exactly one device of the pool, but for
\* those an opening has left open when it failed: none else is lost when a
\* device is removed, closed, reconnected, or the daemon restarts.
OneOwner ==
  /\ opened \ leaked = {dev[d].fd : d \in {e \in Slot : IsOpen(e)}}
  /\ \A d, e \in Slot : IsOpen(d) /\ dev[d].fd = dev[e].fd => d = e
  /\ \A d \in Slot : IsOpen(d) => Allocated(d)

\* When select waits, an open device is in all_fds, or is paused after an empty
\* read and has a time to be reawakened.  The one thing that makes a device
\* deaf is a PPS thread dropping a client: it writes back what it read of
\* all_fds before the device was added to it, or clears the number that the
\* client had and now the device has.
NoneIsDeaf ==
  main.at = "select" =>
    \A d \in Slot : IsOpen(d) => dev[d].fd \in all_fds \cup undone \/ dev[d].reawake

\* No path is in the pool twice, unless SIGHUP has stashed those of the command
\* line once more.
OnePerPath ==
  restarted \/ \A p \in Path : Cardinality(Slots(p)) <= 1

\* A device that is watched is closed by a command that removes it or by SIGHUP
\* only, or in its own turn when select has promised data for it: because the
\* session has ended, or by an empty read, when its slot has been reawakened from
\* an earlier one, of the same session or of one before that was closed.
KeptWhileWatched ==
  [][\A d \in Slot :
       IsOpen(d) /\ ~IsOpen(d)' /\ Needed(d)
         => \/ main.at = "select" /\ (restarted' # restarted \/ ~Allocated(d)')
            \/ /\ main.at = "poll" /\ main.slot = d /\ dev[d].fd \in main.asked
               /\ dev[d].zerokill \/ SignedOff(d)]_vars

\* A turn of the main loop that comes after a long time leaves no watched device
\* of the pool closed: each of them has been opened or, when that failed, freed,
\* and none that was visited is closed again while the others are.
Reconnects ==
  [][main.at = "release" /\ main.late /\ main'.at = "select"
       => \A d \in Slot : (Allocated(d) /\ Needed(d) => IsOpen(d))']_vars
=============================================================================
