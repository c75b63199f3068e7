---------------------------- MODULE DevicesProofs ---------------------------
(***************************************************************************)
(* Proofs about the device pool: who owns a descriptor, that select never  *)
(* forgets an open device, and why a watched device is closed at all.      *)
(***************************************************************************)
EXTENDS Devices, FiniteSetTheorems, SequenceTheorems, NaturalLemmas, TLAPS

(* Facts about slots and descriptors.                                      *)

LEMMA Numbers == Slot \subseteq Nat /\ Fd \subseteq Nat /\ UNALLOCATED_FD \notin Fd /\ 0 \in Slot
BY DevicesAssumption DEF Slot, Fd, UNALLOCATED_FD

LEMMA FirstSlot ==
  ASSUME NEW p, Slots(p) # {}
  PROVE  Min(Slots(p)) \in Slot /\ dev[Min(Slots(p))].path = p
BY MinIsLeast, Numbers DEF Slots

LEMMA LowestIsFree ==
  ASSUME Fd \ opened # {}
  PROVE  Lowest \in Fd \ opened
<1>1. Fd \ opened \subseteq Nat
  BY Numbers
<1> QED
  BY <1>1, MinIsLeast DEF Lowest

LEMMA UnusedIsDevice ==
  /\ Unused \in Device /\ Unused.path = NoPath /\ Unused.fd = UNALLOCATED_FD
  /\ \A p \in Path : /\ Stashed(p) \in Device /\ Stashed(p).path = p
                     /\ Stashed(p).fd = UNALLOCATED_FD
BY DEF Unused, Device, Stashed

LEMMA ClosedDevice ==
  ASSUME NEW x \in Device
  PROVE  /\ Deactivated(x) \in Device /\ Deactivated(x).path = x.path
         /\ Deactivated(x).fd = UNALLOCATED_FD
BY DEF Device, Deactivated

LEMMA HeardDevice ==
  ASSUME NEW x \in Device
  PROVE  Heard(x) \in Device /\ Heard(x).path = x.path /\ Heard(x).fd = x.fd
BY DEF Device, Heard
-----------------------------------------------------------------------------
(* The inductive invariant.                                                *)

FdsOK ==
  /\ dev \in [Slot -> Device]
  /\ opened \subseteq Fd /\ leaked \subseteq opened
  /\ all_fds \subseteq Fd /\ undone \subseteq Fd

(* What the main loop has in all_fds, unless a PPS thread has undone that. *)
Flagged == all_fds \cup undone

(* An open device is listened to or has a time to be reawakened, whatever  *)
(* the main loop is doing.                                                 *)
Listening == \A d \in Slot : IsOpen(d) => dev[d].fd \in Flagged \/ dev[d].reawake

FdsInv == FdsOK /\ OneOwner /\ Listening

(* No slot that the loop has still to poll lost its descriptor from        *)
(* all_fds since select was asked for it: every slot removes only its own. *)
StillHeard(from) ==
  \A d \in Slot :
    d >= from /\ IsOpen(d) /\ dev[d].fd \in main.asked => dev[d].fd \in Flagged

Polling == main.at = "poll" => StillHeard(main.slot)

(* After a long time the loop has left no watched device closed.           *)
Served(d) == Allocated(d) /\ Needed(d) => IsOpen(d)

Visited ==
  main.at = "release" /\ main.late => \A d \in Slot : d < main.slot => Served(d)

DevicesInv == TypeOK /\ FdsInv /\ Polling /\ Visited

(* No path is in the pool twice.                                           *)
Unique == \A d, e \in Slot : Allocated(d) /\ dev[d].path = dev[e].path => d = e

(* Four ways to change one slot: a closed one is opened, an opening of a   *)
(* closed one fails and leaks a descriptor, an open one is closed (or a    *)
(* closed one stays so), and one keeps its descriptor.                     *)
Opens(d, x, f) ==
  /\ x \in Device /\ x.path = dev[d].path /\ x.fd = f /\ f \in Fd \ opened
  /\ ~IsOpen(d) /\ Allocated(d)
  /\ dev' = [dev EXCEPT ![d] = x]
  /\ opened' = opened \cup {f} /\ leaked' = leaked /\ Flag(f)

Leaks(d, f) ==
  /\ ~IsOpen(d) /\ f \in Fd \ opened
  /\ dev' = [dev EXCEPT ![d] = Unused]
  /\ opened' = opened \cup {f} /\ leaked' = leaked \cup {f} /\ UNCHANGED bits

Closes(d, x) ==
  /\ x \in Device /\ x.fd = UNALLOCATED_FD
  /\ dev' = [dev EXCEPT ![d] = x]
  /\ CloseFd(dev[d].fd)
  /\ all_fds' = all_fds \/ all_fds' = all_fds \ {dev[d].fd}
  /\ undone' = undone \ {dev[d].fd}

Keeps(d, x) ==
  /\ x \in Device /\ x.fd = dev[d].fd /\ x.path = dev[d].path
  /\ dev' = [dev EXCEPT ![d] = x]
  /\ opened' = opened /\ leaked' = leaked
  /\ UNCHANGED bits \/ Unflag(dev[d].fd) \/ (IsOpen(d) /\ Flag(dev[d].fd))
  /\ IsOpen(d) => dev[d].fd \in Flagged' \/ x.reawake

LEMMA OpensInv ==
  ASSUME FdsInv, NEW d \in Slot, NEW x, NEW f, Opens(d, x, f)
  PROVE  FdsInv'
<1> USE DEF FdsInv, FdsOK, Opens, Flag
<1>1. \A e \in Slot : dev'[e] = IF e = d THEN x ELSE dev[e]
  OBVIOUS
<1>2. FdsOK'
  OBVIOUS
<1>3. f # UNALLOCATED_FD /\ \A e \in Slot : dev[e].fd # f
  BY Numbers DEF OneOwner, IsOpen, UNALLOCATED_FD
<1>4. \A e \in Slot : IsOpen(e)' <=> e = d \/ IsOpen(e)
  BY <1>1, <1>3 DEF IsOpen
<1>5. OneOwner'
  <2>1. opened' \ leaked' = (opened \ leaked) \cup {f}
    OBVIOUS
  <2>2. opened' \ leaked' = {dev[e].fd : e \in {e \in Slot : IsOpen(e)}}'
    BY <1>1, <1>4, <2>1 DEF OneOwner
  <2>3. \A e, k \in Slot : IsOpen(e)' /\ dev'[e].fd = dev'[k].fd => e = k
    BY <1>1, <1>3, <1>4 DEF OneOwner
  <2>4. \A e \in Slot : IsOpen(e)' => Allocated(e)'
    BY <1>1, <1>4 DEF OneOwner, Allocated
  <2> QED
    BY <2>2, <2>3, <2>4 DEF OneOwner
<1>6. Listening'
  BY <1>1, <1>3, <1>4 DEF Listening, Flagged
<1> QED
  BY <1>2, <1>5, <1>6

LEMMA LeaksInv ==
  ASSUME FdsInv, NEW d \in Slot, NEW f, Leaks(d, f)
  PROVE  FdsInv'
<1> USE DEF FdsInv, FdsOK, Leaks, bits
<1>1. \A e \in Slot : dev'[e] = IF e = d THEN Unused ELSE dev[e]
  OBVIOUS
<1>2. FdsOK'
  BY UnusedIsDevice
<1>3. \A e \in Slot : IsOpen(e)' <=> IsOpen(e)
  BY <1>1, UnusedIsDevice DEF IsOpen
<1>4. OneOwner'
  <2>1. opened' \ leaked' = opened \ leaked
    OBVIOUS
  <2>2. opened' \ leaked' = {dev[e].fd : e \in {e \in Slot : IsOpen(e)}}'
    BY <1>1, <1>3, <2>1 DEF OneOwner
  <2>3. \A e, k \in Slot : IsOpen(e)' /\ dev'[e].fd = dev'[k].fd => e = k
    BY <1>1, <1>3, UnusedIsDevice DEF OneOwner, IsOpen
  <2>4. \A e \in Slot : IsOpen(e)' => Allocated(e)'
    BY <1>1, <1>3 DEF OneOwner, Allocated
  <2> QED
    BY <2>2, <2>3, <2>4 DEF OneOwner
<1>5. Listening'
  BY <1>1, <1>3 DEF Listening, Flagged
<1> QED
  BY <1>2, <1>4, <1>5

LEMMA ClosesInv ==
  ASSUME FdsInv, NEW d \in Slot, NEW x, Closes(d, x)
  PROVE  FdsInv'
<1> USE DEF FdsInv, FdsOK, Closes
<1>1. \A e \in Slot : dev'[e] = IF e = d THEN x ELSE dev[e]
  OBVIOUS
<1>2. /\ opened' = opened \ {dev[d].fd} /\ leaked' = leaked
      /\ Flagged \ {dev[d].fd} \subseteq Flagged'
  BY DEF CloseFd, Flagged
<1>3. dev[d].fd \notin leaked
  <2>1. CASE IsOpen(d)
    BY <2>1 DEF OneOwner
  <2>2. CASE ~IsOpen(d)
    BY <2>2, Numbers DEF IsOpen
  <2> QED
    BY <2>1, <2>2
<1>4. FdsOK'
  BY <1>2, <1>3
<1>5. \A e \in Slot : IsOpen(e)' <=> e # d /\ IsOpen(e)
  BY <1>1 DEF IsOpen
<1>6. \A e \in Slot : IsOpen(e) /\ e # d => dev[e].fd # dev[d].fd
  BY DEF OneOwner
<1>7. OneOwner'
  <2>1. opened' \ leaked' = {dev[e].fd : e \in {e \in Slot : IsOpen(e) /\ e # d}}
    <3>1. opened \ leaked = {dev[e].fd : e \in {e \in Slot : IsOpen(e)}}
      BY DEF OneOwner
    <3> QED
      BY <1>2, <1>6, <3>1
  <2>2. opened' \ leaked' = {dev[e].fd : e \in {e \in Slot : IsOpen(e)}}'
    BY <1>1, <1>5, <2>1
  <2>3. \A e, k \in Slot : IsOpen(e)' /\ dev'[e].fd = dev'[k].fd => e = k
    BY <1>1, <1>5, <1>6 DEF OneOwner, IsOpen
  <2>4. \A e \in Slot : IsOpen(e)' => Allocated(e)'
    BY <1>1, <1>5 DEF OneOwner, Allocated
  <2> QED
    BY <2>2, <2>3, <2>4 DEF OneOwner
<1>8. Listening'
  BY <1>1, <1>2, <1>5, <1>6 DEF Listening
<1> QED
  BY <1>4, <1>7, <1>8

LEMMA KeepsInv ==
  ASSUME FdsInv, NEW d \in Slot, NEW x, Keeps(d, x)
  PROVE  FdsInv'
<1> USE DEF FdsInv, FdsOK, Keeps
<1>1. /\ \A e \in Slot : dev'[e] = IF e = d THEN x ELSE dev[e]
      /\ \A e \in Slot : dev'[e].fd = dev[e].fd /\ dev'[e].path = dev[e].path
  OBVIOUS
<1>2. \A e \in Slot : (IsOpen(e)' <=> IsOpen(e)) /\ (Allocated(e)' <=> Allocated(e))
  BY <1>1 DEF IsOpen, Allocated
<1>3. all_fds' \subseteq Fd /\ undone' \subseteq Fd
  BY DEF Device, IsOpen, bits, Flag, Unflag
<1>4. FdsOK'
  BY <1>3
<1>5. OneOwner'
  BY <1>1, <1>2 DEF OneOwner
<1>6. \A e \in Slot : IsOpen(e) /\ e # d => dev[e].fd # dev[d].fd
  BY DEF OneOwner
<1>7. Flagged \ {dev[d].fd} \subseteq Flagged'
  BY DEF Flagged, bits, Flag, Unflag
<1>8. Listening'
  BY <1>1, <1>2, <1>6, <1>7 DEF Listening
<1> QED
  BY <1>4, <1>5, <1>8

(* Which of the four the operations of the main loop are.                  *)
LEMMA AwakenChange ==
  ASSUME FdsInv, NEW d \in Slot, Allocated(d), Awaken(d)
  PROVE  \/ UNCHANGED fds
         \/ Closes(d, Unused) /\ ~IsOpen(d)
         \/ \E f : Leaks(d, f)
         \/ \E x, f : Opens(d, x, f)
<1>1. CASE IsOpen(d)
  BY <1>1 DEF Awaken
<1>2. CASE ~IsOpen(d) /\ Open(d)
  <2>1. Lowest \in Fd \ opened
    BY <1>2, LowestIsFree DEF Open
  <2>2. /\ Cleared(dev[d], Lowest) \in Device /\ Cleared(dev[d], Lowest).path = dev[d].path
        /\ Cleared(dev[d], Lowest).fd = Lowest
    BY <2>1 DEF Cleared, Device, FdsInv, FdsOK
  <2>3. Opens(d, Cleared(dev[d], Lowest), Lowest)
    BY <1>2, <2>1, <2>2 DEF Open, Opens
  <2> QED
    BY <2>3
<1>3. CASE ~IsOpen(d) /\ Fail(d)
  <2>1. CASE UNCHANGED <<opened, leaked>>
    <3>1. CloseFd(dev[d].fd) /\ undone' = undone \ {dev[d].fd} /\ all_fds' = all_fds
      BY <1>3, <2>1, Numbers DEF Fail, CloseFd, IsOpen, bits, FdsInv, FdsOK
    <3> QED
      BY <1>3, <3>1, UnusedIsDevice DEF Fail, Closes
  <2>2. CASE /\ Fd \ opened # {}
             /\ opened' = opened \cup {Lowest} /\ leaked' = leaked \cup {Lowest}
    BY <1>3, <2>2, LowestIsFree DEF Fail, Leaks
  <2> QED
    BY <1>3, <2>1, <2>2 DEF Fail
<1> QED
  BY <1>1, <1>2, <1>3 DEF Awaken

LEMMA CloseAsChange ==
  ASSUME FdsInv, NEW d \in Slot, NEW x \in Device, x.path = dev[d].path, CloseAs(d, x)
  PROVE  Closes(d, Deactivated(x)) /\ Deactivated(x).path = dev[d].path
BY ClosedDevice DEF CloseAs, Closes, Unflag

LEMMA DeactivateChange ==
  ASSUME FdsInv, NEW d \in Slot, Deactivate(d)
  PROVE  Closes(d, Deactivated(dev[d])) /\ Deactivated(dev[d]).path = dev[d].path
<1>1. dev[d] \in Device
  BY DEF FdsInv, FdsOK
<1> QED
  BY <1>1, CloseAsChange DEF Deactivate

LEMMA SignedOffChange ==
  ASSUME FdsInv, NEW d \in Slot, SignedOff(d)
  PROVE  \E x : Closes(d, x) /\ x.path = dev[d].path
<1>1. dev[d] \in Device
  BY DEF FdsInv, FdsOK
<1>2. Heard(dev[d]) \in Device /\ Heard(dev[d]).path = dev[d].path
  BY <1>1, HeardDevice
<1> QED
  BY <1>1, <1>2, CloseAsChange DEF SignedOff

LEMMA ZeroReadChange ==
  ASSUME FdsInv, NEW d \in Slot, ZeroRead(d)
  PROVE  \/ dev[d].zerokill /\ Closes(d, Deactivated(dev[d]))
         \/ Keeps(d, [dev[d] EXCEPT !.reawake = TRUE])
<1>1. dev[d] \in Device
  BY DEF FdsInv, FdsOK
<1>2. CASE dev[d].zerokill
  BY <1>1, <1>2, ClosedDevice DEF ZeroRead, Closes
<1>3. CASE ~dev[d].zerokill
  <2> DEFINE x == [dev[d] EXCEPT !.reawake = TRUE]
  <2>1. x \in Device /\ x.fd = dev[d].fd /\ x.path = dev[d].path /\ x.reawake
    BY <1>1 DEF Device
  <2>2. dev' = [dev EXCEPT ![d] = x] /\ Unflag(dev[d].fd)
        /\ opened' = opened /\ leaked' = leaked
    BY <1>3 DEF ZeroRead
  <2> HIDE DEF x
  <2>3. Keeps(d, x)
    BY <2>1, <2>2 DEF Keeps
  <2> QED
    BY <2>3 DEF x
<1> QED
  BY <1>2, <1>3

LEMMA GotDataChange ==
  ASSUME FdsInv, NEW d \in Slot, dev[d].fd \in Flagged, GotData(d)
  PROVE  \E x : Keeps(d, x)
<1>1. dev[d] \in Device
  BY DEF FdsInv, FdsOK
<1>2. PICK good \in BOOLEAN : dev' = [dev EXCEPT ![d] = [Heard(@) EXCEPT !.typed = good]]
  BY DEF GotData
<1> DEFINE x == [Heard(dev[d]) EXCEPT !.typed = good]
<1>3. x \in Device /\ x.fd = dev[d].fd /\ x.path = dev[d].path
  BY <1>1, HeardDevice DEF Device
<1>4. dev' = [dev EXCEPT ![d] = x]
  BY <1>2 DEF FdsInv, FdsOK
<1> HIDE DEF x
<1>5. UNCHANGED <<opened, leaked, bits>> /\ Flagged' = Flagged
  BY DEF GotData, held, bits, Flagged
<1>6. Keeps(d, x)
  BY <1>3, <1>4, <1>5 DEF Keeps
<1> QED
  BY <1>6

LEMMA ReawakenChange ==
  ASSUME FdsInv, NEW d \in Slot, IsOpen(d), Reawaken(d)
  PROVE  \E x : Keeps(d, x)
<1>1. dev[d] \in Device
  BY DEF FdsInv, FdsOK
<1> DEFINE x == [dev[d] EXCEPT !.reawake = FALSE, !.zerokill = TRUE]
<1>2. x \in Device /\ x.fd = dev[d].fd /\ x.path = dev[d].path
  BY <1>1 DEF Device
<1>3. dev' = [dev EXCEPT ![d] = x]
  BY DEF FdsInv, FdsOK, Reawaken
<1> HIDE DEF x
<1>4. Flag(dev[d].fd) /\ dev[d].fd \in Flagged'
  BY DEF Reawaken, Flag, Flagged
<1>5. Keeps(d, x)
  BY <1>2, <1>3, <1>4 DEF Keeps, Reawaken
<1> QED
  BY <1>5

LEMMA RetireChange ==
  ASSUME FdsInv, NEW d \in Slot, Retire(d)
  PROVE  \/ UNCHANGED fds
         \/ Closes(d, Deactivated(dev[d])) /\ Deactivated(dev[d]).path = dev[d].path
         \/ \E x : Keeps(d, x)
<1>1. CASE Deactivate(d)
  BY <1>1, DeactivateChange
<1>2. CASE dev' = [dev EXCEPT ![d].releasetime = TRUE] /\ UNCHANGED held
  <2>1. dev[d] \in Device
    BY DEF FdsInv, FdsOK
  <2> DEFINE x == [dev[d] EXCEPT !.releasetime = TRUE]
  <2>2. x \in Device /\ x.fd = dev[d].fd /\ x.path = dev[d].path /\ x.reawake = dev[d].reawake
    BY <2>1 DEF Device
  <2>3. dev' = [dev EXCEPT ![d] = x]
    BY <1>2 DEF FdsInv, FdsOK
  <2>4. IsOpen(d) => dev[d].fd \in Flagged \/ dev[d].reawake
    BY DEF FdsInv, Listening
  <2> HIDE DEF x
  <2>5. UNCHANGED <<opened, leaked, bits>> /\ Flagged' = Flagged
    BY <1>2 DEF held, bits, Flagged
  <2>6. Keeps(d, x)
    BY <2>2, <2>3, <2>4, <2>5 DEF Keeps
  <2> QED
    BY <2>6
<1> QED
  BY <1>1, <1>2 DEF Retire

(* How one slot changes.  A new path in it was in no slot before.          *)
Shut(d) ==
  \E x : /\ Closes(d, x)
         /\ x.path \in {dev[d].path, NoPath} \/ Slots(x.path) = {}

Kept(d) == \E x : Keeps(d, x)

Lost(d) == \E f : Leaks(d, f)

Opened(d) == \E x, f : Opens(d, x, f)

LEMMA ChangeInv ==
  ASSUME FdsInv, NEW d \in Slot,
         UNCHANGED fds \/ Shut(d) \/ Kept(d) \/ Lost(d) \/ Opened(d)
  PROVE  FdsInv'
<1>1. CASE UNCHANGED fds
  BY <1>1 DEF fds, held, bits, FdsInv, FdsOK, OneOwner, Listening, Flagged, IsOpen, Allocated
<1>2. CASE Shut(d)
  BY <1>2, ClosesInv DEF Shut
<1>3. CASE Kept(d)
  BY <1>3, KeepsInv DEF Kept
<1>4. CASE Lost(d)
  BY <1>4, LeaksInv DEF Lost
<1>5. CASE Opened(d)
  BY <1>5, OpensInv DEF Opened
<1> QED
  BY <1>1, <1>2, <1>3, <1>4, <1>5

(* No slot but one changes.                                                *)
LEMMA OthersStay ==
  ASSUME FdsInv, NEW d \in Slot,
         UNCHANGED fds \/ Shut(d) \/ Kept(d) \/ Lost(d) \/ Opened(d)
  PROVE  \A e \in Slot : e # d => dev'[e] = dev[e]
<1>1. dev \in [Slot -> Device]
  BY DEF FdsInv, FdsOK
<1>2. dev' = dev \/ \E x : dev' = [dev EXCEPT ![d] = x]
  BY DEF fds, Shut, Closes, Kept, Keeps, Lost, Leaks, Opened, Opens
<1> QED
  BY <1>1, <1>2

(* What does not open the slot takes nothing from the others.              *)
LEMMA OthersHeard ==
  ASSUME FdsInv, NEW d \in Slot, UNCHANGED fds \/ Shut(d) \/ Kept(d)
  PROVE  \A e \in Slot :
           e # d => /\ dev'[e] = dev[e]
                    /\ IsOpen(e) /\ dev[e].fd \in Flagged => dev[e].fd \in Flagged'
<1>1. \A e \in Slot : IsOpen(e) /\ e # d => dev[e].fd # dev[d].fd
  BY DEF FdsInv, OneOwner
<1>2. Flagged \ {dev[d].fd} \subseteq Flagged'
  BY DEF fds, held, bits, Shut, Closes, Kept, Keeps, Flag, Unflag, Flagged
<1> QED
  BY <1>1, <1>2, OthersStay

LEMMA ChangeUnique ==
  ASSUME FdsInv, Unique, NEW d \in Slot,
         UNCHANGED fds \/ Shut(d) \/ Kept(d) \/ Lost(d) \/ Opened(d)
  PROVE  Unique'
<1>1. dev \in [Slot -> Device]
  BY DEF FdsInv, FdsOK
<1>2. CASE UNCHANGED fds
  BY <1>2 DEF fds, Unique, Allocated
<1>3. ASSUME NEW x, dev' = [dev EXCEPT ![d] = x],
             x.path \in {dev[d].path, NoPath} \/ Slots(x.path) = {}
      PROVE  Unique'
  <2>1. \A e \in Slot : dev'[e] = IF e = d THEN x ELSE dev[e]
    BY <1>1, <1>3
  <2>2. CASE x.path = dev[d].path
    <3>1. \A e \in Slot : dev'[e].path = dev[e].path
      BY <2>1, <2>2
    <3> QED
      BY <3>1 DEF Unique, Allocated
  <2>3. CASE x.path = NoPath
    BY <2>1, <2>3 DEF Unique, Allocated
  <2>4. CASE Slots(x.path) = {}
    BY <2>1, <2>4 DEF Unique, Allocated, Slots
  <2> QED
    BY <1>3, <2>2, <2>3, <2>4
<1>4. CASE Shut(d)
  BY <1>3, <1>4 DEF Shut, Closes
<1>5. CASE Kept(d)
  BY <1>3, <1>5 DEF Kept, Keeps
<1>6. CASE Lost(d)
  BY <1>3, <1>6, UnusedIsDevice DEF Lost, Leaks
<1>7. CASE Opened(d)
  BY <1>3, <1>7 DEF Opened, Opens
<1> QED
  BY <1>2, <1>4, <1>5, <1>6, <1>7

LEMMA AwakenIs ==
  ASSUME FdsInv, NEW d \in Slot, Allocated(d), Awaken(d)
  PROVE  /\ UNCHANGED fds \/ Shut(d) \/ Lost(d) \/ Opened(d)
         /\ Allocated(d)' => IsOpen(d)'
<1>1. UNCHANGED fds \/ Shut(d) \/ Lost(d) \/ Opened(d)
  BY AwakenChange, UnusedIsDevice DEF Shut, Lost, Opened
<1>2. dev \in [Slot -> Device]
  BY DEF FdsInv, FdsOK
<1>3. ASSUME Allocated(d)'
      PROVE  IsOpen(d)'
  <2>1. CASE IsOpen(d)
    BY <2>1 DEF Awaken, fds, IsOpen
  <2>2. CASE Open(d)
    <3>1. Lowest \in Fd
      BY <2>2, LowestIsFree DEF Open
    <3>2. dev'[d] = Cleared(dev[d], Lowest)
      BY <1>2, <2>2 DEF Open
    <3>3. Cleared(dev[d], Lowest).fd = Lowest
      BY <1>2 DEF Cleared, Device
    <3>4. dev'[d].fd # UNALLOCATED_FD
      BY <3>1, <3>2, <3>3, Numbers
    <3> QED
      BY <3>4 DEF IsOpen, UNALLOCATED_FD
  <2>3. CASE Fail(d)
    <3>1. dev'[d] = Unused
      BY <1>2, <2>3 DEF Fail
    <3> QED
      BY <1>3, <3>1, UnusedIsDevice DEF Allocated
  <2> QED
    BY <2>1, <2>2, <2>3 DEF Awaken
<1> QED
  BY <1>1, <1>3

LEMMA RetireIs ==
  ASSUME FdsInv, NEW d \in Slot, Retire(d)
  PROVE  UNCHANGED fds \/ Shut(d) \/ Kept(d)
BY RetireChange DEF Shut, Kept

LEMMA AddIs ==
  ASSUME FdsInv, NEW p \in Path, Add(p)
  PROVE  \E d \in Slot : Shut(d) /\ ~IsOpen(d)
<1> DEFINE d == Min(Slots(NoPath))
<1>1. d \in Slot /\ dev[d].path = NoPath
  BY FirstSlot DEF Add
<1>2. ~IsOpen(d) /\ dev[d].fd = UNALLOCATED_FD
  BY <1>1 DEF FdsInv, OneOwner, IsOpen, Allocated
<1>3. /\ CloseFd(dev[d].fd) /\ all_fds' = all_fds /\ undone' = undone \ {dev[d].fd}
      /\ Slots(p) = {}
  BY <1>2, Numbers DEF Add, CloseFd, held, bits, FdsInv, FdsOK
<1>4. dev' = [dev EXCEPT ![d] = Stashed(p)]
  BY DEF Add
<1> HIDE DEF d
<1>5. Closes(d, Stashed(p)) /\ Slots(Stashed(p).path) = {}
  BY <1>3, <1>4, UnusedIsDevice DEF Closes
<1> QED
  BY <1>1, <1>2, <1>5 DEF Shut

LEMMA UnplugIs ==
  ASSUME FdsInv, NEW p \in Path, Unplug(p)
  PROVE  \E d \in Slot : Shut(d) /\ ~Allocated(d)'
<1> DEFINE d == Min(Slots(p))
<1>1. d \in Slot
  BY FirstSlot DEF Unplug
<1>2. dev' = [dev EXCEPT ![d] = Unused] /\ CloseFd(dev[d].fd) /\ Unflag(dev[d].fd)
  BY DEF Unplug
<1> HIDE DEF d
<1>3. Closes(d, Unused) /\ Unused.path = NoPath
  BY <1>2, UnusedIsDevice DEF Closes, Unflag
<1>4. dev'[d] = Unused
  BY <1>1, <1>2 DEF FdsInv, FdsOK
<1> QED
  BY <1>1, <1>3, <1>4 DEF Shut, Allocated

(* A descriptor that is polled with data is in all_fds, or was taken out   *)
(* by a PPS thread, so that putting off its reawakening cannot make it     *)
(* deaf.                                                                   *)
LEMMA MultipollIs ==
  ASSUME FdsInv, NEW d \in Slot, IsOpen(d), StillHeard(d), Multipoll(d)
  PROVE  UNCHANGED fds \/ Shut(d) \/ Kept(d)
<1>1. CASE ZeroRead(d)
  <2>1. dev[d] \in Device
    BY DEF FdsInv, FdsOK
  <2> QED
    BY <1>1, <2>1, ZeroReadChange, ClosedDevice DEF Shut, Kept
<1>2. CASE SignedOff(d)
  BY <1>2, SignedOffChange DEF Shut
<1>3. CASE dev[d].fd \in main.asked /\ GotData(d)
  <2>1. dev[d].fd \in Flagged
    BY <1>3, Numbers DEF StillHeard
  <2> QED
    BY <1>3, <2>1, GotDataChange DEF Kept
<1>4. CASE Reawaken(d)
  BY <1>4, ReawakenChange DEF Kept
<1> QED
  BY <1>1, <1>2, <1>3, <1>4 DEF Multipoll, Readable, Unreadable
-----------------------------------------------------------------------------
(* One lemma for each action.                                              *)

MainType ==
  [at : {"select", "poll", "clients", "awaken", "release"}, slot : Slot,
   asked : SUBSET Fd, late : BOOLEAN]

LEMMA NextSlot ==
  ASSUME TypeOK, NEW next, Onward(next)
  PROVE  \/ main.slot + 1 \in Slot /\ main' = [main EXCEPT !.slot = @ + 1]
         \/ main.slot + 1 \notin Slot /\ main' = next
BY DEF Onward

LEMMA StartIsMain ==
  ASSUME TypeOK, NEW phase \in {"select", "poll", "clients", "awaken", "release"}
  PROVE  /\ Start(phase) \in MainType
         /\ Start(phase).at = phase /\ Start(phase).slot = 0
BY Numbers DEF TypeOK, Start, MainType

LEMMA AtSelectIsMain == AtSelect \in MainType /\ AtSelect.at = "select"
BY Numbers DEF AtSelect, MainType

(* Before the first slot there is none.                                    *)
LEMMA NoneBefore == \A d \in Slot : ~(d < 0)
BY DevicesAssumption DEF Slot

LEMMA AwaitSafe ==
  ASSUME DevicesInv, NEW late \in BOOLEAN, Await(late)
  PROVE  DevicesInv' /\ (Unique => Unique')
<1>1. PICK d \in Slot : UNCHANGED fds \/ Shut(d)
  BY AddIs, UnplugIs, Numbers DEF Await, Control, DevicesInv
<1>2. FdsInv /\ FdsInv' /\ (Unique => Unique')
  BY <1>1, ChangeInv, ChangeUnique DEF DevicesInv
<1>3. main' = [at |-> "poll", slot |-> 0, asked |-> all_fds, late |-> late]
  BY DEF Await
<1>4. TypeOK'
  BY <1>2, <1>3, Numbers DEF DevicesInv, TypeOK, FdsInv, FdsOK, Await
<1>5. \A e \in Slot : IsOpen(e)' /\ dev'[e].fd \in all_fds => dev'[e].fd \in Flagged'
  <2>1. CASE UNCHANGED fds
    BY <2>1 DEF fds, held, bits, Flagged
  <2>2. CASE Shut(d)
    <3>1. dev'[d].fd = UNALLOCATED_FD
      BY <1>2, <2>2 DEF Shut, Closes, FdsInv, FdsOK
    <3> QED
      BY <1>2, <2>2, <3>1, OthersHeard DEF IsOpen, Flagged
  <2> QED
    BY <1>1, <2>1, <2>2
<1>6. Polling' /\ Visited'
  BY <1>3, <1>5 DEF Polling, StillHeard, Visited
<1> QED
  BY <1>2, <1>4, <1>6 DEF DevicesInv

LEMMA PollSafe ==
  ASSUME DevicesInv, Poll
  PROVE  DevicesInv' /\ (Unique => Unique')
<1> DEFINE d == main.slot
<1>1. FdsInv /\ TypeOK /\ main.at = "poll" /\ d \in Slot /\ StillHeard(d)
  BY DEF DevicesInv, TypeOK, Poll, Polling
<1>2. UNCHANGED fds \/ Shut(d) \/ Kept(d)
  BY <1>1, MultipollIs DEF Poll
<1>3. FdsInv' /\ (Unique => Unique')
  BY <1>1, <1>2, ChangeInv, ChangeUnique
<1>4. \/ d + 1 \in Slot /\ main' = [main EXCEPT !.slot = @ + 1]
      \/ main' = Start("clients")
  BY <1>1, NextSlot DEF Poll
<1>5. main' \in MainType /\ main'.at # "release"
  BY <1>1, <1>4, StartIsMain DEF TypeOK, MainType
<1>6. TypeOK' /\ Visited'
  BY <1>1, <1>3, <1>5 DEF TypeOK, FdsInv, FdsOK, Poll, MainType, Visited
<1>7. Polling'
  <2>1. CASE main' = Start("clients")
    BY <1>1, <2>1, StartIsMain DEF Polling
  <2>2. CASE main' = [main EXCEPT !.slot = @ + 1]
    <3>1. main'.slot = d + 1 /\ main'.asked = main.asked
      BY <1>1, <2>2 DEF TypeOK
    <3>2. \A e \in Slot : e >= d + 1 => e # d /\ e >= d
      BY <1>1, DevicesAssumption DEF Slot
    <3>3. \A e \in Slot : e >= d + 1 /\ IsOpen(e)' /\ dev'[e].fd \in main.asked
                            => dev'[e].fd \in Flagged'
      BY <1>1, <1>2, <3>2, OthersHeard DEF StillHeard, IsOpen
    <3> QED
      BY <3>1, <3>3 DEF Polling, StillHeard
  <2> QED
    BY <1>4, <2>1, <2>2
<1> QED
  BY <1>3, <1>6, <1>7 DEF DevicesInv

LEMMA ClientsSafe ==
  ASSUME DevicesInv, Clients
  PROVE  DevicesInv' /\ (Unique => Unique')
<1>1. FdsInv /\ TypeOK
  BY DEF DevicesInv
<1>2. \E d \in Slot : UNCHANGED fds \/ Shut(d) \/ Lost(d) \/ Opened(d)
  <2>1. ASSUME NEW p \in Path, Watch(p), Slots(p) # {}
        PROVE  \E d \in Slot : UNCHANGED fds \/ Shut(d) \/ Lost(d) \/ Opened(d)
    <3> DEFINE d == Min(Slots(p))
    <3>1. d \in Slot /\ Allocated(d) /\ Awaken(d)
      BY <2>1, FirstSlot, DevicesAssumption DEF Watch, Allocated
    <3> HIDE DEF d
    <3> QED
      BY <1>1, <3>1, AwakenIs
  <2> QED
    BY <2>1, Numbers DEF Clients, Watch, Unwatch, WatchAll, NoRequest
<1>3. FdsInv' /\ (Unique => Unique')
  BY <1>1, <1>2, ChangeInv, ChangeUnique
<1>4. watched' \subseteq Path /\ (main' = Start("release") \/ main' = Start("awaken"))
  BY <1>1 DEF Clients, Watch, Unwatch, WatchAll, NoRequest, TypeOK
<1>5. main' \in MainType /\ main'.at # "poll" /\ main'.slot = 0
  BY <1>1, <1>4, StartIsMain
<1>6. copies' = copies /\ restarted' = restarted
  BY DEF Clients
<1> QED
  BY <1>1, <1>3, <1>5, <1>4, <1>6, NoneBefore
     DEF DevicesInv, TypeOK, FdsInv, FdsOK, Polling, Visited, MainType

LEMMA AwakenEachSafe ==
  ASSUME DevicesInv, AwakenEach
  PROVE  DevicesInv' /\ (Unique => Unique')
<1> DEFINE d == main.slot
<1>1. FdsInv /\ TypeOK /\ d \in Slot /\ main.at = "awaken"
  BY DEF DevicesInv, TypeOK, AwakenEach
<1>2. UNCHANGED fds \/ Shut(d) \/ Lost(d) \/ Opened(d)
  BY <1>1, AwakenIs DEF AwakenEach
<1>3. FdsInv' /\ (Unique => Unique')
  BY <1>1, <1>2, ChangeInv, ChangeUnique
<1>4. \/ d + 1 \in Slot /\ main' = [main EXCEPT !.slot = @ + 1]
      \/ main' = Start("release")
  BY <1>1, NextSlot DEF AwakenEach
<1>5. main' \in MainType /\ main'.at # "poll" /\ (main'.at = "release" => main'.slot = 0)
  BY <1>1, <1>4, StartIsMain DEF TypeOK, MainType
<1>6. copies' = copies /\ restarted' = restarted /\ watched' = watched
  BY DEF AwakenEach
<1> QED
  BY <1>1, <1>3, <1>5, <1>6, NoneBefore
     DEF DevicesInv, TypeOK, FdsInv, FdsOK, Polling, Visited, MainType

(* A slot that has been visited after a long time is served.               *)
LEMMA ReleaseServes ==
  ASSUME DevicesInv, Release, main.late
  PROVE  \A e \in Slot : e < main.slot + 1 => Served(e)'
<1> PICK d \in Slot : d = main.slot
  BY DEF DevicesInv, TypeOK
<1>1. FdsInv /\ TypeOK /\ Visited /\ main.at = "release" /\ watched' = watched
  BY DEF DevicesInv, TypeOK, Release
<1>2. UNCHANGED fds \/ Shut(d) \/ Kept(d) \/ Lost(d) \/ Opened(d)
  BY <1>1, AwakenIs, RetireIs DEF Release, Reconnect, Keep
<1>3. \A e \in Slot : e < d => Served(e)'
  <2>1. \A e \in Slot : e < d => dev'[e] = dev[e]
    BY <1>1, <1>2, OthersStay DEF Slot
  <2> QED
    BY <1>1, <2>1 DEF Visited, Served, Allocated, Needed, IsOpen
<1>4. Served(d)'
  <2>1. CASE ~Allocated(d)
    <3>1. dev' = dev
      BY <2>1 DEF Release, fds
    <3> QED
      BY <2>1, <3>1 DEF Served, Allocated
  <2>2. CASE Allocated(d) /\ Retire(d)
    <3>1. dev'[d].path = dev[d].path
      <4>1. UNCHANGED fds \/ (\E x : Closes(d, x) /\ x.path = dev[d].path) \/ Kept(d)
        BY <1>1, <2>2, RetireChange DEF Kept
      <4> QED
        BY <1>1, <4>1 DEF fds, Closes, Kept, Keeps, FdsInv, FdsOK
    <3> QED
      BY <1>1, <2>2, <3>1 DEF Retire, Served, Needed
  <2>3. CASE Allocated(d) /\ Reconnect(d)
    BY <1>1, <2>3, AwakenIs DEF Reconnect, Served
  <2>4. CASE Allocated(d) /\ Keep(d)
    BY <1>1, <2>4 DEF Keep, fds, Served, Needed, IsOpen
  <2> QED
    BY <2>1, <2>2, <2>3, <2>4 DEF Release
<1>5. \A e \in Slot : e < d + 1 => e = d \/ e < d
  BY <1>1, DevicesAssumption DEF Slot
<1> QED
  BY <1>3, <1>4, <1>5

LEMMA ReleaseSafe ==
  ASSUME DevicesInv, Release
  PROVE  DevicesInv' /\ (Unique => Unique')
<1> DEFINE d == main.slot
<1>1. FdsInv /\ TypeOK /\ d \in Slot
  BY DEF DevicesInv, TypeOK
<1>2. UNCHANGED fds \/ Shut(d) \/ Kept(d) \/ Lost(d) \/ Opened(d)
  BY <1>1, AwakenIs, RetireIs DEF Release, Reconnect, Keep
<1>3. FdsInv' /\ (Unique => Unique')
  BY <1>1, <1>2, ChangeInv, ChangeUnique
<1>4. \/ d + 1 \in Slot /\ main' = [main EXCEPT !.slot = @ + 1]
      \/ main' = AtSelect
  BY <1>1, NextSlot DEF Release
<1>5. main' \in MainType /\ main'.at # "poll"
  BY <1>1, <1>4, AtSelectIsMain DEF TypeOK, Release, MainType
<1>6. copies' = copies /\ restarted' = restarted /\ watched' = watched
  BY DEF Release
<1>7. Visited'
  <2>1. CASE main' = AtSelect
    BY <2>1, AtSelectIsMain DEF Visited
  <2>2. CASE main' = [main EXCEPT !.slot = @ + 1]
    <3>1. main'.slot = d + 1 /\ main'.late = main.late
      BY <1>1, <2>2 DEF TypeOK
    <3> QED
      BY <3>1, ReleaseServes DEF Visited
  <2> QED
    BY <1>4, <2>1, <2>2
<1> QED
  BY <1>1, <1>3, <1>5, <1>6, <1>7 DEF DevicesInv, TypeOK, FdsInv, FdsOK, Polling, MainType

(* select clears only descriptors that are closed.                         *)
LEMMA BadDescriptorsSafe ==
  ASSUME DevicesInv, BadDescriptors
  PROVE  DevicesInv' /\ (Unique => Unique')
<1>1. /\ copies' = copies /\ watched' = watched /\ restarted' = restarted
      /\ dev' = dev /\ opened' = opened /\ leaked' = leaked /\ main' = main
      /\ undone' = undone /\ all_fds' = all_fds \cap opened /\ main.at = "select"
  BY DEF BadDescriptors
<1>2. Listening'
  <2>1. \A d \in Slot : IsOpen(d) => dev[d].fd \in opened
    BY DEF DevicesInv, FdsInv, OneOwner
  <2> QED
    BY <1>1, <2>1 DEF DevicesInv, FdsInv, Listening, Flagged, IsOpen
<1> QED
  BY <1>1, <1>2 DEF DevicesInv, TypeOK, FdsInv, FdsOK, OneOwner, Polling, Visited, IsOpen,
                    Allocated, Unique

LEMMA PpsReadSafe ==
  ASSUME DevicesInv, PpsRead
  PROVE  DevicesInv' /\ (Unique => Unique')
<1>1. /\ watched' = watched /\ restarted' = restarted
      /\ dev' = dev /\ opened' = opened /\ leaked' = leaked /\ main' = main
      /\ undone' = undone /\ all_fds' = all_fds /\ copies' \subseteq SUBSET Fd
  BY DEF PpsRead, fds, held, bits, DevicesInv, TypeOK
<1> QED
  BY <1>1 DEF DevicesInv, TypeOK, FdsInv, FdsOK, OneOwner, Listening, Polling, StillHeard,
              Visited, Served, Needed, Flagged, IsOpen, Allocated, Unique

(* What a PPS thread takes out of all_fds is remembered.                   *)
LEMMA PpsWriteSafe ==
  ASSUME DevicesInv, NEW copy \in copies, NEW client, PpsWrite(copy, client)
  PROVE  DevicesInv' /\ (Unique => Unique')
<1>1. /\ watched' = watched /\ restarted' = restarted
      /\ dev' = dev /\ opened' = opened /\ leaked' = leaked /\ main' = main
      /\ copies' \subseteq SUBSET Fd /\ all_fds' \subseteq Fd /\ undone' \subseteq Fd
      /\ Flagged \cap (opened \ leaked) \subseteq Flagged'
  BY DEF PpsWrite, DevicesInv, TypeOK, Flagged
<1>2. \A d \in Slot : IsOpen(d) /\ dev[d].fd \in Flagged => dev[d].fd \in Flagged'
  BY <1>1 DEF DevicesInv, FdsInv, OneOwner
<1>3. Listening'
  BY <1>1, <1>2 DEF DevicesInv, FdsInv, Listening, IsOpen
<1>4. Polling'
  BY <1>1, <1>2 DEF DevicesInv, Polling, StillHeard, IsOpen
<1> QED
  BY <1>1, <1>3, <1>4 DEF DevicesInv, TypeOK, FdsInv, FdsOK, OneOwner,
                          Visited, Served, Needed, IsOpen, Allocated, Unique

LEMMA SlotsBefore ==
  ASSUME NEW d
  PROVE  Cardinality({e \in Slots(NoPath) : e < d}) \in Nat
<1> DEFINE S == {e \in Slots(NoPath) : e < d}
<1>1. IsFiniteSet(Slot)
  BY DevicesAssumption, FS_Interval DEF Slot
<1>2. S \in SUBSET Slot
  BY DEF Slots
<1> HIDE DEF S
<1>3. IsFiniteSet(S)
  BY <1>1, <1>2, FS_Subset
<1>4. Cardinality(S) \in Nat
  BY <1>3, FS_CardinalityType
<1> QED
  BY <1>4 DEF S

LEMMA RestartSafe ==
  ASSUME DevicesInv, Restart
  PROVE  DevicesInv' /\ restarted'
<1> DEFINE before(d) == Cardinality({e \in Slots(NoPath) : e < d})
           x(d) == IF ~Allocated(d) /\ before(d) < Len(CommandLine)
                   THEN Stashed(CommandLine[before(d) + 1])
                   ELSE Deactivated(dev[d])
<1>1. /\ dev' = [d \in Slot |-> x(d)] /\ opened' = leaked /\ undone' = {}
      /\ leaked' = leaked /\ copies' = copies /\ watched' = watched /\ restarted' = TRUE
      /\ all_fds' = all_fds /\ main' = main /\ main.at = "select"
  BY DEF Restart
<1>2. \A d : before(d) \in Nat
  BY SlotsBefore
<1> HIDE DEF before
<1>3. ASSUME NEW d \in Slot
      PROVE  x(d) \in Device /\ x(d).fd = UNALLOCATED_FD
  <2>1. CASE ~Allocated(d) /\ before(d) < Len(CommandLine)
    <3>1. CommandLine[before(d) + 1] \in Path
      BY <1>2, <2>1, DevicesAssumption
    <3> QED
      BY <2>1, <3>1, UnusedIsDevice
  <2>2. CASE ~(~Allocated(d) /\ before(d) < Len(CommandLine))
    <3>1. dev[d] \in Device
      BY DEF DevicesInv, TypeOK
    <3> QED
      BY <2>2, <3>1, ClosedDevice
  <2> QED
    BY <2>1, <2>2
<1> HIDE DEF x
<1>4. \A d \in Slot : ~IsOpen(d)'
  BY <1>1, <1>3 DEF IsOpen
<1>5. dev' \in [Slot -> Device]
  BY <1>1, <1>3
<1>6. OneOwner'
  BY <1>1, <1>4 DEF OneOwner
<1>7. TypeOK' /\ FdsOK'
  BY <1>1, <1>5 DEF DevicesInv, TypeOK, FdsOK
<1>8. Listening' /\ Polling' /\ Visited'
  BY <1>1, <1>4 DEF Listening, Polling, Visited
<1> QED
  BY <1>1, <1>6, <1>7, <1>8 DEF DevicesInv, FdsInv

LEMMA InitSafe ==
  ASSUME Init
  PROVE  DevicesInv
<1>1. \A d \in Slot : d < Len(CommandLine) => CommandLine[d + 1] \in Path
  BY DevicesAssumption DEF Slot
<1>2. /\ dev \in [Slot -> Device] /\ \A d \in Slot : dev[d].fd = UNALLOCATED_FD
  BY <1>1, UnusedIsDevice DEF Init
<1>3. opened = {} /\ leaked = {} /\ all_fds = {} /\ copies = {} /\ undone = {}
      /\ main = AtSelect /\ watched = {} /\ restarted = FALSE
  BY DEF Init
<1>4. \A d \in Slot : ~IsOpen(d)
  BY <1>2 DEF IsOpen
<1>5. OneOwner /\ Listening
  BY <1>3, <1>4 DEF OneOwner, Listening
<1>6. TypeOK /\ FdsOK /\ Polling /\ Visited
  BY <1>2, <1>3, AtSelectIsMain DEF TypeOK, FdsOK, Polling, Visited, MainType
<1> QED
  BY <1>5, <1>6 DEF DevicesInv, FdsInv

LEMMA NextSafe ==
  ASSUME DevicesInv, [Next]_vars
  PROVE  DevicesInv' /\ (restarted \/ Unique => (restarted \/ Unique)')
<1>1. ASSUME PpsRead \/ (\E copy \in copies, client \in Fd \cup {UNALLOCATED_FD} :
                            PpsWrite(copy, client))
      PROVE  DevicesInv' /\ (Unique => Unique') /\ restarted' = restarted
  BY <1>1, PpsReadSafe, PpsWriteSafe DEF PpsRead, PpsWrite
<1>2. ASSUME NEW late \in BOOLEAN, Await(late)
      PROVE  DevicesInv' /\ (Unique => Unique') /\ restarted' = restarted
  BY <1>2, AwaitSafe DEF Await
<1>3. ASSUME BadDescriptors \/ Poll \/ Clients \/ AwakenEach \/ Release
      PROVE  DevicesInv' /\ (Unique => Unique')
  BY <1>3, BadDescriptorsSafe, PollSafe, ClientsSafe, AwakenEachSafe, ReleaseSafe
<1>4. ASSUME BadDescriptors \/ Poll \/ Clients \/ AwakenEach \/ Release
      PROVE  restarted' = restarted
  BY <1>4 DEF BadDescriptors, Poll, Clients, AwakenEach, Release
<1>5. ASSUME Restart
      PROVE  DevicesInv' /\ restarted'
  BY <1>5, RestartSafe
<1>6. CASE UNCHANGED vars
  <2>1. UNCHANGED <<watched, dev, opened, leaked, all_fds, undone, copies, main, restarted>>
    BY <1>6 DEF vars, fds, held, bits
  <2> QED
    BY <2>1 DEF DevicesInv, TypeOK, FdsInv, FdsOK, OneOwner, Listening, Polling, StillHeard,
                Visited, Served, Needed, Flagged, IsOpen, Allocated, Unique
<1> QED
  BY <1>1, <1>2, <1>3, <1>4, <1>5, <1>6 DEF Next, Loop
-----------------------------------------------------------------------------
(* Theorems.                                                               *)

LEMMA SpecSafe == Spec => []DevicesInv
<1>1. DevicesInv /\ [Next]_vars => DevicesInv'
  BY NextSafe
<1> QED
  BY <1>1, InitSafe, PTL DEF Spec

(* The state of the pool and of the main loop is always well formed: the   *)
(* slots that the loop polls are slots, and every descriptor in all_fds,   *)
(* open or leaked, is one a device may get.                                *)
THEOREM DevicesTypeCorrect == Spec => []TypeOK
<1>1. DevicesInv => TypeOK
  BY DEF DevicesInv
<1> QED
  BY <1>1, SpecSafe, PTL

(* Whatever is opened, closed, removed, reconnected or restarted, every    *)
(* open descriptor is that of exactly one device of the pool (devices[]    *)
(* in gpsd.c), but for those that an opening which failed has left open    *)
(* (gpsd_serial_open); and every device with a descriptor is allocated.    *)
THEOREM DescriptorsHaveOneOwner == Spec => []OneOwner
<1>1. DevicesInv => OneOwner
  BY DEF DevicesInv, FdsInv
<1> QED
  BY <1>1, SpecSafe, PTL

(* When the main loop of gpsd.c waits in select, an open device is         *)
(* in all_fds or has a time to be reawakened, unless a PPS thread that     *)
(* dropped a client has taken it out of all_fds and the main loop has not  *)
(* set it again.                                                           *)
THEOREM NoDeviceIsDeaf == Spec => []NoneIsDeaf
<1>1. DevicesInv => NoneIsDeaf
  BY DEF DevicesInv, FdsInv, Listening, Flagged, NoneIsDeaf
<1> QED
  BY <1>1, SpecSafe, PTL

(* If no device is named twice on the command line, then no path is in the *)
(* pool twice until SIGHUP stashes those of the command line again.        *)
(* Neither main nor gpsd_add_device looks for a name it already has, so    *)
(* that the hypothesis is needed.                                          *)
THEOREM PathsAreUnique ==
  ASSUME \A i, j \in 1..Len(CommandLine) : CommandLine[i] = CommandLine[j] => i = j
  PROVE  Spec => []OnePerPath
<1>1. Init => Unique
  <2> SUFFICES ASSUME Init, NEW d \in Slot, NEW e \in Slot,
                      Allocated(d), dev[d].path = dev[e].path
               PROVE  d = e
    BY DEF Unique
  <2>1. \A k \in Slot : IF k < Len(CommandLine)
                        THEN k + 1 \in 1..Len(CommandLine) /\ dev[k].path = CommandLine[k + 1]
                        ELSE dev[k].path = NoPath
    BY UnusedIsDevice, DevicesAssumption DEF Init, Stashed, Unused, Slot
  <2>2. d + 1 \in 1..Len(CommandLine) /\ e + 1 \in 1..Len(CommandLine)
        /\ CommandLine[d + 1] = CommandLine[e + 1]
    BY <2>1 DEF Allocated
  <2>3. d + 1 = e + 1
    BY <2>2
  <2> QED
    BY <2>3, DevicesAssumption DEF Slot
<1>2. DevicesInv /\ [Next]_vars => ((restarted \/ Unique) => (restarted \/ Unique)')
  BY NextSafe
<1>3. restarted \/ Unique => OnePerPath
  <2> SUFFICES ASSUME Unique, NEW p \in Path
               PROVE  Cardinality(Slots(p)) <= 1
    BY DEF OnePerPath
  <2>1. CASE Slots(p) = {}
    BY <2>1, FS_EmptySet
  <2>2. ASSUME NEW d \in Slots(p)
        PROVE  Cardinality(Slots(p)) <= 1
    <3>1. Slots(p) = {d}
      BY <2>2, DevicesAssumption DEF Slots, Unique, Allocated
    <3>2. Cardinality({d}) = 1
      BY FS_Singleton
    <3> QED
      BY <3>1, <3>2
  <2> QED
    BY <2>1, <2>2
<1> QED
  BY <1>1, <1>2, <1>3, SpecSafe, PTL DEF Spec

(* Opening a slot, or failing to, closes none.                             *)
LEMMA AwakenClosesNone ==
  ASSUME FdsInv, NEW d \in Slot, Allocated(d), Awaken(d)
  PROVE  \A e \in Slot : IsOpen(e) => IsOpen(e)'
<1>1. dev \in [Slot -> Device]
  BY DEF FdsInv, FdsOK
<1>2. CASE UNCHANGED fds
  BY <1>2 DEF fds, IsOpen
<1>3. CASE Closes(d, Unused) /\ ~IsOpen(d)
  BY <1>1, <1>3 DEF Closes, IsOpen
<1>4. ASSUME NEW f, Leaks(d, f)
      PROVE  \A e \in Slot : IsOpen(e) => IsOpen(e)'
  BY <1>1, <1>4 DEF Leaks, IsOpen
<1>5. ASSUME NEW x, NEW f, Opens(d, x, f)
      PROVE  \A e \in Slot : IsOpen(e) => IsOpen(e)'
  BY <1>1, <1>5, Numbers DEF Opens, IsOpen
<1> QED
  BY <1>2, <1>3, <1>4, <1>5, AwakenChange

LEMMA AwaitKeeps ==
  ASSUME DevicesInv, NEW late \in BOOLEAN, Await(late), NEW d \in Slot, IsOpen(d), ~IsOpen(d)'
  PROVE  ~Allocated(d)'
<1>1. FdsInv
  BY DEF DevicesInv
<1>2. ~UNCHANGED fds
  BY DEF fds, IsOpen
<1>3. ASSUME NEW p \in Path, Add(p)
      PROVE  FALSE
  <2>1. PICK e \in Slot : Shut(e) /\ ~IsOpen(e)
    BY <1>1, <1>3, AddIs
  <2>2. dev'[d] = dev[d]
    BY <1>1, <2>1, OthersStay
  <2> QED
    BY <2>2 DEF IsOpen
<1>4. ASSUME NEW p \in Path, Unplug(p)
      PROVE  ~Allocated(d)'
  <2>1. PICK e \in Slot : Shut(e) /\ ~Allocated(e)'
    BY <1>1, <1>4, UnplugIs
  <2>2. e = d
    BY <1>1, <2>1, OthersStay DEF IsOpen
  <2> QED
    BY <2>1, <2>2
<1> QED
  BY <1>2, <1>3, <1>4 DEF Await, Control

LEMMA PollKeeps ==
  ASSUME DevicesInv, Poll, NEW d \in Slot, IsOpen(d), ~IsOpen(d)'
  PROVE  /\ main.at = "poll" /\ main.slot = d /\ dev[d].fd \in main.asked
         /\ dev[d].zerokill \/ SignedOff(d)
<1> DEFINE s == main.slot
<1>1. FdsInv /\ s \in Slot /\ StillHeard(s) /\ dev[d] \in Device /\ main.at = "poll"
  BY DEF DevicesInv, TypeOK, Poll, Polling
<1>2. ~UNCHANGED fds
  BY DEF fds, IsOpen
<1>3. IsOpen(s) /\ Multipoll(s)
  BY <1>2 DEF Poll
<1>4. d = s
  <2>1. UNCHANGED fds \/ Shut(s) \/ Kept(s)
    BY <1>1, <1>3, MultipollIs
  <2> QED
    BY <1>1, <2>1, OthersHeard DEF IsOpen
<1>5. ~Kept(d)
  <2> SUFFICES ASSUME NEW x, Keeps(d, x)
               PROVE  FALSE
    BY DEF Kept
  <2> QED
    BY <1>1 DEF Keeps, IsOpen, FdsInv, FdsOK
<1>6. ~Reawaken(d)
  BY <1>1, <1>5, ReawakenChange DEF Kept
<1>7. Readable(d)
  BY <1>2, <1>3, <1>4, <1>6 DEF Multipoll, Unreadable
<1>8. dev[d].fd \in Flagged
  BY <1>1, <1>4, <1>7, Numbers DEF Readable, StillHeard
<1>9. ~GotData(d)
  BY <1>1, <1>5, <1>8, GotDataChange DEF Kept
<1>10. ZeroRead(d) => dev[d].zerokill
  BY <1>1, <1>5, ZeroReadChange DEF Kept
<1> QED
  BY <1>1, <1>4, <1>7, <1>9, <1>10 DEF Readable

LEMMA ClientsKeep ==
  ASSUME DevicesInv, Clients
  PROVE  \A e \in Slot : IsOpen(e) => IsOpen(e)'
<1>1. ASSUME NEW p \in Path, Watch(p), Slots(p) # {}
      PROVE  \A e \in Slot : IsOpen(e) => IsOpen(e)'
  <2> DEFINE d == Min(Slots(p))
  <2>1. d \in Slot /\ Allocated(d) /\ Awaken(d)
    BY <1>1, FirstSlot, DevicesAssumption DEF Watch, Allocated
  <2> HIDE DEF d
  <2> QED
    BY <2>1, AwakenClosesNone DEF DevicesInv
<1>2. ASSUME UNCHANGED fds
      PROVE  \A e \in Slot : IsOpen(e) => IsOpen(e)'
  BY <1>2 DEF fds, IsOpen
<1> QED
  BY <1>1, <1>2 DEF Clients, Watch, Unwatch, WatchAll, NoRequest

LEMMA ReleaseKeeps ==
  ASSUME DevicesInv, Release, NEW d \in Slot, IsOpen(d), Needed(d)
  PROVE  IsOpen(d)'
<1> DEFINE s == main.slot
<1>1. FdsInv /\ s \in Slot
  BY DEF DevicesInv, TypeOK
<1>2. CASE UNCHANGED fds
  BY <1>2 DEF fds, IsOpen
<1>3. CASE Allocated(s) /\ Awaken(s)
  BY <1>1, <1>3, AwakenClosesNone
<1>4. CASE Retire(s)
  <2>1. s # d
    BY <1>4 DEF Retire
  <2>2. UNCHANGED fds \/ Shut(s) \/ Kept(s)
    BY <1>1, <1>4, RetireIs
  <2> QED
    BY <1>1, <2>1, <2>2, OthersHeard DEF IsOpen
<1> QED
  BY <1>2, <1>3, <1>4 DEF Release, Reconnect, Keep

(* A device that is watched is closed only while select waits, by a        *)
(* command that removes it or by SIGHUP, or in its own turn of the poll    *)
(* loop of gpsd.c, because the session on it has ended or by an empty read *)
(* after its slot was reawakened: in particular the slots polled before    *)
(* it, the requests of clients and the release of idle devices never       *)
(* close it.                                                               *)
THEOREM WatchedDevicesAreKept == Spec => KeptWhileWatched
<1> DEFINE Kind == \A d \in Slot :
                     IsOpen(d) /\ ~IsOpen(d)' /\ Needed(d)
                       => \/ main.at = "select" /\ (restarted' # restarted \/ ~Allocated(d)')
                          \/ /\ main.at = "poll" /\ main.slot = d /\ dev[d].fd \in main.asked
                             /\ dev[d].zerokill \/ SignedOff(d)
<1>1. ASSUME DevicesInv, [Next]_vars
      PROVE  Kind
  <2> SUFFICES ASSUME NEW d \in Slot, IsOpen(d), ~IsOpen(d)', Needed(d)
               PROVE  \/ main.at = "select" /\ (restarted' # restarted \/ ~Allocated(d)')
                      \/ /\ main.at = "poll" /\ main.slot = d /\ dev[d].fd \in main.asked
                         /\ dev[d].zerokill \/ SignedOff(d)
    OBVIOUS
  <2>1. CASE Poll
    BY <1>1, <2>1, PollKeeps
  <2>2. CASE Clients
    BY <1>1, <2>2, ClientsKeep
  <2>3. CASE AwakenEach
    <3>1. UNCHANGED fds \/ (main.slot \in Slot /\ Allocated(main.slot) /\ Awaken(main.slot))
      BY <1>1, <2>3 DEF AwakenEach, DevicesInv, TypeOK
    <3> QED
      BY <1>1, <3>1, AwakenClosesNone DEF fds, IsOpen, DevicesInv
  <2>4. CASE Release
    BY <1>1, <2>4, ReleaseKeeps
  <2>5. CASE dev' = dev
    BY <2>5 DEF IsOpen
  <2>6. CASE \E late \in BOOLEAN : Await(late)
    BY <1>1, <2>6, AwaitKeeps DEF Await
  <2>7. CASE Restart
    BY <2>7 DEF Restart
  <2>8. BadDescriptors \/ PpsRead \/ UNCHANGED vars => dev' = dev
    BY DEF BadDescriptors, PpsRead, vars, fds
  <2>9. (\E copy \in copies, client \in Fd \cup {UNALLOCATED_FD} : PpsWrite(copy, client))
          => dev' = dev
    BY DEF PpsWrite
  <2> QED
    BY <1>1, <2>1, <2>2, <2>3, <2>4, <2>5, <2>6, <2>7, <2>8, <2>9 DEF Next, Loop
<1>2. DevicesInv /\ [Next]_vars => [Kind]_vars
  BY <1>1
<1> HIDE DEF Kind
<1>3. Spec => [][Kind]_vars
  BY <1>2, SpecSafe, PTL DEF Spec
<1> QED
  BY <1>3 DEF Kind, KeptWhileWatched

(* A turn of the main loop of gpsd.c that comes after a long time leaves   *)
(* no watched device of the pool closed.                                   *)
THEOREM WatchedDevicesReconnect == Spec => Reconnects
<1> DEFINE Kind == main.at = "release" /\ main.late /\ main'.at = "select"
                     => \A d \in Slot : (Allocated(d) /\ Needed(d) => IsOpen(d))'
<1>1. ASSUME DevicesInv, Next
      PROVE  Kind
  <2> SUFFICES ASSUME main.at = "release", main.late, main'.at = "select"
               PROVE  \A d \in Slot : (Allocated(d) /\ Needed(d) => IsOpen(d))'
    OBVIOUS
  <2>1. Release
    <3>1. PpsRead => main' = main
      BY DEF PpsRead
    <3>2. (\E copy \in copies, client \in Fd \cup {UNALLOCATED_FD} : PpsWrite(copy, client))
            => main' = main
      BY DEF PpsWrite
    <3>3. ~Poll /\ ~Clients /\ ~AwakenEach /\ ~BadDescriptors /\ ~Restart
      BY DEF Poll, Clients, AwakenEach, BadDescriptors, Restart
    <3>4. ASSUME NEW late \in BOOLEAN
          PROVE  ~Await(late)
      BY DEF Await
    <3> QED
      BY <1>1, <3>1, <3>2, <3>3, <3>4 DEF Next, Loop
  <2>2. main.slot \in Slot /\ main.slot + 1 \notin Slot
    BY <1>1, <2>1, NextSlot DEF Release, DevicesInv, TypeOK
  <2>3. \A d \in Slot : d < main.slot + 1
    BY <2>2, DevicesAssumption DEF Slot
  <2> QED
    BY <1>1, <2>1, <2>3, ReleaseServes DEF Served
<1>2. DevicesInv /\ [Next]_vars => [Kind]_vars
  BY <1>1
<1> HIDE DEF Kind
<1>3. Spec => [][Kind]_vars
  BY <1>2, SpecSafe, PTL DEF Spec
<1> QED
  BY <1>3 DEF Kind, Reconnects
=============================================================================
