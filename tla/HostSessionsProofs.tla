------------------------- MODULE HostSessionsProofs -------------------------
(***************************************************************************)
(* Machine-checked proofs about HostSessions, for any number of connections,*)
(* slots and tiles.                                                        *)
(***************************************************************************)
EXTENDS HostSessions, TLAPS

\* A session that got past the accept thread has a slot number.
HasSlot ==
    \A c \in Conns : EID[c] \in Slots \/ pc[c] \in {"away", "op", "done"}

\* The timer holds Locker exactly during a frame, and a joining session from
\* lock() to unlock(); slots wait for animate() only while entities move.
LockInv ==
    /\ frame # "idle" <=> Locker = Timer
    /\ \A c \in Conns : pc[c] \in {"spawn", "snapshot", "adding"} => Locker = c
    /\ frame \in {"idle", "send"} => todo = {}

IInv == TypeOK /\ HasSlot /\ SlotOwnership /\ IndexAgreement /\ LockInv /\ FrameSafe

\* What Animate does to the index and the coordinates, given the new tile of
\* each indexed slot.
Placed(to) ==
    /\ at' = [d \in Conns |-> IF EID[d] \in Indexed /\ ent[EID[d]] = d
                             THEN to[EID[d]] ELSE at[d]]
    /\ entities' = [p \in Places |-> IF \E q \in Indexed : to[q] = p
                                     THEN CHOOSE q \in Indexed : to[q] = p
                                     ELSE NoSlot]

\* The assumptions on the constants, one element at a time.
LEMMA Distinct ==
    /\ NoEntity \notin Conns /\ Placeholder \notin Conns /\ Timer \notin Conns
    /\ Stopper \notin Conns /\ Hole \notin Conns
    /\ NoEntity # Placeholder /\ Timer # NoEntity /\ NoSlot \notin Slots
    /\ Spawn \in Places
BY ConstantsOK

\* Changing the movement bits of a data word gives a data word.
LEMMA SetGo ==
    ASSUME NEW v \in Data, NEW g \in BOOLEAN
    PROVE  [v EXCEPT !.go = g] \in Data
BY DEF Data

\* What the input loop notes on reading a byte keeps its register well-formed.
LEMMA RegGrasp ==
    ASSUME NEW r \in Regs, NEW e \in Objects, NEW m \in BOOLEAN
    PROVE  [r EXCEPT !.obj = e, !.end = m] \in Regs
BY DEF Regs

\* Entering the monitor of the object it noted does, too.
LEMMA RegEnter ==
    ASSUME NEW r \in Regs
    PROVE  [r EXCEPT !.mon = r.obj] \in Regs
BY DEF Regs

\* What an input loop loads is in its registers.
LEMMA RegLoad ==
    ASSUME NEW r \in Regs, NEW e \in Objects, NEW v \in Data
    PROVE  [r EXCEPT !.obj = e, !.val = v] \in Regs
BY DEF Regs

\* A mark set by kick() leaves every data word a data word.
LEMMA MarkDeadType ==
    ASSUME data \in [Conns -> Data], NEW e, MarkDead(e)
    PROVE  data' \in [Conns -> Data]
<1>1. [dead |-> TRUE, go |-> TRUE] \in Data
  BY DEF Data
<1> QED
  BY <1>1 DEF MarkDead

\* Every step of the host keeps the type of every variable.
LEMMA TypeStep == TypeOK /\ HasSlot /\ SlotOwnership /\ IndexAgreement /\ FrameSafe
                  /\ [Next]_vars => TypeOK'
<1> SUFFICES ASSUME TypeOK, HasSlot, SlotOwnership, IndexAgreement, FrameSafe, [Next]_vars
             PROVE  TypeOK'
  OBVIOUS
<1> USE Distinct DEF TypeOK, LockFree, LeaveMonitor, NoLongerAlive, Unindexed, Phases, Objects,
     levelVars, lockVars, connVars, timerVars, hostVars
<1>1. ASSUME NEW c \in Conns, Connect(c) PROVE TypeOK'
  BY <1>1 DEF Connect, Goto
<1>2. ASSUME NEW c \in Conns, Reserve(c) PROVE TypeOK'
  BY <1>2 DEF Reserve, Goto, FreeSlots
<1>3. ASSUME NEW c \in Conns, AcceptFails(c) PROVE TypeOK'
  BY <1>3 DEF AcceptFails, Goto, SysExit
<1>4. ASSUME NEW c \in Conns, AuthAccept(c) PROVE TypeOK'
  BY <1>4 DEF AuthAccept, Goto
<1>5. ASSUME NEW c \in Conns, AuthReject(c) PROVE TypeOK'
  BY <1>5 DEF AuthReject, Goto
<1>6. ASSUME NEW c \in Conns, AuthThrows(c) PROVE TypeOK'
  BY <1>6 DEF AuthThrows, Goto, HasSlot
<1>7. ASSUME NEW c \in Conns, VersionAccept(c) PROVE TypeOK'
  BY <1>7 DEF VersionAccept, Goto
<1>8. ASSUME NEW c \in Conns, VersionReject(c) PROVE TypeOK'
  BY <1>8 DEF VersionReject, TurnAway, Goto, HasSlot
<1>9. ASSUME NEW c \in Conns, HandshakeThrows(c) PROVE TypeOK'
  BY <1>9 DEF HandshakeThrows, Goto
<1>10. ASSUME NEW c \in Conns, SpawnClear(c) PROVE TypeOK'
  BY <1>10 DEF SpawnClear, Goto
<1>11. ASSUME NEW c \in Conns, SpawnBlocked(c) PROVE TypeOK'
  BY <1>11 DEF SpawnBlocked, TurnAway, Goto, HasSlot
<1>12. ASSUME NEW c \in Conns, LockForJoin(c) PROVE TypeOK'
  BY <1>12 DEF LockForJoin, Goto
<1>13. ASSUME NEW c \in Conns, SpawnEntity(c) PROVE TypeOK'
  <2>1. EID[c] \in Slots
    BY <1>13 DEF SpawnEntity, Goto, HasSlot
  <2>2. ent' \in [Slots -> Objects] /\ entities' \in [Places -> Slots \cup {NoSlot}]
        /\ at' \in [Conns -> Places]
    BY <1>13, <2>1 DEF SpawnEntity
  <2>3. data' \in [Conns -> Data]
    BY <1>13 DEF SpawnEntity, NoData, Data
  <2>4. QED
    BY <1>13, <2>2, <2>3 DEF SpawnEntity, Goto, Modified
<1>14. ASSUME NEW c \in Conns, SendLevel(c) PROVE TypeOK'
  BY <1>14 DEF SendLevel, Goto
<1>15. ASSUME NEW c \in Conns, SendLevelThrows(c) PROVE TypeOK'
  BY <1>15 DEF SendLevelThrows, Goto
<1>16. ASSUME NEW c \in Conns, EnterList(c) PROVE TypeOK'
  BY <1>16 DEF EnterList, Goto
<1>17. ASSUME NEW c \in Conns, Enter(c) PROVE TypeOK'
  <2>1. reg' = [reg EXCEPT ![c] = [@ EXCEPT !.mon = reg[c].obj]]
    BY <1>17 DEF Enter
  <2>2. [reg[c] EXCEPT !.mon = reg[c].obj] \in Regs
    BY RegEnter
  <2>3. reg' \in [Conns -> Regs]
    BY <2>1, <2>2
  <2>4. QED
    BY <1>17, <2>3 DEF Enter, Goto
<1>18. ASSUME NEW c \in Conns, Load(c) PROVE TypeOK'
  <2>1. ent[EID[c]] \in Objects
    BY <1>18 DEF Load, Goto, HasSlot
  <2> DEFINE v == IF ent[EID[c]] \in Conns THEN data[ent[EID[c]]] ELSE NoData
  <2>2. v \in Data
    BY DEF NoData, Data
  <2>3. reg' = [reg EXCEPT ![c] = [@ EXCEPT !.obj = ent[EID[c]], !.val = v]]
    BY <1>18 DEF Load
  <2> HIDE DEF v
  <2>4. [reg[c] EXCEPT !.obj = ent[EID[c]], !.val = v] \in Regs
    BY <2>1, <2>2, RegLoad
  <2>5. reg' \in [Conns -> Regs]
    BY <2>3, <2>4
  <2>6. QED
    BY <1>18, <2>5 DEF Load, Goto
<1>19. ASSUME NEW c \in Conns, Store(c) PROVE TypeOK'
  <2>1. PICK move \in BOOLEAN :
          data' = [e \in Conns |-> IF e = reg[c].obj
                                   THEN [reg[c].val EXCEPT !.go = @ \/ move]
                                   ELSE data[e]]
    BY <1>19 DEF Store
  <2>2. [reg[c].val EXCEPT !.go = @ \/ move] \in Data
    BY DEF Regs, Data
  <2>3. data' \in [Conns -> Data]
    BY <2>1, <2>2
  <2>4. reg' \in [Conns -> Regs]
    BY <1>19 DEF Store, NoReg, NoData, Data, Regs
  <2>5. pc' \in [Conns -> Phases]
    BY <1>19 DEF Store, Goto
  <2>6. UNCHANGED <<ent, entPlace, entities, at, lockVars, EID, alive, socket,
                    timerVars, hostVars>>
    BY <1>19 DEF Store
  <2>7. QED
    BY <2>3, <2>4, <2>5, <2>6
<1>20. ASSUME NEW c \in Conns, InputThrows(c) PROVE TypeOK'
  <2>1. reg' \in [Conns -> Regs]
    BY <1>20 DEF InputThrows, NoReg, NoData, Data, Regs
  <2>2. pc' \in [Conns -> Phases]
    BY <1>20 DEF InputThrows, Goto
  <2>3. QED
    BY <1>20, <2>1, <2>2 DEF InputThrows
<1>21. ASSUME NEW c \in Conns, Caught(c) PROVE TypeOK'
  BY <1>21 DEF Caught, Goto
<1>22. ASSUME NEW c \in Conns, KickMark(c) PROVE TypeOK'
  <2>1. data' \in [Conns -> Data]
    BY <1>22, MarkDeadType DEF KickMark
  <2>2. pc' \in [Conns -> Phases]
    BY <1>22 DEF KickMark, Goto
  <2>3. alive' \in [Conns -> BOOLEAN] /\ host' = host
    BY <1>22 DEF KickMark
  <2>4. UNCHANGED <<ent, entPlace, entities, at, lockVars, EID, reg, socket,
                    timerVars, hostVars>>
    BY <1>22 DEF KickMark
  <2>5. QED
    BY <2>1, <2>2, <2>3, <2>4
<1>23. ASSUME NEW c \in Conns, KickUnlist(c) PROVE TypeOK'
  BY <1>23 DEF KickUnlist, Goto
<1>24. ASSUME NEW c \in Conns, KickUnlisted(c) PROVE TypeOK'
  BY <1>24 DEF KickUnlisted, Goto
<1>25. ASSUME NEW c \in Conns, HangUp(c) PROVE TypeOK'
  BY <1>25 DEF HangUp
<1>26. ASSUME NEW c \in Conns, SendTo(c) PROVE TypeOK'
  BY <1>26 DEF SendTo
<1>27. ASSUME NEW c \in Conns, SendKick(c) PROVE TypeOK'
  <2>1. data' \in [Conns -> Data]
    BY <1>27, MarkDeadType DEF SendKick
  <2>2. QED
    BY <1>27, <2>1 DEF SendKick
<1>28. ASSUME NEW s \in Slots, Bury(s) PROVE TypeOK'
  BY <1>28 DEF Bury, Modified
<1>29. ASSUME NEW s \in Slots, Animate(s) PROVE TypeOK'
  <2>1. ent[s] \in Conns
    BY <1>29 DEF Animate, FrameSafe, IndexAgreement
  <2>2. at' \in [Conns -> Places] /\ entities' \in [Places -> Slots \cup {NoSlot}]
    <3>1. PICK to \in [Indexed -> Places] : Placed(to)
      BY <1>29 DEF Animate, Placed
    <3>2. Indexed \subseteq Slots
      BY DEF Indexed
    <3> QED
      BY <3>1, <3>2 DEF Placed
  <2>3. anim' \in [obj : Conns \cup {NoEntity}, val : Data]
    BY <1>29, <2>1 DEF Animate
  <2>4. stopper' \in {"off", "saving", "torn", "farewell", "gone"}
    BY <1>29 DEF Animate, Modified
  <2>5. QED
    BY <1>29, <2>2, <2>3, <2>4 DEF Animate
<1>30. ASSUME FrameStart PROVE TypeOK'
  BY <1>30 DEF FrameStart, Indexed
<1>31. ASSUME FrameLost PROVE TypeOK'
  BY <1>31 DEF FrameLost, vars
<1>32. ASSUME ClearBits PROVE TypeOK'
  <2>1. anim' \in [obj : Conns \cup {NoEntity}, val : Data]
    BY <1>32 DEF ClearBits, NoAnim, NoData, Data
  <2>2. [anim.val EXCEPT !.go = FALSE] \in Data
    BY SetGo
  <2>3. data' \in [Conns -> Data]
    BY <1>32, <2>2 DEF ClearBits
  <2>4. QED
    BY <1>32, <2>1, <2>3 DEF ClearBits
<1>33. ASSUME SendStart PROVE TypeOK'
  BY <1>33 DEF SendStart
<1>34. ASSUME FrameFails PROVE TypeOK'
  BY <1>34 DEF FrameFails, SysExit
<1>35. ASSUME FrameEnd PROVE TypeOK'
  BY <1>35 DEF FrameEnd
<1>36. ASSUME Stop PROVE TypeOK'
  BY <1>36 DEF Stop
<1>37. ASSUME SaveEnd PROVE TypeOK'
  BY <1>37 DEF SaveEnd
<1>38. ASSUME Farewell PROVE TypeOK'
  BY <1>38 DEF Farewell
<1>39. ASSUME Halted PROVE TypeOK'
  BY <1>39 DEF Halted, vars
<1>40. ASSUME NEW c \in Conns, Grasp(c) PROVE TypeOK'
  <2>1. ent[EID[c]] \in Objects
    BY <1>40 DEF Grasp, Goto, HasSlot
  <2> DEFINE m == socket[c] = "eof"
  <2>2. reg' = [reg EXCEPT ![c] = [@ EXCEPT !.obj = ent[EID[c]], !.end = m]]
    BY <1>40 DEF Grasp
  <2> HIDE DEF m
  <2>3. [reg[c] EXCEPT !.obj = ent[EID[c]], !.end = m] \in Regs
    BY <2>1, RegGrasp DEF m
  <2>4. reg' \in [Conns -> Regs]
    BY <2>2, <2>3
  <2>5. QED
    BY <1>40, <2>4 DEF Grasp, Goto
<1>90. CASE UNCHANGED vars
  BY <1>90 DEF vars
<1> QED
  BY <1>1, <1>2, <1>3, <1>4, <1>5, <1>6, <1>7, <1>8, <1>9, <1>10, <1>11, <1>12, <1>13, <1>14,
       <1>15, <1>16, <1>17, <1>18, <1>19, <1>20, <1>21, <1>22, <1>23, <1>24, <1>25, <1>26,
       <1>27, <1>28, <1>29, <1>30, <1>31, <1>32, <1>33, <1>34, <1>35, <1>36, <1>37, <1>38,
       <1>39, <1>40, <1>90
  DEF Next, Login, Join, Input, Kick, Frame, Shutdown

\* Every step of the host keeps the other parts of the inductive invariant.
LEMMA CoreStep == IInv /\ TypeOK' /\ [Next]_vars
                  => HasSlot' /\ SlotOwnership' /\ IndexAgreement' /\ LockInv' /\ FrameSafe'
<1> SUFFICES ASSUME IInv, TypeOK', [Next]_vars
             PROVE  HasSlot' /\ SlotOwnership' /\ IndexAgreement' /\ LockInv' /\ FrameSafe'
  OBVIOUS
<1> DEFINE Core == HasSlot /\ SlotOwnership /\ IndexAgreement /\ LockInv /\ FrameSafe
<1> USE Distinct DEF LockFree, LeaveMonitor, NoLongerAlive, Unindexed, IInv, TypeOK, HasSlot,
     SlotOwnership, IndexAgreement, LockInv, FrameSafe,
        Reserved, Entered, levelVars, lockVars, connVars, timerVars, hostVars
<1>1. ASSUME NEW c \in Conns, Connect(c) PROVE Core'
  BY <1>1 DEF Connect, Goto
<1>2. ASSUME NEW c \in Conns, Reserve(c) PROVE Core'
  BY <1>2 DEF Reserve, Goto, FreeSlots
<1>3. ASSUME NEW c \in Conns, AcceptFails(c) PROVE Core'
  BY <1>3 DEF AcceptFails, Goto
<1>4. ASSUME NEW c \in Conns, AuthAccept(c) PROVE Core'
  BY <1>4 DEF AuthAccept, Goto
<1>5. ASSUME NEW c \in Conns, AuthReject(c) PROVE Core'
  BY <1>5 DEF AuthReject, Goto
<1>6. ASSUME NEW c \in Conns, AuthThrows(c) PROVE Core'
  BY <1>6 DEF AuthThrows, Goto
<1>7. ASSUME NEW c \in Conns, VersionAccept(c) PROVE Core'
  BY <1>7 DEF VersionAccept, Goto
<1>8. ASSUME NEW c \in Conns, VersionReject(c) PROVE Core'
  BY <1>8 DEF VersionReject, Goto, TurnAway
<1>9. ASSUME NEW c \in Conns, HandshakeThrows(c) PROVE Core'
  BY <1>9 DEF HandshakeThrows, Goto
<1>10. ASSUME NEW c \in Conns, SpawnClear(c) PROVE Core'
  BY <1>10 DEF SpawnClear, Goto
<1>11. ASSUME NEW c \in Conns, SpawnBlocked(c) PROVE Core'
  BY <1>11 DEF SpawnBlocked, Goto, TurnAway
<1>12. ASSUME NEW c \in Conns, LockForJoin(c) PROVE Core'
  BY <1>12 DEF LockForJoin, Goto
<1>13. ASSUME NEW c \in Conns, SpawnEntity(c) PROVE Core'
  BY <1>13 DEF SpawnEntity, Goto
<1>14. ASSUME NEW c \in Conns, SendLevel(c) PROVE Core'
  BY <1>14 DEF SendLevel, Goto
<1>15. ASSUME NEW c \in Conns, SendLevelThrows(c) PROVE Core'
  BY <1>15 DEF SendLevelThrows, Goto
<1>16. ASSUME NEW c \in Conns, EnterList(c) PROVE Core'
  BY <1>16 DEF EnterList, Goto
<1>17. ASSUME NEW c \in Conns, Enter(c) PROVE Core'
  BY <1>17 DEF Enter, Goto
<1>18. ASSUME NEW c \in Conns, Load(c) PROVE Core'
  BY <1>18 DEF Load, Goto
<1>19. ASSUME NEW c \in Conns, Store(c) PROVE Core'
  BY <1>19 DEF Store, Goto
<1>20. ASSUME NEW c \in Conns, InputThrows(c) PROVE Core'
  BY <1>20 DEF InputThrows, Goto
<1>21. ASSUME NEW c \in Conns, Caught(c) PROVE Core'
  BY <1>21 DEF Caught, Goto
<1>22. ASSUME NEW c \in Conns, KickMark(c) PROVE Core'
  BY <1>22 DEF KickMark, Goto
<1>23. ASSUME NEW c \in Conns, KickUnlist(c) PROVE Core'
  BY <1>23 DEF KickUnlist, Goto
<1>24. ASSUME NEW c \in Conns, KickUnlisted(c) PROVE Core'
  BY <1>24 DEF KickUnlisted, Goto
<1>25. ASSUME NEW c \in Conns, HangUp(c) PROVE Core'
  BY <1>25 DEF HangUp
<1>26. ASSUME NEW c \in Conns, SendTo(c) PROVE Core'
  BY <1>26 DEF SendTo
<1>27. ASSUME NEW c \in Conns, SendKick(c) PROVE Core'
  BY <1>27 DEF SendKick
<1>28. ASSUME NEW s \in Slots, Bury(s) PROVE Core'
  <2> DEFINE e == ent[s]
  <2>1. e \in Conns /\ entities[at[e]] = s
    BY <1>28 DEF Bury
  <2>2. FrameSafe'
    BY <1>28, <2>1 DEF Bury
  <2>3. IndexAgreement'
    BY <1>28, <2>1 DEF Bury
  <2> QED
    BY <1>28, <2>1, <2>2, <2>3 DEF Bury
<1>29. ASSUME NEW s \in Slots, Animate(s) PROVE Core'
  <2>1. PICK to \in [Indexed -> Places] :
          Placed(to) /\ \A q, r \in Indexed : to[q] = to[r] => q = r
    BY <1>29 DEF Animate, Placed
  <2>2. Indexed \subseteq Slots /\ \A q \in Indexed : ent[q] \in Conns /\ EID[ent[q]] = q
    BY DEF Indexed
  <2>3. \A p \in Places : entities'[p] # NoSlot =>
          entities'[p] \in Indexed /\ to[entities'[p]] = p
    BY <2>1 DEF Placed
  <2>4. \A q \in Indexed : entities'[to[q]] = q
    BY <2>1 DEF Placed
  <2>5. IndexAgreement'
    BY <1>29, <2>1, <2>2, <2>3 DEF Animate, Placed
  <2>6. FrameSafe'
    <3>1. todo \subseteq Indexed
      BY DEF Indexed
    <3> QED
      BY <1>29, <2>1, <2>4, <3>1 DEF Animate
  <2>7. /\ UNCHANGED <<ent, pc, EID, Locker>>
        /\ frame = "animate" /\ frame' = "clear"
    BY <1>29 DEF Animate
  <2>8. HasSlot' /\ SlotOwnership' /\ LockInv'
    BY <2>7
  <2> QED
    BY <2>5, <2>6, <2>8
<1>30. ASSUME FrameStart PROVE Core'
  BY <1>30 DEF FrameStart, Indexed
<1>31. ASSUME FrameLost PROVE Core'
  BY <1>31 DEF FrameLost, vars
<1>32. ASSUME ClearBits PROVE Core'
  BY <1>32 DEF ClearBits
<1>33. ASSUME SendStart PROVE Core'
  BY <1>33 DEF SendStart
<1>34. ASSUME FrameFails PROVE Core'
  BY <1>34 DEF FrameFails
<1>35. ASSUME FrameEnd PROVE Core'
  BY <1>35 DEF FrameEnd
<1>36. ASSUME Stop PROVE Core'
  BY <1>36 DEF Stop
<1>37. ASSUME SaveEnd PROVE Core'
  BY <1>37 DEF SaveEnd
<1>38. ASSUME Farewell PROVE Core'
  BY <1>38 DEF Farewell
<1>39. ASSUME Halted PROVE Core'
  BY <1>39 DEF Halted, vars
<1>40. ASSUME NEW c \in Conns, Grasp(c) PROVE Core'
  BY <1>40 DEF Grasp, Goto
<1>90. CASE UNCHANGED vars
  BY <1>90 DEF vars
<1> QED
  BY <1>1, <1>2, <1>3, <1>4, <1>5, <1>6, <1>7, <1>8, <1>9, <1>10, <1>11, <1>12, <1>13, <1>14,
       <1>15, <1>16, <1>17, <1>18, <1>19, <1>20, <1>21, <1>22, <1>23, <1>24, <1>25, <1>26,
       <1>27, <1>28, <1>29, <1>30, <1>31, <1>32, <1>33, <1>34, <1>35, <1>36, <1>37, <1>38,
       <1>39, <1>40, <1>90
  DEF Next, Login, Join, Input, Kick, Frame, Shutdown

\* The inductive invariant holds of every behaviour of the host.
THEOREM Invariance == Spec => []IInv
<1>1. Init => IInv
  BY Distinct, ConstantsOK
  DEF Init, IInv, TypeOK, Phases, Objects, Regs, Data, NoData, NoReg, NoAnim, HasSlot,
      SlotOwnership, IndexAgreement, LockInv, FrameSafe, Reserved, Entered, Slots
<1>2. IInv /\ [Next]_vars => IInv'
  BY TypeStep, CoreStep DEF IInv
<1> QED
  BY <1>1, <1>2, PTL DEF Spec

\* Every variable of the host keeps its type.
THEOREM TypeCorrect == Spec => []TypeOK
BY Invariance, PTL DEF IInv

\* Whatever logins, frames, kicks and broken connections interleave, a login
\* owns its slot and an occupied slot belongs to the session that filled it.
THEOREM SlotsAreOwned == Spec => []SlotOwnership
BY Invariance, PTL DEF IInv

\* The index, the slots and the coordinates of entities never disagree.
THEOREM IndexAgrees == Spec => []IndexAgreement
BY Invariance, PTL DEF IInv

\* The timer never calls animate() on an emptied slot.
THEOREM FramesAreSafe == Spec => []FrameSafe
BY Invariance, PTL DEF IInv

\* A step that changes neither the slots nor the stage of a login stutters.
LEMMA Quiet ==
    ASSUME UNCHANGED <<ent, EID>>, \A c \in Conns : Stage(c)' = Stage(c)
    PROVE  UNCHANGED Pool!vars
BY DEF Pool!vars

\* The stage of one login moves on and no other does.
LEMMA StageChange ==
    ASSUME NEW c \in Conns, NEW w, Stage(c)' = w,
           \A d \in Conns \ {c} : Stage(d)' = Stage(d)
    PROVE  [d \in Conns |-> Stage(d)]' = [[d \in Conns |-> Stage(d)] EXCEPT ![c] = w]
OBVIOUS

\* Every step of the host is a step of SlotPool or leaves the pool alone.
LEMMA PoolStep == IInv /\ TypeOK' /\ [Next]_vars => [Pool!Next]_(Pool!vars)
<1> SUFFICES ASSUME IInv, TypeOK', [Next]_vars
             PROVE  [Pool!Next]_(Pool!vars)
  OBVIOUS
<1> USE Distinct DEF LockFree, LeaveMonitor, NoLongerAlive, Unindexed, IInv, TypeOK, levelVars,
     lockVars, connVars, timerVars, hostVars
<1>1. ASSUME NEW c \in Conns, Reserve(c) PROVE [Pool!Next]_(Pool!vars)
  <2>1. /\ Stage(c) = "none" /\ Stage(c)' = "pending"
        /\ \A d \in Conns \ {c} : Stage(d)' = Stage(d)
    BY <1>1 DEF Reserve, Goto, Stage, Reserved
  <2>2. \E t \in Slots : /\ ent[t] = NoEntity /\ ent' = [ent EXCEPT ![t] = Placeholder]
                      /\ EID' = [EID EXCEPT ![c] = t]
    BY <1>1 DEF Reserve, Goto, FreeSlots
  <2>3. Pool!Take(c)
    BY <2>1, <2>2, StageChange DEF Pool!Take
  <2> QED
    BY <2>3 DEF Pool!Next
<1>2. ASSUME NEW c \in Conns, AcceptFails(c) PROVE [Pool!Next]_(Pool!vars)
  <2>1. /\ Stage(c) = "none" /\ Stage(c)' = "over"
        /\ \A d \in Conns \ {c} : Stage(d)' = Stage(d)
    BY <1>2 DEF AcceptFails, Goto, Stage, Reserved
  <2>2. UNCHANGED <<ent, EID>>
    BY <1>2 DEF AcceptFails, Goto
  <2>3. Pool!TurnedAway(c)
    BY <2>1, <2>2, StageChange DEF Pool!TurnedAway
  <2> QED
    BY <2>3 DEF Pool!Next
<1>3. ASSUME NEW c \in Conns, AuthReject(c) PROVE [Pool!Next]_(Pool!vars)
  <2>1. /\ Stage(c) = "pending" /\ Stage(c)' = "over"
        /\ \A d \in Conns \ {c} : Stage(d)' = Stage(d)
    BY <1>3 DEF AuthReject, Goto, Stage, Reserved
  <2>2. /\ EID[c] \in Slots /\ ent[EID[c]] = Placeholder
        /\ ent' = [ent EXCEPT ![EID[c]] = Placeholder] /\ UNCHANGED EID
    BY <1>3 DEF AuthReject, Goto, Reserved, HasSlot, SlotOwnership
  <2>3. Pool!Abandon(c)
    BY <2>1, <2>2, StageChange DEF Pool!Abandon, Pool!Finish
  <2> QED
    BY <2>3 DEF Pool!Next
<1>4. ASSUME NEW c \in Conns, AuthThrows(c) PROVE [Pool!Next]_(Pool!vars)
  <2>1. /\ Stage(c) = "pending" /\ Stage(c)' = "over"
        /\ \A d \in Conns \ {c} : Stage(d)' = Stage(d)
    BY <1>4 DEF AuthThrows, Goto, Stage, Reserved
  <2>2. /\ EID[c] \in Slots /\ ent[EID[c]] = Placeholder
        /\ ent' = [ent EXCEPT ![EID[c]] = NoEntity] /\ UNCHANGED EID
    BY <1>4 DEF AuthThrows, Goto, Reserved, HasSlot, SlotOwnership
  <2>3. Pool!Return(c)
    BY <2>1, <2>2, StageChange DEF Pool!Return, Pool!Finish
  <2> QED
    BY <2>3 DEF Pool!Next
<1>5. ASSUME NEW c \in Conns, VersionReject(c) PROVE [Pool!Next]_(Pool!vars)
  <2>1. /\ Stage(c) = "pending" /\ Stage(c)' = "over"
        /\ \A d \in Conns \ {c} : Stage(d)' = Stage(d)
    BY <1>5 DEF VersionReject, Goto, TurnAway, Stage, Reserved
  <2>2. /\ EID[c] \in Slots /\ ent[EID[c]] = Placeholder
        /\ ent' = [ent EXCEPT ![EID[c]] = NoEntity] /\ UNCHANGED EID
    BY <1>5 DEF VersionReject, Goto, TurnAway, Reserved, HasSlot, SlotOwnership
  <2>3. Pool!Return(c)
    BY <2>1, <2>2, StageChange DEF Pool!Return, Pool!Finish
  <2> QED
    BY <2>3 DEF Pool!Next
<1>6. ASSUME NEW c \in Conns, SpawnBlocked(c) PROVE [Pool!Next]_(Pool!vars)
  <2>1. /\ Stage(c) = "pending" /\ Stage(c)' = "over"
        /\ \A d \in Conns \ {c} : Stage(d)' = Stage(d)
    BY <1>6 DEF SpawnBlocked, Goto, TurnAway, Stage, Reserved
  <2>2. /\ EID[c] \in Slots /\ ent[EID[c]] = Placeholder
        /\ ent' = [ent EXCEPT ![EID[c]] = NoEntity] /\ UNCHANGED EID
    BY <1>6 DEF SpawnBlocked, Goto, TurnAway, Reserved, HasSlot, SlotOwnership
  <2>3. Pool!Return(c)
    BY <2>1, <2>2, StageChange DEF Pool!Return, Pool!Finish
  <2> QED
    BY <2>3 DEF Pool!Next
<1>7. ASSUME NEW c \in Conns, HandshakeThrows(c) PROVE [Pool!Next]_(Pool!vars)
  <2>1. /\ Stage(c) = "pending" /\ Stage(c)' = "over"
        /\ \A d \in Conns \ {c} : Stage(d)' = Stage(d)
    BY <1>7 DEF HandshakeThrows, Goto, Stage, Reserved
  <2>2. /\ EID[c] \in Slots /\ ent[EID[c]] = Placeholder
        /\ ent' = [ent EXCEPT ![EID[c]] = Placeholder] /\ UNCHANGED EID
    BY <1>7 DEF HandshakeThrows, Goto, Reserved, HasSlot, SlotOwnership
  <2>3. Pool!Abandon(c)
    BY <2>1, <2>2, StageChange DEF Pool!Abandon, Pool!Finish
  <2> QED
    BY <2>3 DEF Pool!Next
<1>8. ASSUME NEW c \in Conns, SpawnEntity(c) PROVE [Pool!Next]_(Pool!vars)
  <2>1. /\ Stage(c) = "pending" /\ Stage(c)' = "over"
        /\ \A d \in Conns \ {c} : Stage(d)' = Stage(d)
    BY <1>8 DEF SpawnEntity, Goto, Stage, Reserved
  <2>2. /\ EID[c] \in Slots /\ ent[EID[c]] = Placeholder
        /\ ent' = [ent EXCEPT ![EID[c]] = c] /\ UNCHANGED EID
    BY <1>8 DEF SpawnEntity, Goto, Reserved, HasSlot, SlotOwnership
  <2>3. Pool!Occupy(c)
    BY <2>1, <2>2, StageChange DEF Pool!Occupy, Pool!Finish
  <2> QED
    BY <2>3 DEF Pool!Next
<1>9. ASSUME NEW s \in Slots, Bury(s) PROVE [Pool!Next]_(Pool!vars)
  <2>1. Pool!Vacate(s)
    BY <1>9 DEF Bury, Stage, Reserved, FrameSafe, IndexAgreement, Pool!Vacate
  <2> QED
    BY <2>1 DEF Pool!Next
<1>10. ASSUME NEW c \in Conns, Connect(c) PROVE [Pool!Next]_(Pool!vars)
  BY <1>10, Quiet DEF Connect, Goto, Stage, Reserved
<1>11. ASSUME NEW c \in Conns, AuthAccept(c) PROVE [Pool!Next]_(Pool!vars)
  BY <1>11, Quiet DEF AuthAccept, Goto, Stage, Reserved
<1>12. ASSUME NEW c \in Conns, VersionAccept(c) PROVE [Pool!Next]_(Pool!vars)
  BY <1>12, Quiet DEF VersionAccept, Goto, Stage, Reserved
<1>13. ASSUME NEW c \in Conns, SpawnClear(c) PROVE [Pool!Next]_(Pool!vars)
  BY <1>13, Quiet DEF SpawnClear, Goto, Stage, Reserved
<1>14. ASSUME NEW c \in Conns, LockForJoin(c) PROVE [Pool!Next]_(Pool!vars)
  BY <1>14, Quiet DEF LockForJoin, Goto, Stage, Reserved
<1>15. ASSUME NEW c \in Conns, SendLevel(c) PROVE [Pool!Next]_(Pool!vars)
  BY <1>15, Quiet DEF SendLevel, Goto, Stage, Reserved
<1>16. ASSUME NEW c \in Conns, SendLevelThrows(c) PROVE [Pool!Next]_(Pool!vars)
  BY <1>16, Quiet DEF SendLevelThrows, Goto, Stage, Reserved
<1>17. ASSUME NEW c \in Conns, EnterList(c) PROVE [Pool!Next]_(Pool!vars)
  BY <1>17, Quiet DEF EnterList, Goto, Stage, Reserved
<1>18. ASSUME NEW c \in Conns, Enter(c) PROVE [Pool!Next]_(Pool!vars)
  BY <1>18, Quiet DEF Enter, Goto, Stage, Reserved
<1>19. ASSUME NEW c \in Conns, Load(c) PROVE [Pool!Next]_(Pool!vars)
  BY <1>19, Quiet DEF Load, Goto, Stage, Reserved
<1>20. ASSUME NEW c \in Conns, Store(c) PROVE [Pool!Next]_(Pool!vars)
  BY <1>20, Quiet DEF Store, Goto, Stage, Reserved
<1>21. ASSUME NEW c \in Conns, InputThrows(c) PROVE [Pool!Next]_(Pool!vars)
  BY <1>21, Quiet DEF InputThrows, Goto, Stage, Reserved
<1>22. ASSUME NEW c \in Conns, Caught(c) PROVE [Pool!Next]_(Pool!vars)
  BY <1>22, Quiet DEF Caught, Goto, Stage, Reserved
<1>23. ASSUME NEW c \in Conns, KickMark(c) PROVE [Pool!Next]_(Pool!vars)
  BY <1>23, Quiet DEF KickMark, Goto, Stage, Reserved
<1>24. ASSUME NEW c \in Conns, KickUnlist(c) PROVE [Pool!Next]_(Pool!vars)
  BY <1>24, Quiet DEF KickUnlist, Goto, Stage, Reserved
<1>25. ASSUME NEW c \in Conns, KickUnlisted(c) PROVE [Pool!Next]_(Pool!vars)
  BY <1>25, Quiet DEF KickUnlisted, Goto, Stage, Reserved
<1>26. ASSUME NEW c \in Conns, HangUp(c) PROVE [Pool!Next]_(Pool!vars)
  BY <1>26, Quiet DEF HangUp, Goto, Stage, Reserved
<1>27. ASSUME NEW c \in Conns, SendTo(c) PROVE [Pool!Next]_(Pool!vars)
  BY <1>27, Quiet DEF SendTo, Goto, Stage, Reserved
<1>28. ASSUME NEW c \in Conns, SendKick(c) PROVE [Pool!Next]_(Pool!vars)
  BY <1>28, Quiet DEF SendKick, Goto, Stage, Reserved
<1>29. ASSUME NEW s \in Slots, Animate(s) PROVE [Pool!Next]_(Pool!vars)
  BY <1>29, Quiet DEF Animate, Stage, Reserved
<1>30. ASSUME FrameStart PROVE [Pool!Next]_(Pool!vars)
  BY <1>30, Quiet DEF FrameStart, vars, Stage, Reserved
<1>31. ASSUME FrameLost PROVE [Pool!Next]_(Pool!vars)
  BY <1>31, Quiet DEF FrameLost, vars, Stage, Reserved
<1>32. ASSUME ClearBits PROVE [Pool!Next]_(Pool!vars)
  BY <1>32, Quiet DEF ClearBits, vars, Stage, Reserved
<1>33. ASSUME SendStart PROVE [Pool!Next]_(Pool!vars)
  BY <1>33, Quiet DEF SendStart, vars, Stage, Reserved
<1>34. ASSUME FrameFails PROVE [Pool!Next]_(Pool!vars)
  BY <1>34, Quiet DEF FrameFails, vars, Stage, Reserved
<1>35. ASSUME FrameEnd PROVE [Pool!Next]_(Pool!vars)
  BY <1>35, Quiet DEF FrameEnd, vars, Stage, Reserved
<1>36. ASSUME Stop PROVE [Pool!Next]_(Pool!vars)
  BY <1>36, Quiet DEF Stop, vars, Stage, Reserved
<1>37. ASSUME SaveEnd PROVE [Pool!Next]_(Pool!vars)
  BY <1>37, Quiet DEF SaveEnd, vars, Stage, Reserved
<1>38. ASSUME Farewell PROVE [Pool!Next]_(Pool!vars)
  BY <1>38, Quiet DEF Farewell, vars, Stage, Reserved
<1>39. ASSUME Halted PROVE [Pool!Next]_(Pool!vars)
  BY <1>39, Quiet DEF Halted, vars, Stage, Reserved
<1>40. ASSUME NEW c \in Conns, Grasp(c) PROVE [Pool!Next]_(Pool!vars)
  BY <1>40, Quiet DEF Grasp, Goto, Stage, Reserved
<1>90. CASE UNCHANGED vars
  BY <1>90, Quiet DEF vars, Stage, Reserved
<1> QED
  BY <1>1, <1>2, <1>3, <1>4, <1>5, <1>6, <1>7, <1>8, <1>9, <1>10, <1>11, <1>12, <1>13, <1>14,
       <1>15, <1>16, <1>17, <1>18, <1>19, <1>20, <1>21, <1>22, <1>23, <1>24, <1>25, <1>26,
       <1>27, <1>28, <1>29, <1>30, <1>31, <1>32, <1>33, <1>34, <1>35, <1>36, <1>37, <1>38,
       <1>39, <1>40, <1>90
  DEF Next, Login, Join, Input, Kick, Frame, Shutdown

\* The host implements SlotPool: the slots of the level are handed out, filled
\* and freed as promised, for every number of slots and connections.
THEOREM HostImplementsSlotPool == Spec => PoolSpec
<1>1. Init => Pool!Init
  BY DEF Init, Pool!Init, Stage, Reserved
<1>2. IInv /\ IInv' /\ [Next]_vars => [Pool!Next]_(Pool!vars)
  BY PoolStep DEF IInv
<1> QED
  BY <1>1, <1>2, Invariance, PTL DEF Spec, PoolSpec, Pool!Spec

-----------------------------------------------------------------------------
\* The input loop of c holds the monitor of an entity.
Inside(c) == pc[c] \in {"entered", "loaded"}

\* One thread at a time is inside synchronized(e): an input loop, or the timer
\* with an update of e pending.  And while a session has its player, that is
\* the object it noted, locked and loaded, as nobody puts a player back.
RaceInv ==
    /\ \A c \in Conns : reg[c].mon \in Conns =>
           /\ anim.obj # reg[c].mon
           /\ \A d \in Conns \ {c} : reg[d].mon # reg[c].mon
    /\ \A c \in Conns : Inside(c) /\ ent[EID[c]] = c => reg[c].mon = c
    /\ \A c \in Conns : (pc[c] = "grasped" \/ Inside(c)) /\ ent[EID[c]] = c => reg[c].obj = c

\* Every step keeps RaceInv.
LEMMA RaceStep == IInv /\ TypeOK' /\ RaceInv /\ [Next]_vars => RaceInv'
<1> SUFFICES ASSUME IInv, TypeOK', RaceInv, [Next]_vars
             PROVE  RaceInv'
  OBVIOUS
<1> USE Distinct DEF LockFree, LeaveMonitor, NoLongerAlive, Unindexed, IInv, TypeOK, HasSlot,
     SlotOwnership, Reserved, Entered, RaceInv, Inside, levelVars, lockVars, connVars,
     timerVars, hostVars
<1>1. ASSUME NEW c \in Conns, Connect(c) PROVE RaceInv'
  BY <1>1 DEF Connect, Goto
<1>2. ASSUME NEW c \in Conns, Reserve(c) PROVE RaceInv'
  BY <1>2 DEF Reserve, Goto, FreeSlots
<1>3. ASSUME NEW c \in Conns, AcceptFails(c) PROVE RaceInv'
  BY <1>3 DEF AcceptFails, Goto
<1>4. ASSUME NEW c \in Conns, AuthAccept(c) PROVE RaceInv'
  BY <1>4 DEF AuthAccept, Goto
<1>5. ASSUME NEW c \in Conns, AuthReject(c) PROVE RaceInv'
  BY <1>5 DEF AuthReject, Goto
<1>6. ASSUME NEW c \in Conns, AuthThrows(c) PROVE RaceInv'
  BY <1>6 DEF AuthThrows, Goto
<1>7. ASSUME NEW c \in Conns, VersionAccept(c) PROVE RaceInv'
  BY <1>7 DEF VersionAccept, Goto
<1>8. ASSUME NEW c \in Conns, VersionReject(c) PROVE RaceInv'
  BY <1>8 DEF VersionReject, Goto, TurnAway
<1>9. ASSUME NEW c \in Conns, HandshakeThrows(c) PROVE RaceInv'
  BY <1>9 DEF HandshakeThrows, Goto
<1>10. ASSUME NEW c \in Conns, SpawnClear(c) PROVE RaceInv'
  BY <1>10 DEF SpawnClear, Goto
<1>11. ASSUME NEW c \in Conns, SpawnBlocked(c) PROVE RaceInv'
  BY <1>11 DEF SpawnBlocked, Goto, TurnAway
<1>12. ASSUME NEW c \in Conns, LockForJoin(c) PROVE RaceInv'
  BY <1>12 DEF LockForJoin, Goto
<1>13. ASSUME NEW c \in Conns, SpawnEntity(c) PROVE RaceInv'
  BY <1>13 DEF SpawnEntity, Goto
<1>14. ASSUME NEW c \in Conns, SendLevel(c) PROVE RaceInv'
  BY <1>14 DEF SendLevel, Goto
<1>15. ASSUME NEW c \in Conns, SendLevelThrows(c) PROVE RaceInv'
  BY <1>15 DEF SendLevelThrows, Goto
<1>16. ASSUME NEW c \in Conns, EnterList(c) PROVE RaceInv'
  BY <1>16 DEF EnterList, Goto
<1>17. ASSUME NEW c \in Conns, Enter(c) PROVE RaceInv'
  BY <1>17 DEF Enter, Goto, MonitorFree
<1>18. ASSUME NEW c \in Conns, Load(c) PROVE RaceInv'
  BY <1>18 DEF Load, Goto
<1>19. ASSUME NEW c \in Conns, Store(c) PROVE RaceInv'
  BY <1>19 DEF Store, Goto, NoReg
<1>20. ASSUME NEW c \in Conns, InputThrows(c) PROVE RaceInv'
  BY <1>20 DEF InputThrows, Goto, NoReg
<1>21. ASSUME NEW c \in Conns, Caught(c) PROVE RaceInv'
  BY <1>21 DEF Caught, Goto
<1>22. ASSUME NEW c \in Conns, KickMark(c) PROVE RaceInv'
  BY <1>22 DEF KickMark, Goto
<1>23. ASSUME NEW c \in Conns, KickUnlist(c) PROVE RaceInv'
  BY <1>23 DEF KickUnlist, Goto
<1>24. ASSUME NEW c \in Conns, KickUnlisted(c) PROVE RaceInv'
  BY <1>24 DEF KickUnlisted, Goto
<1>25. ASSUME NEW c \in Conns, HangUp(c) PROVE RaceInv'
  BY <1>25 DEF HangUp
<1>26. ASSUME NEW c \in Conns, SendTo(c) PROVE RaceInv'
  BY <1>26 DEF SendTo
<1>27. ASSUME NEW c \in Conns, SendKick(c) PROVE RaceInv'
  BY <1>27 DEF SendKick
<1>28. ASSUME NEW s \in Slots, Bury(s) PROVE RaceInv'
  BY <1>28 DEF Bury
<1>29. ASSUME NEW s \in Slots, Animate(s) PROVE RaceInv'
  BY <1>29 DEF Animate, MonitorFree
<1>30. ASSUME ClearBits PROVE RaceInv'
  BY <1>30 DEF ClearBits, NoAnim
<1>31. ASSUME FrameStart PROVE RaceInv'
  BY <1>31 DEF FrameStart
<1>32. ASSUME FrameLost PROVE RaceInv'
  BY <1>32 DEF FrameLost, vars
<1>33. ASSUME SendStart PROVE RaceInv'
  BY <1>33 DEF SendStart
<1>34. ASSUME FrameFails PROVE RaceInv'
  BY <1>34 DEF FrameFails
<1>35. ASSUME FrameEnd PROVE RaceInv'
  BY <1>35 DEF FrameEnd
<1>36. ASSUME Stop PROVE RaceInv'
  BY <1>36 DEF Stop
<1>37. ASSUME SaveEnd PROVE RaceInv'
  BY <1>37 DEF SaveEnd
<1>38. ASSUME Farewell PROVE RaceInv'
  BY <1>38 DEF Farewell
<1>39. ASSUME Halted PROVE RaceInv'
  BY <1>39 DEF Halted, vars
<1>40. ASSUME NEW c \in Conns, Grasp(c) PROVE RaceInv'
  BY <1>40 DEF Grasp, Goto
<1>90. CASE UNCHANGED vars
  BY <1>90 DEF vars
<1> QED
  BY <1>1, <1>2, <1>3, <1>4, <1>5, <1>6, <1>7, <1>8, <1>9, <1>10, <1>11, <1>12, <1>13, <1>14,
       <1>15, <1>16, <1>17, <1>18, <1>19, <1>20, <1>21, <1>22, <1>23, <1>24, <1>25, <1>26,
       <1>27, <1>28, <1>29, <1>30, <1>31, <1>32, <1>33, <1>34, <1>35, <1>36, <1>37, <1>38,
       <1>39, <1>40, <1>90
  DEF Next, Login, Join, Input, Kick, Frame, Shutdown

\* The input that a session gives its own player is not lost to an update that
\* the timer, or a session that locked the same player, makes at the same time,
\* although ent[EID] is evaluated once to be locked and again to be updated.
THEOREM InputsAreKept == Spec => []UpdatesApart
<1>1. Init => RaceInv
  BY Distinct DEF Init, RaceInv, Inside, NoReg, NoAnim
<1>2. IInv /\ IInv' /\ RaceInv /\ [Next]_vars => RaceInv'
  BY RaceStep DEF IInv
<1>3. RaceInv => UpdatesApart
  BY DEF RaceInv, Inside, UpdatesApart, Updating
<1> QED
  BY <1>1, <1>2, <1>3, Invariance, PTL DEF Spec
=============================================================================
