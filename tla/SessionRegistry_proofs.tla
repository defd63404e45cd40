----------------------- MODULE SessionRegistry_proofs -----------------------
(***************************************************************************)
(* Proofs about SessionRegistry, for every set of sessions and handlers.   *)
(*                                                                         *)
(* No session is lost: LostInv is the inductive invariant, and each lemma  *)
(* shows that one of its conjuncts survives every action.                  *)
(*                                                                         *)
(* The single Redis commands implement AtomicRegistry and leave index sets *)
(* that say what the records say: ExactInv is the inductive invariant.     *)
(* ExactFor(s) is about one session, and so is every command: a session a  *)
(* command does not touch keeps it by FrameKeeps, the session of the       *)
(* command by OwnKeeps and one lemma for each command.                     *)
(***************************************************************************)
EXTENDS SessionRegistry, TLAPS

(* The six sets delete_session and the clean-up visit are index sets.       *)
LEMMA LenStatusSets ==
  Len(StatusSets) = 6 /\ \A k \in 1..6 : StatusSets[k] \in Indexed
  BY DEF StatusSets, Indexed, Status

(* Names used by all the steps below.                                       *)
LEMMA IndexedStatus == Indexed \subseteq Status /\ "active" \in Indexed
  BY DEF Indexed, Status

(* Goto and Return keep the calls in their type.                            *)
LEMMA GotoType ==
  ASSUME TypeOK, NEW h \in Handler
  PROVE  /\ \A pc \in PCs : Goto(h, pc) \in [Handler -> Ops]
         /\ Return(h) \in [Handler -> Ops]
<1>1. op[h] \in Ops
  BY DEF TypeOK
<1>2. ASSUME NEW pc \in PCs PROVE Goto(h, pc) \in [Handler -> Ops]
  <2>1. [op[h] EXCEPT !.pc = pc] \in Ops
    BY <1>1 DEF Ops
  <2>2. Goto(h, pc) = [op EXCEPT ![h] = [op[h] EXCEPT !.pc = pc]]
    BY DEF Goto
  <2> QED BY <2>1, <2>2 DEF TypeOK
<1>3. Idle \in Ops
  BY LenStatusSets DEF Idle, Ops, PCs
<1> QED BY <1>2, <1>3 DEF Return, TypeOK

(* Every action keeps the variables in their types.                         *)
LEMMA TypeStep ==
  ASSUME TypeOK, OpWellFormed, [Next]_vars
  PROVE  TypeOK'
<1>1. ASSUME NEW h \in Handler, CreateHash(h)
      PROVE  TypeOK'
  <2>1. index' \in [Indexed -> SUBSET Session]
    BY <1>1, LenStatusSets, IndexedStatus DEF CreateHash, TypeOK, OpWellFormed
  <2>3. op' \in [Handler -> Ops]
    BY <1>1, GotoType DEF CreateHash, PCs
  <2>4. hash' \in [Session -> Hashes]
    BY <1>1 DEF CreateHash, TypeOK, OpWellFormed, Hashes, Ops, Absent
  <2>5. hist' \in [Session -> SUBSET Marks]
    BY <1>1 DEF CreateHash, TypeOK, OpWellFormed, Mark, Started, Marks
  <2>6. attrs' \in [{"os", "mode"} -> SUBSET Session] /\ boot' \in 0..(Len(StatusSets) + 1)
    BY <1>1, LenStatusSets DEF CreateHash, TypeOK, OpWellFormed
  <2> QED BY <2>1, <2>3, <2>4, <2>5, <2>6 DEF TypeOK
<1>2. ASSUME NEW h \in Handler, AddToStatusIndex(h)
      PROVE  TypeOK'
  <2>1. index' \in [Indexed -> SUBSET Session]
    BY <1>2, LenStatusSets, IndexedStatus DEF AddToStatusIndex, TypeOK, OpWellFormed
  <2>3. op' \in [Handler -> Ops]
    BY <1>2, GotoType DEF AddToStatusIndex, PCs
  <2>4. hash' \in [Session -> Hashes]
    BY <1>2 DEF AddToStatusIndex, TypeOK, OpWellFormed, Hashes, Ops, Absent
  <2>5. hist' \in [Session -> SUBSET Marks]
    BY <1>2 DEF AddToStatusIndex, TypeOK, OpWellFormed, Mark, Started, Marks
  <2>6. attrs' \in [{"os", "mode"} -> SUBSET Session] /\ boot' \in 0..(Len(StatusSets) + 1)
    BY <1>2, LenStatusSets DEF AddToStatusIndex, TypeOK, OpWellFormed
  <2> QED BY <2>1, <2>3, <2>4, <2>5, <2>6 DEF TypeOK
<1>3. ASSUME NEW h \in Handler, AddToOsIndex(h)
      PROVE  TypeOK'
  BY <1>3, TargetsAssumption, LenStatusSets DEF AddToOsIndex, TypeOK, OpWellFormed,
     Hashes, Ops, PCs, Marks, Status, Indexed, Goto, Return, Idle, Mark
<1>4. ASSUME NEW h \in Handler, AddToModeIndex(h)
      PROVE  TypeOK'
  BY <1>4, TargetsAssumption, LenStatusSets DEF AddToModeIndex, TypeOK, OpWellFormed,
     Hashes, Ops, PCs, Marks, Status, Indexed, Goto, Return, Idle, Mark
<1>5. ASSUME NEW h \in Handler, SremOldStatus(h)
      PROVE  TypeOK'
  <2>1. index' \in [Indexed -> SUBSET Session]
    BY <1>5, LenStatusSets, IndexedStatus DEF SremOldStatus, TypeOK, OpWellFormed
  <2>3. op' \in [Handler -> Ops]
    BY <1>5, GotoType DEF SremOldStatus, PCs
  <2>4. hash' \in [Session -> Hashes]
    BY <1>5 DEF SremOldStatus, TypeOK, OpWellFormed, Hashes, Ops, Absent
  <2>5. hist' \in [Session -> SUBSET Marks]
    BY <1>5 DEF SremOldStatus, TypeOK, OpWellFormed, Mark, Started, Marks
  <2>6. attrs' \in [{"os", "mode"} -> SUBSET Session] /\ boot' \in 0..(Len(StatusSets) + 1)
    BY <1>5, LenStatusSets DEF SremOldStatus, TypeOK, OpWellFormed
  <2> QED BY <2>1, <2>3, <2>4, <2>5, <2>6 DEF TypeOK
<1>6. ASSUME NEW h \in Handler, HsetStatus(h)
      PROVE  TypeOK'
  <2>1. index' \in [Indexed -> SUBSET Session]
    BY <1>6, LenStatusSets, IndexedStatus DEF HsetStatus, TypeOK, OpWellFormed
  <2>3. op' \in [Handler -> Ops]
    BY <1>6, GotoType DEF HsetStatus, PCs
  <2>4. hash' \in [Session -> Hashes]
    BY <1>6 DEF HsetStatus, TypeOK, OpWellFormed, Hashes, Ops, Absent
  <2>5. hist' \in [Session -> SUBSET Marks]
    BY <1>6 DEF HsetStatus, TypeOK, OpWellFormed, Mark, Started, Marks
  <2>6. attrs' \in [{"os", "mode"} -> SUBSET Session] /\ boot' \in 0..(Len(StatusSets) + 1)
    BY <1>6, LenStatusSets DEF HsetStatus, TypeOK, OpWellFormed
  <2> QED BY <2>1, <2>3, <2>4, <2>5, <2>6 DEF TypeOK
<1>7. ASSUME NEW h \in Handler, SaddNewStatus(h)
      PROVE  TypeOK'
  <2>1. index' \in [Indexed -> SUBSET Session]
    BY <1>7, LenStatusSets, IndexedStatus DEF SaddNewStatus, TypeOK, OpWellFormed
  <2>3. op' \in [Handler -> Ops]
    BY <1>7, GotoType DEF SaddNewStatus, PCs
  <2>4. hash' \in [Session -> Hashes]
    BY <1>7 DEF SaddNewStatus, TypeOK, OpWellFormed, Hashes, Ops, Absent
  <2>5. hist' \in [Session -> SUBSET Marks]
    BY <1>7 DEF SaddNewStatus, TypeOK, OpWellFormed, Mark, Started, Marks
  <2>6. attrs' \in [{"os", "mode"} -> SUBSET Session] /\ boot' \in 0..(Len(StatusSets) + 1)
    BY <1>7, LenStatusSets DEF SaddNewStatus, TypeOK, OpWellFormed
  <2> QED BY <2>1, <2>3, <2>4, <2>5, <2>6 DEF TypeOK
<1>8. ASSUME NEW h \in Handler, ClearTtl(h)
      PROVE  TypeOK'
  <2>1. index' \in [Indexed -> SUBSET Session]
    BY <1>8, LenStatusSets, IndexedStatus DEF ClearTtl, TypeOK, OpWellFormed
  <2>3. op' \in [Handler -> Ops]
    BY <1>8, GotoType DEF ClearTtl, PCs
  <2>4. hash' \in [Session -> Hashes]
    <3>1. op[h].sid \in Session /\ hash[op[h].sid] \in Hashes
      BY <1>8 DEF ClearTtl, TypeOK, OpWellFormed
    <3>2. [hash[op[h].sid] EXCEPT !.ttl = FALSE] \in Hashes
      BY <3>1, Zenon DEF Hashes
    <3> QED BY <1>8, <3>1, <3>2 DEF ClearTtl, TypeOK
  <2>5. hist' \in [Session -> SUBSET Marks]
    BY <1>8 DEF ClearTtl, TypeOK, OpWellFormed, Mark, Started, Marks
  <2>6. attrs' \in [{"os", "mode"} -> SUBSET Session] /\ boot' \in 0..(Len(StatusSets) + 1)
    BY <1>8, LenStatusSets DEF ClearTtl, TypeOK, OpWellFormed
  <2> QED BY <2>1, <2>3, <2>4, <2>5, <2>6 DEF TypeOK
<1>9. ASSUME NEW h \in Handler, SremFromStatusSet(h)
      PROVE  TypeOK'
  <2>1. index' \in [Indexed -> SUBSET Session]
    BY <1>9, LenStatusSets, IndexedStatus DEF SremFromStatusSet, TypeOK, OpWellFormed
  <2>3. op' \in [Handler -> Ops]
    BY <1>9, LenStatusSets DEF SremFromStatusSet, TypeOK, Goto, Return, Idle, Ops, PCs,
       Status
  <2>4. hash' \in [Session -> Hashes]
    BY <1>9 DEF SremFromStatusSet, TypeOK, OpWellFormed, Hashes, Ops, Absent
  <2>5. hist' \in [Session -> SUBSET Marks]
    BY <1>9 DEF SremFromStatusSet, TypeOK, OpWellFormed, Mark, Started, Marks
  <2>6. attrs' \in [{"os", "mode"} -> SUBSET Session] /\ boot' \in 0..(Len(StatusSets) + 1)
    BY <1>9, LenStatusSets DEF SremFromStatusSet, TypeOK, OpWellFormed
  <2> QED BY <2>1, <2>3, <2>4, <2>5, <2>6 DEF TypeOK
<1>10. ASSUME NEW h \in Handler, SremFromOsIndex(h)
      PROVE  TypeOK'
  <2>1. index' \in [Indexed -> SUBSET Session]
    BY <1>10, LenStatusSets, IndexedStatus DEF SremFromOsIndex, TypeOK, OpWellFormed
  <2>3. op' \in [Handler -> Ops]
    BY <1>10, GotoType DEF SremFromOsIndex, PCs
  <2>4. hash' \in [Session -> Hashes]
    BY <1>10 DEF SremFromOsIndex, TypeOK, OpWellFormed, Hashes, Ops, Absent
  <2>5. hist' \in [Session -> SUBSET Marks]
    BY <1>10 DEF SremFromOsIndex, TypeOK, OpWellFormed, Mark, Started, Marks
  <2>6. attrs' \in [{"os", "mode"} -> SUBSET Session] /\ boot' \in 0..(Len(StatusSets) + 1)
    BY <1>10, LenStatusSets DEF SremFromOsIndex, TypeOK, OpWellFormed
  <2> QED BY <2>1, <2>3, <2>4, <2>5, <2>6 DEF TypeOK
<1>11. ASSUME NEW h \in Handler, SremFromModeIndex(h)
      PROVE  TypeOK'
  BY <1>11, TargetsAssumption, LenStatusSets DEF SremFromModeIndex, TypeOK,
     OpWellFormed, Hashes, Ops, PCs, Marks, Status, Indexed, Goto, Return, Idle, Mark
<1>12. ASSUME NEW h \in Handler, CommandFails(h)
      PROVE  TypeOK'
  BY <1>12, TargetsAssumption, LenStatusSets DEF CommandFails, TypeOK, OpWellFormed,
     Hashes, Ops, PCs, Marks, Status, Indexed, Goto, Return, Idle, Mark
<1>13. ASSUME NEW h \in Handler, NEW s \in Session, Register(h, s)
      PROVE  TypeOK'
  BY <1>13, TargetsAssumption, LenStatusSets DEF Register, TypeOK, OpWellFormed,
     Hashes, Ops, PCs, Marks, Status, Indexed, Call, Mark, Started, Absent
<1>14. ASSUME NEW h \in Handler, NEW s \in Session, DeleteSession(h, s)
      PROVE  TypeOK'
  BY <1>14, TargetsAssumption, LenStatusSets DEF DeleteSession, TypeOK, OpWellFormed,
     Hashes, Ops, PCs, Marks, Status, Indexed, Call, Mark, Started, Absent
<1>15. ASSUME NEW h \in Handler, NEW s \in Session, NEW new \in Targets, UpdateStatus(h, s, new)
      PROVE  TypeOK'
  BY <1>15, TargetsAssumption, LenStatusSets DEF UpdateStatus, TypeOK, OpWellFormed,
     Hashes, Ops, PCs, Marks, Status, Indexed, Call, Mark, Started, Absent
<1>16. ASSUME NEW s \in Session, UpdateFields(s)
      PROVE  TypeOK'
  BY <1>16, TargetsAssumption, LenStatusSets
     DEF UpdateFields, TypeOK, OpWellFormed, Hashes, Ops, PCs, Marks, Status, Indexed
<1>17. ASSUME NEW s \in Session, Expire(s)
      PROVE  TypeOK'
  BY <1>17, TargetsAssumption, LenStatusSets DEF Expire, TypeOK, OpWellFormed, Hashes,
     Ops, PCs, Marks, Status, Indexed, Absent, Mark
<1>18. ASSUME Crash
      PROVE  TypeOK'
  BY <1>18, TargetsAssumption, LenStatusSets DEF Crash, TypeOK, OpWellFormed, Hashes,
     Ops, PCs, Marks, Status, Indexed, Idle
<1>19. ASSUME CleanupStaleIndexEntries
      PROVE  TypeOK'
  <2>1. index' \in [Indexed -> SUBSET Session]
    BY <1>19, LenStatusSets, IndexedStatus
       DEF CleanupStaleIndexEntries, TypeOK, OpWellFormed
  <2>3. op' \in [Handler -> Ops]
    BY <1>19, LenStatusSets DEF CleanupStaleIndexEntries, TypeOK, Ops, PCs, Status
  <2>4. hash' \in [Session -> Hashes]
    BY <1>19 DEF CleanupStaleIndexEntries, TypeOK, OpWellFormed, Hashes, Ops, Absent
  <2>5. hist' \in [Session -> SUBSET Marks]
    BY <1>19 DEF CleanupStaleIndexEntries, TypeOK, OpWellFormed, Mark, Started, Marks
  <2>6. attrs' \in [{"os", "mode"} -> SUBSET Session] /\ boot' \in 0..(Len(StatusSets) + 1)
    BY <1>19, LenStatusSets DEF CleanupStaleIndexEntries, TypeOK, OpWellFormed
  <2> QED BY <2>1, <2>3, <2>4, <2>5, <2>6 DEF TypeOK
<1>20. ASSUME NEW s \in Session, RemoveFromActiveSet(s)
      PROVE  TypeOK'
  BY <1>20, TargetsAssumption, LenStatusSets DEF RemoveFromActiveSet, TypeOK,
     OpWellFormed, Hashes, Ops, PCs, Marks, Status, Indexed, Absent, Mark
<1>21. ASSUME StartServing
      PROVE  TypeOK'
  BY <1>21, TargetsAssumption, LenStatusSets
     DEF StartServing, TypeOK, OpWellFormed, Hashes, Ops, PCs, Marks, Status, Indexed
<1>22. CASE UNCHANGED vars
  BY <1>22 DEF vars, TypeOK
<1> QED
  BY <1>1, <1>2, <1>3, <1>4, <1>5, <1>6, <1>7, <1>8, <1>9, <1>10, <1>11,
     <1>12, <1>13, <1>14, <1>15, <1>16, <1>17, <1>18, <1>19, <1>20, <1>21, <1>22
  DEF Next, Step

(* A call always has the operands of its next command.                      *)
LEMMA OpStep ==
  ASSUME TypeOK, OpWellFormed, [Next]_vars
  PROVE  OpWellFormed'
<1>1. ASSUME NEW h \in Handler, CreateHash(h)
      PROVE  OpWellFormed'
  BY <1>1, LenStatusSets, IndexedStatus DEF CreateHash, TypeOK, OpWellFormed, Ops,
     Goto, Return, Idle
<1>2. ASSUME NEW h \in Handler, AddToStatusIndex(h)
      PROVE  OpWellFormed'
  BY <1>2, LenStatusSets, IndexedStatus DEF AddToStatusIndex, TypeOK, OpWellFormed,
     Ops, Goto, Return, Idle
<1>3. ASSUME NEW h \in Handler, AddToOsIndex(h)
      PROVE  OpWellFormed'
  BY <1>3, LenStatusSets, IndexedStatus DEF AddToOsIndex, TypeOK, OpWellFormed, Ops,
     Goto, Return, Idle
<1>4. ASSUME NEW h \in Handler, AddToModeIndex(h)
      PROVE  OpWellFormed'
  BY <1>4, LenStatusSets, IndexedStatus DEF AddToModeIndex, TypeOK, OpWellFormed, Ops,
     Goto, Return, Idle
<1>5. ASSUME NEW h \in Handler, SremOldStatus(h)
      PROVE  OpWellFormed'
  BY <1>5, LenStatusSets, IndexedStatus DEF SremOldStatus, TypeOK, OpWellFormed, Ops,
     Goto, Return, Idle
<1>6. ASSUME NEW h \in Handler, HsetStatus(h)
      PROVE  OpWellFormed'
  BY <1>6, LenStatusSets, IndexedStatus DEF HsetStatus, TypeOK, OpWellFormed, Ops,
     Goto, Return, Idle
<1>7. ASSUME NEW h \in Handler, SaddNewStatus(h)
      PROVE  OpWellFormed'
  BY <1>7, LenStatusSets, IndexedStatus DEF SaddNewStatus, TypeOK, OpWellFormed, Ops,
     Goto, Return, Idle
<1>8. ASSUME NEW h \in Handler, ClearTtl(h)
      PROVE  OpWellFormed'
  BY <1>8, LenStatusSets, IndexedStatus DEF ClearTtl, TypeOK, OpWellFormed, Ops, Goto,
     Return, Idle
<1>9. ASSUME NEW h \in Handler, SremFromStatusSet(h)
      PROVE  OpWellFormed'
  BY <1>9, LenStatusSets, IndexedStatus DEF SremFromStatusSet, TypeOK, OpWellFormed,
     Ops, Goto, Return, Idle
<1>10. ASSUME NEW h \in Handler, SremFromOsIndex(h)
      PROVE  OpWellFormed'
  BY <1>10, LenStatusSets, IndexedStatus DEF SremFromOsIndex, TypeOK, OpWellFormed,
     Ops, Goto, Return, Idle
<1>11. ASSUME NEW h \in Handler, SremFromModeIndex(h)
      PROVE  OpWellFormed'
  BY <1>11, LenStatusSets, IndexedStatus DEF SremFromModeIndex, TypeOK, OpWellFormed,
     Ops, Goto, Return, Idle
<1>12. ASSUME NEW h \in Handler, CommandFails(h)
      PROVE  OpWellFormed'
  BY <1>12, LenStatusSets, IndexedStatus DEF CommandFails, TypeOK, OpWellFormed, Ops,
     Goto, Return, Idle
<1>13. ASSUME NEW h \in Handler, NEW s \in Session, Register(h, s)
      PROVE  OpWellFormed'
  BY <1>13, LenStatusSets, IndexedStatus DEF Register, TypeOK, OpWellFormed, Ops, Call,
     Serving, Idle
<1>14. ASSUME NEW h \in Handler, NEW s \in Session, DeleteSession(h, s)
      PROVE  OpWellFormed'
  BY <1>14, LenStatusSets, IndexedStatus DEF DeleteSession, TypeOK, OpWellFormed, Ops,
     Call, Serving, Idle
<1>15. ASSUME NEW h \in Handler, NEW s \in Session, NEW new \in Targets, UpdateStatus(h, s, new)
      PROVE  OpWellFormed'
  BY <1>15, LenStatusSets, IndexedStatus DEF UpdateStatus, TypeOK, OpWellFormed, Ops,
     Call, Serving, Idle
<1>16. ASSUME NEW s \in Session, UpdateFields(s)
      PROVE  OpWellFormed'
  BY <1>16, LenStatusSets, IndexedStatus DEF UpdateFields, TypeOK, OpWellFormed, Ops
<1>17. ASSUME NEW s \in Session, Expire(s)
      PROVE  OpWellFormed'
  BY <1>17, LenStatusSets, IndexedStatus DEF Expire, TypeOK, OpWellFormed, Ops
<1>18. ASSUME Crash
      PROVE  OpWellFormed'
  BY <1>18, LenStatusSets, IndexedStatus DEF Crash, TypeOK, OpWellFormed, Ops, Idle
<1>19. ASSUME CleanupStaleIndexEntries
      PROVE  OpWellFormed'
  BY <1>19, LenStatusSets, IndexedStatus
     DEF CleanupStaleIndexEntries, TypeOK, OpWellFormed, Ops
<1>20. ASSUME NEW s \in Session, RemoveFromActiveSet(s)
      PROVE  OpWellFormed'
  BY <1>20, LenStatusSets, IndexedStatus DEF RemoveFromActiveSet, TypeOK, OpWellFormed,
     Ops
<1>21. ASSUME StartServing
      PROVE  OpWellFormed'
  BY <1>21, LenStatusSets, IndexedStatus DEF StartServing, TypeOK, OpWellFormed, Ops
<1>22. CASE UNCHANGED vars
  BY <1>22 DEF vars, OpWellFormed
<1> QED
  BY <1>1, <1>2, <1>3, <1>4, <1>5, <1>6, <1>7, <1>8, <1>9, <1>10, <1>11,
     <1>12, <1>13, <1>14, <1>15, <1>16, <1>17, <1>18, <1>19, <1>20, <1>21, <1>22
  DEF Next, Step

(* register is the only maker of readable records, once per session.        *)
LEMMA RebirthStep ==
  ASSUME TypeOK, OpWellFormed, NoRebirth, [Next]_vars
  PROVE  NoRebirth'
<1>1. ASSUME NEW h \in Handler, CreateHash(h)
      PROVE  NoRebirth'
  BY <1>1 DEF CreateHash, TypeOK, OpWellFormed, NoRebirth, Ops, Hashes, Marked,
     UpdatePCs, DeletePCs, Goto, Return, Idle, Mark
<1>2. ASSUME NEW h \in Handler, AddToStatusIndex(h)
      PROVE  NoRebirth'
  BY <1>2 DEF AddToStatusIndex, TypeOK, OpWellFormed, NoRebirth, Ops, Hashes, Marked,
     UpdatePCs, DeletePCs, Goto, Return, Idle, Mark
<1>3. ASSUME NEW h \in Handler, AddToOsIndex(h)
      PROVE  NoRebirth'
  BY <1>3 DEF AddToOsIndex, TypeOK, OpWellFormed, NoRebirth, Ops, Hashes, Marked,
     UpdatePCs, DeletePCs, Goto, Return, Idle, Mark
<1>4. ASSUME NEW h \in Handler, AddToModeIndex(h)
      PROVE  NoRebirth'
  BY <1>4 DEF AddToModeIndex, TypeOK, OpWellFormed, NoRebirth, Ops, Hashes, Marked,
     UpdatePCs, DeletePCs, Goto, Return, Idle, Mark
<1>5. ASSUME NEW h \in Handler, SremOldStatus(h)
      PROVE  NoRebirth'
  BY <1>5 DEF SremOldStatus, TypeOK, OpWellFormed, NoRebirth, Ops, Hashes, Marked,
     UpdatePCs, DeletePCs, Goto, Return, Idle, Mark
<1>6. ASSUME NEW h \in Handler, HsetStatus(h)
      PROVE  NoRebirth'
  BY <1>6 DEF HsetStatus, TypeOK, OpWellFormed, NoRebirth, Ops, Hashes, Marked,
     UpdatePCs, DeletePCs, Goto, Return, Idle, Mark
<1>7. ASSUME NEW h \in Handler, SaddNewStatus(h)
      PROVE  NoRebirth'
  BY <1>7 DEF SaddNewStatus, TypeOK, OpWellFormed, NoRebirth, Ops, Hashes, Marked,
     UpdatePCs, DeletePCs, Goto, Return, Idle, Mark
<1>8. ASSUME NEW h \in Handler, ClearTtl(h)
      PROVE  NoRebirth'
  BY <1>8 DEF ClearTtl, TypeOK, OpWellFormed, NoRebirth, Ops, Hashes, Marked,
     UpdatePCs, DeletePCs, Goto, Return, Idle, Mark
<1>9. ASSUME NEW h \in Handler, SremFromStatusSet(h)
      PROVE  NoRebirth'
  BY <1>9 DEF SremFromStatusSet, TypeOK, OpWellFormed, NoRebirth, Ops, Hashes, Marked,
     UpdatePCs, DeletePCs, Goto, Return, Idle, Mark
<1>10. ASSUME NEW h \in Handler, SremFromOsIndex(h)
      PROVE  NoRebirth'
  BY <1>10 DEF SremFromOsIndex, TypeOK, OpWellFormed, NoRebirth, Ops, Hashes, Marked,
     UpdatePCs, DeletePCs, Goto, Return, Idle, Mark
<1>11. ASSUME NEW h \in Handler, SremFromModeIndex(h)
      PROVE  NoRebirth'
  BY <1>11 DEF SremFromModeIndex, TypeOK, OpWellFormed, NoRebirth, Ops, Hashes, Marked,
     UpdatePCs, DeletePCs, Goto, Return, Idle, Mark
<1>12. ASSUME NEW h \in Handler, CommandFails(h)
      PROVE  NoRebirth'
  BY <1>12 DEF CommandFails, TypeOK, OpWellFormed, NoRebirth, Ops, Hashes, Marked,
     UpdatePCs, DeletePCs, Goto, Return, Idle, Mark
<1>13. ASSUME NEW h \in Handler, NEW s \in Session, Register(h, s)
      PROVE  NoRebirth'
  BY <1>13 DEF Register, TypeOK, OpWellFormed, NoRebirth, Ops, Hashes, Marked,
     UpdatePCs, DeletePCs, Call, Serving, Idle, Mark, Started, Absent
<1>14. ASSUME NEW h \in Handler, NEW s \in Session, DeleteSession(h, s)
      PROVE  NoRebirth'
  BY <1>14 DEF DeleteSession, TypeOK, OpWellFormed, NoRebirth, Ops, Hashes, Marked,
     UpdatePCs, DeletePCs, Call, Serving, Idle, Mark, Started, Absent
<1>15. ASSUME NEW h \in Handler, NEW s \in Session, NEW new \in Targets, UpdateStatus(h, s, new)
      PROVE  NoRebirth'
  BY <1>15 DEF UpdateStatus, TypeOK, OpWellFormed, NoRebirth, Ops, Hashes, Marked,
     UpdatePCs, DeletePCs, Call, Serving, Idle, Mark, Started, Absent
<1>16. ASSUME NEW s \in Session, UpdateFields(s)
      PROVE  NoRebirth'
  BY <1>16 DEF UpdateFields, TypeOK, OpWellFormed, NoRebirth, Ops, Hashes, Marked,
     UpdatePCs, DeletePCs
<1>17. ASSUME NEW s \in Session, Expire(s)
      PROVE  NoRebirth'
  BY <1>17 DEF Expire, TypeOK, OpWellFormed, NoRebirth, Ops, Hashes, Marked, UpdatePCs,
     DeletePCs, Absent, Mark
<1>18. ASSUME Crash
      PROVE  NoRebirth'
  BY <1>18 DEF Crash, TypeOK, OpWellFormed, NoRebirth, Ops, Hashes, Marked, UpdatePCs,
     DeletePCs, Idle
<1>19. ASSUME CleanupStaleIndexEntries
      PROVE  NoRebirth'
  BY <1>19 DEF CleanupStaleIndexEntries, TypeOK, OpWellFormed, NoRebirth, Ops, Hashes,
     Marked, UpdatePCs, DeletePCs
<1>20. ASSUME NEW s \in Session, RemoveFromActiveSet(s)
      PROVE  NoRebirth'
  BY <1>20 DEF RemoveFromActiveSet, TypeOK, OpWellFormed, NoRebirth, Ops, Hashes,
     Marked, UpdatePCs, DeletePCs, Absent, Mark
<1>21. ASSUME StartServing
      PROVE  NoRebirth'
  BY <1>21 DEF StartServing, TypeOK, OpWellFormed, NoRebirth, Ops, Hashes, Marked,
     UpdatePCs, DeletePCs
<1>22. CASE UNCHANGED vars
  BY <1>22 DEF vars, NoRebirth, Marked
<1> QED
  BY <1>1, <1>2, <1>3, <1>4, <1>5, <1>6, <1>7, <1>8, <1>9, <1>10, <1>11,
     <1>12, <1>13, <1>14, <1>15, <1>16, <1>17, <1>18, <1>19, <1>20, <1>21, <1>22
  DEF Next, Step

(* No command unlists a readable record without a call left that relists it.*)
LEMMA LostStep ==
  ASSUME LostInv, [Next]_vars
  PROVE  NoSessionLost'
<1> USE DEF LostInv
<1>1. ASSUME NEW h \in Handler, CreateHash(h)
      PROVE  NoSessionLost'
  BY <1>1 DEF CreateHash, TypeOK, OpWellFormed, Ops, Hashes, NoSessionLost, Relisting,
     Marked, Goto, Return, Idle, Mark
<1>2. ASSUME NEW h \in Handler, AddToStatusIndex(h)
      PROVE  NoSessionLost'
  <2> SUFFICES ASSUME NEW t \in Session, hash'[t].fields = "all",
                      hash'[t].status \in Indexed, ~Marked(t, "torn")'
               PROVE  \/ t \in index'[hash'[t].status]
                      \/ \E g \in Handler : Relisting(g, t)'
    BY DEF NoSessionLost
  <2>1. hash[t].fields = "all" /\ hash[t].status \in Indexed /\ ~Marked(t, "torn")
        /\ hash'[t].fields = hash[t].fields /\ hash'[t].status = hash[t].status
    BY <1>2 DEF AddToStatusIndex, TypeOK, OpWellFormed, Hashes, Marked, Mark, Started,
       Absent, Marks
  <2>2. CASE t \in index[hash[t].status]
    BY <2>1, <2>2, <1>2, LenStatusSets DEF AddToStatusIndex, TypeOK, OpWellFormed,
       NoRebirth, DeletePCs, Ops, Goto
  <2>3. ASSUME NEW g \in Handler, Relisting(g, t)
        PROVE  \/ t \in index'[hash'[t].status]
               \/ Relisting(g, t)'
    BY <2>1, <2>3, <1>2 DEF AddToStatusIndex, TypeOK, Relisting, Ops, Goto, Return,
       Serving, OpWellFormed, NoRebirth, DeletePCs
  <2> QED BY <2>1, <2>2, <2>3 DEF NoSessionLost
<1>3. ASSUME NEW h \in Handler, AddToOsIndex(h)
      PROVE  NoSessionLost'
  BY <1>3 DEF AddToOsIndex, TypeOK, OpWellFormed, Ops, Hashes, NoSessionLost,
     Relisting, Marked, Goto, Return, Idle, Mark
<1>4. ASSUME NEW h \in Handler, AddToModeIndex(h)
      PROVE  NoSessionLost'
  BY <1>4 DEF AddToModeIndex, TypeOK, OpWellFormed, Ops, Hashes, NoSessionLost,
     Relisting, Marked, Goto, Return, Idle, Mark
<1>5. ASSUME NEW h \in Handler, SremOldStatus(h)
      PROVE  NoSessionLost'
  BY <1>5 DEF SremOldStatus, TypeOK, OpWellFormed, Ops, Hashes, NoSessionLost,
     Relisting, Marked, Goto, Return, Idle, Mark
<1>6. ASSUME NEW h \in Handler, HsetStatus(h)
      PROVE  NoSessionLost'
  BY <1>6 DEF HsetStatus, TypeOK, OpWellFormed, Ops, Hashes, NoSessionLost, Relisting,
     Marked, Goto, Return, Idle, Mark
<1>7. ASSUME NEW h \in Handler, SaddNewStatus(h)
      PROVE  NoSessionLost'
  <2> SUFFICES ASSUME NEW t \in Session, hash'[t].fields = "all",
                      hash'[t].status \in Indexed, ~Marked(t, "torn")'
               PROVE  \/ t \in index'[hash'[t].status]
                      \/ \E g \in Handler : Relisting(g, t)'
    BY DEF NoSessionLost
  <2>1. hash[t].fields = "all" /\ hash[t].status \in Indexed /\ ~Marked(t, "torn")
        /\ hash'[t].fields = hash[t].fields /\ hash'[t].status = hash[t].status
    BY <1>7 DEF SaddNewStatus, TypeOK, OpWellFormed, Hashes, Marked, Mark, Started,
       Absent, Marks
  <2>2. CASE t \in index[hash[t].status]
    BY <2>1, <2>2, <1>7, LenStatusSets DEF SaddNewStatus, TypeOK, OpWellFormed,
       NoRebirth, DeletePCs, Ops, Goto
  <2>3. ASSUME NEW g \in Handler, Relisting(g, t)
        PROVE  \/ t \in index'[hash'[t].status]
               \/ Relisting(g, t)'
    BY <2>1, <2>3, <1>7 DEF SaddNewStatus, TypeOK, Relisting, Ops, Goto, Return,
       Serving, OpWellFormed, NoRebirth, DeletePCs
  <2> QED BY <2>1, <2>2, <2>3 DEF NoSessionLost
<1>8. ASSUME NEW h \in Handler, ClearTtl(h)
      PROVE  NoSessionLost'
  <2> SUFFICES ASSUME NEW t \in Session, hash'[t].fields = "all",
                      hash'[t].status \in Indexed, ~Marked(t, "torn")'
               PROVE  \/ t \in index'[hash'[t].status]
                      \/ \E g \in Handler : Relisting(g, t)'
    BY DEF NoSessionLost
  <2>1. hash[t].fields = "all" /\ hash[t].status \in Indexed /\ ~Marked(t, "torn")
        /\ hash'[t].fields = hash[t].fields /\ hash'[t].status = hash[t].status
    BY <1>8 DEF ClearTtl, TypeOK, OpWellFormed, Hashes, Marked, Mark, Started, Absent,
       Marks
  <2>2. CASE t \in index[hash[t].status]
    BY <2>1, <2>2, <1>8, LenStatusSets DEF ClearTtl, TypeOK, OpWellFormed, NoRebirth,
       DeletePCs, Ops, Goto
  <2>3. ASSUME NEW g \in Handler, Relisting(g, t)
        PROVE  \/ t \in index'[hash'[t].status]
               \/ Relisting(g, t)'
    BY <2>1, <2>3, <1>8 DEF ClearTtl, TypeOK, Relisting, Ops, Goto, Return, Serving,
       OpWellFormed, NoRebirth, DeletePCs
  <2> QED BY <2>1, <2>2, <2>3 DEF NoSessionLost
<1>9. ASSUME NEW h \in Handler, SremFromStatusSet(h)
      PROVE  NoSessionLost'
  <2> SUFFICES ASSUME NEW t \in Session, hash'[t].fields = "all",
                      hash'[t].status \in Indexed, ~Marked(t, "torn")'
               PROVE  \/ t \in index'[hash'[t].status]
                      \/ \E g \in Handler : Relisting(g, t)'
    BY DEF NoSessionLost
  <2>1. hash[t].fields = "all" /\ hash[t].status \in Indexed /\ ~Marked(t, "torn")
        /\ hash'[t].fields = hash[t].fields /\ hash'[t].status = hash[t].status
    BY <1>9 DEF SremFromStatusSet, TypeOK, OpWellFormed, Hashes, Marked, Mark, Started,
       Absent, Marks
  <2>2. CASE t \in index[hash[t].status]
    BY <2>1, <2>2, <1>9, LenStatusSets DEF SremFromStatusSet, TypeOK, OpWellFormed,
       NoRebirth, DeletePCs, Ops, Goto
  <2>3. ASSUME NEW g \in Handler, Relisting(g, t)
        PROVE  \/ t \in index'[hash'[t].status]
               \/ Relisting(g, t)'
    BY <2>1, <2>3, <1>9 DEF SremFromStatusSet, TypeOK, Relisting, Ops, Goto, Return,
       Serving, OpWellFormed, NoRebirth, DeletePCs
  <2> QED BY <2>1, <2>2, <2>3 DEF NoSessionLost
<1>10. ASSUME NEW h \in Handler, SremFromOsIndex(h)
      PROVE  NoSessionLost'
  BY <1>10 DEF SremFromOsIndex, TypeOK, OpWellFormed, Ops, Hashes, NoSessionLost,
     Relisting, Marked, Goto, Return, Idle, Mark
<1>11. ASSUME NEW h \in Handler, SremFromModeIndex(h)
      PROVE  NoSessionLost'
  BY <1>11 DEF SremFromModeIndex, TypeOK, OpWellFormed, Ops, Hashes, NoSessionLost,
     Relisting, Marked, Goto, Return, Idle, Mark
<1>12. ASSUME NEW h \in Handler, CommandFails(h)
      PROVE  NoSessionLost'
  <2> SUFFICES ASSUME NEW t \in Session, t # op[h].sid, hash[t].fields = "all",
                      hash[t].status \in Indexed, ~Marked(t, "torn")
               PROVE  \/ t \in index[hash[t].status]
                      \/ \E g \in Handler : Relisting(g, t)'
    BY <1>12 DEF CommandFails, NoSessionLost, Marked, Mark, TypeOK, OpWellFormed
  <2>1. ASSUME NEW g \in Handler, Relisting(g, t)
        PROVE  Relisting(g, t)'
    BY <2>1, <1>12 DEF CommandFails, Relisting, Return, TypeOK
  <2> QED BY <2>1 DEF NoSessionLost
<1>13. ASSUME NEW h \in Handler, NEW s \in Session, Register(h, s)
      PROVE  NoSessionLost'
  BY <1>13 DEF Register, TypeOK, OpWellFormed, Ops, Hashes, NoSessionLost, Relisting,
     Marked, Call, Serving, Idle, Mark, Started, Absent
<1>14. ASSUME NEW h \in Handler, NEW s \in Session, DeleteSession(h, s)
      PROVE  NoSessionLost'
  <2> SUFFICES ASSUME NEW t \in Session, hash'[t].fields = "all",
                      hash'[t].status \in Indexed, ~Marked(t, "torn")'
               PROVE  \/ t \in index'[hash'[t].status]
                      \/ \E g \in Handler : Relisting(g, t)'
    BY DEF NoSessionLost
  <2>1. hash[t].fields = "all" /\ hash[t].status \in Indexed /\ ~Marked(t, "torn")
        /\ hash'[t].fields = hash[t].fields /\ hash'[t].status = hash[t].status
    BY <1>14 DEF DeleteSession, TypeOK, OpWellFormed, Hashes, Marked, Mark, Started,
       Absent, Marks
  <2>2. CASE t \in index[hash[t].status]
    BY <2>1, <2>2, <1>14, LenStatusSets DEF DeleteSession, TypeOK, OpWellFormed,
       NoRebirth, DeletePCs, Ops, Goto
  <2>3. ASSUME NEW g \in Handler, Relisting(g, t)
        PROVE  \/ t \in index'[hash'[t].status]
               \/ Relisting(g, t)'
    BY <2>1, <2>3, <1>14 DEF DeleteSession, TypeOK, Relisting, Ops, Goto, Return,
       Serving, OpWellFormed, NoRebirth, DeletePCs
  <2> QED BY <2>1, <2>2, <2>3 DEF NoSessionLost
<1>15. ASSUME NEW h \in Handler, NEW s \in Session, NEW new \in Targets, UpdateStatus(h, s, new)
      PROVE  NoSessionLost'
  BY <1>15 DEF UpdateStatus, TypeOK, OpWellFormed, Ops, Hashes, NoSessionLost,
     Relisting, Marked, Call, Serving, Idle, Mark, Started, Absent
<1>16. ASSUME NEW s \in Session, UpdateFields(s)
      PROVE  NoSessionLost'
  BY <1>16 DEF UpdateFields, TypeOK, OpWellFormed, Ops, Hashes, NoSessionLost,
     Relisting, Marked
<1>17. ASSUME NEW s \in Session, Expire(s)
      PROVE  NoSessionLost'
  BY <1>17 DEF Expire, TypeOK, OpWellFormed, Ops, Hashes, NoSessionLost, Relisting,
     Marked, Absent, Mark
<1>18. ASSUME Crash
      PROVE  NoSessionLost'
  BY <1>18 DEF Crash, TypeOK, OpWellFormed, Ops, Hashes, NoSessionLost, Relisting,
     Marked, Idle, Busy
<1>19. ASSUME CleanupStaleIndexEntries
      PROVE  NoSessionLost'
  BY <1>19 DEF CleanupStaleIndexEntries, TypeOK, OpWellFormed, Ops, Hashes,
     NoSessionLost, Relisting, Marked
<1>20. ASSUME NEW s \in Session, RemoveFromActiveSet(s)
      PROVE  NoSessionLost'
  BY <1>20 DEF RemoveFromActiveSet, TypeOK, OpWellFormed, Ops, Hashes, NoSessionLost,
     Relisting, Marked, Absent, Mark
<1>21. ASSUME StartServing
      PROVE  NoSessionLost'
  BY <1>21 DEF StartServing, TypeOK, OpWellFormed, Ops, Hashes, NoSessionLost,
     Relisting, Marked
<1>22. CASE UNCHANGED vars
  BY <1>22 DEF vars, NoSessionLost, Relisting, Marked
<1> QED
  BY <1>1, <1>2, <1>3, <1>4, <1>5, <1>6, <1>7, <1>8, <1>9, <1>10, <1>11,
     <1>12, <1>13, <1>14, <1>15, <1>16, <1>17, <1>18, <1>19, <1>20, <1>21, <1>22
  DEF Next, Step

(* ma-core starts on well-typed state.                                      *)
LEMMA InitType == Init => TypeOK /\ OpWellFormed
<1> SUFFICES ASSUME Init PROVE TypeOK /\ OpWellFormed
  OBVIOUS
<1>1. hash \in [Session -> Hashes]
  <2>1. Absent \in Hashes
    BY DEF Absent, Hashes
  <2>2. [fields : {"all"}, status : Targets, ttl : {TRUE}] \subseteq Hashes
    BY TargetsAssumption DEF Hashes
  <2> QED BY <2>1, <2>2 DEF Init
<1>2. index \in [Indexed -> SUBSET Session] /\ attrs \in [{"os", "mode"} -> SUBSET Session]
  BY DEF Init
<1>3. op \in [Handler -> Ops] /\ boot \in 0..(Len(StatusSets) + 1)
  BY LenStatusSets DEF Init, Idle, Ops, PCs
<1>4. hist \in [Session -> SUBSET Marks]
  BY DEF Init, Marks
<1>5. OpWellFormed
  BY DEF Init, OpWellFormed, Idle
<1> QED BY <1>1, <1>2, <1>3, <1>4, <1>5 DEF TypeOK

(* Type correctness: every Hash, index set, call and start-up position of   *)
(* the registry stays in its type, whatever calls overlap or are cut short. *)
THEOREM TypeCorrect == Spec => []TypeOK
<1>2. TypeOK /\ OpWellFormed /\ [Next]_vars => (TypeOK /\ OpWellFormed)'
  BY TypeStep, OpStep
<1> QED BY InitType, <1>2, PTL DEF Spec

(* LostInv is inductive.                                                    *)
LEMMA LostInit == Init => LostInv
<1> SUFFICES ASSUME Init PROVE LostInv
  OBVIOUS
<1>1. TypeOK /\ OpWellFormed
  BY InitType
<1>2. NoRebirth
  BY DEF Init, NoRebirth, Idle, Marked, UpdatePCs, DeletePCs
<1>3. NoSessionLost
  BY DEF Init, NoSessionLost
<1> QED BY <1>1, <1>2, <1>3 DEF LostInv

(* ... and every step keeps it.                                             *)
LEMMA LostNext == LostInv /\ [Next]_vars => LostInv'
BY TypeStep, OpStep, RebirthStep, LostStep DEF LostInv

(* No readable record is ever missing from the index set of its status,     *)
(* unless a call that will list it is running or one was cut short: what    *)
(* the sweeps and queues see does not depend on how the Redis commands of   *)
(* concurrent register, update_status and delete_session calls interleave.  *)
THEOREM RecordsStayListed == Spec => []NoSessionLost
<1>1. LostInv => NoSessionLost
  BY DEF LostInv
<1> QED BY <1>1, LostInit, LostNext, PTL DEF Spec

(* Only a record of an earlier version has a TTL, and update_status takes   *)
(* it away for good.                                                        *)
LEMMA TtlStep ==
  ASSUME TypeOK, OpWellFormed, NoStaleTtl, [Next]_vars
  PROVE  NoStaleTtl'
<1> SUFFICES ASSUME NEW s \in Session, Marked(s, "settled")'
             PROVE  ~hash'[s].ttl
  BY DEF NoStaleTtl
<1>1. /\ hash \in [Session -> Hashes] /\ hist \in [Session -> SUBSET Marks]
      /\ Marked(s, "settled") => ~hash[s].ttl
      /\ \A h \in Handler : op[h].pc # "idle" => op[h].sid \in Session
  BY DEF TypeOK, NoStaleTtl, OpWellFormed
<1>2. ASSUME NEW h \in Handler, CreateHash(h) PROVE ~hash'[s].ttl
  BY <1>1, <1>2 DEF CreateHash, Marked
<1>3. ASSUME NEW h \in Handler, HsetStatus(h) PROVE ~hash'[s].ttl
  BY <1>1, <1>3 DEF HsetStatus, Marked, Hashes
<1>4. ASSUME NEW h \in Handler, ClearTtl(h) PROVE ~hash'[s].ttl
  <2>1. op[h].sid \in Session
    BY <1>1, <1>4 DEF ClearTtl
  <2>2. CASE op[h].sid = s
    BY <1>1, <1>4, <2>2 DEF ClearTtl, Hashes
  <2>3. CASE op[h].sid # s
    BY <1>1, <1>4, <2>1, <2>3 DEF ClearTtl, Marked, Mark
  <2> QED BY <2>2, <2>3
<1>5. ASSUME NEW h \in Handler, Step(h), ~CreateHash(h), ~HsetStatus(h), ~ClearTtl(h)
      PROVE  ~hash'[s].ttl
  <2>1. hash' = hash
    BY <1>5 DEF Step, AddToStatusIndex, AddToOsIndex, AddToModeIndex, SremOldStatus,
       SaddNewStatus, SremFromStatusSet, SremFromOsIndex, SremFromModeIndex
  <2>2. Marked(s, "settled")' => Marked(s, "settled")
    BY <1>1, <1>5 DEF Step, AddToStatusIndex, AddToOsIndex, AddToModeIndex,
       SremOldStatus, SaddNewStatus, SremFromStatusSet, SremFromOsIndex,
       SremFromModeIndex, Marked, Mark
  <2> QED BY <1>1, <2>1, <2>2
<1>6. ASSUME NEW h \in Handler, CommandFails(h) PROVE ~hash'[s].ttl
  BY <1>1, <1>6 DEF CommandFails, Marked, Mark
<1>7. ASSUME NEW h \in Handler, NEW t \in Session, Register(h, t) PROVE ~hash'[s].ttl
  BY <1>1, <1>7 DEF Register, Marked, Mark, Started
<1>8. ASSUME NEW h \in Handler, NEW t \in Session, DeleteSession(h, t) PROVE ~hash'[s].ttl
  BY <1>1, <1>8 DEF DeleteSession, Marked, Mark, Started, Absent
<1>9. ASSUME NEW h \in Handler, NEW t \in Session, NEW new \in Targets,
             UpdateStatus(h, t, new)
      PROVE  ~hash'[s].ttl
  BY <1>1, <1>9 DEF UpdateStatus, Marked, Mark, Started
<1>10. ASSUME NEW t \in Session, UpdateFields(t) PROVE ~hash'[s].ttl
  BY <1>1, <1>10 DEF UpdateFields, Marked, Hashes
<1>11. ASSUME NEW t \in Session, Expire(t) PROVE ~hash'[s].ttl
  BY <1>1, <1>11 DEF Expire, Marked, Mark, Absent
<1>12. ASSUME NEW t \in Session, RemoveFromActiveSet(t) PROVE ~hash'[s].ttl
  BY <1>1, <1>12 DEF RemoveFromActiveSet, Marked, Mark
<1>13. CASE Crash
  BY <1>1, <1>13 DEF Crash, Marked
<1>14. CASE CleanupStaleIndexEntries \/ StartServing \/ UNCHANGED vars
  BY <1>1, <1>14 DEF CleanupStaleIndexEntries, StartServing, vars, Marked
<1> QED BY <1>2, <1>3, <1>4, <1>5, <1>6, <1>7, <1>8, <1>9, <1>10, <1>11, <1>12, <1>13,
           <1>14 DEF Next

(* Only delete_session and Redis's expiry remove a Hash.                    *)
LEMMA WhoRemoves ==
  ASSUME TypeOK, OpWellFormed, [Next]_vars, NEW s \in Session,
         hash[s].fields # "none", hash'[s].fields = "none"
  PROVE  Expire(s) \/ \E h \in Handler : DeleteSession(h, s)
<1>1. /\ hash \in [Session -> Hashes]
      /\ \A h \in Handler : op[h].pc # "idle" => op[h].sid \in Session
  BY DEF TypeOK, OpWellFormed
<1>2. ASSUME NEW h \in Handler, CreateHash(h) \/ HsetStatus(h) \/ ClearTtl(h) PROVE FALSE
  <2>1. CASE CreateHash(h)
    BY <1>1, <2>1 DEF CreateHash
  <2>2. CASE HsetStatus(h)
    BY <1>1, <2>2 DEF HsetStatus, Hashes
  <2>3. CASE ClearTtl(h)
    BY <1>1, <2>3 DEF ClearTtl, Hashes
  <2> QED BY <1>2, <2>1, <2>2, <2>3
<1>3. ASSUME NEW h \in Handler, Step(h) \/ CommandFails(h) PROVE FALSE
  BY <1>2, <1>3 DEF Step, CommandFails, AddToStatusIndex, AddToOsIndex, AddToModeIndex,
     SremOldStatus, SaddNewStatus, SremFromStatusSet, SremFromOsIndex, SremFromModeIndex
<1>4. ASSUME NEW h \in Handler, NEW t \in Session, DeleteSession(h, t) PROVE DeleteSession(h, s)
  BY <1>1, <1>4 DEF DeleteSession
<1>5. ASSUME NEW h \in Handler, NEW t \in Session,
             Register(h, t) \/ \E new \in Targets : UpdateStatus(h, t, new)
      PROVE  FALSE
  BY <1>5 DEF Register, UpdateStatus
<1>6. ASSUME NEW t \in Session, Expire(t) PROVE Expire(s)
  BY <1>1, <1>6 DEF Expire
<1>7. ASSUME NEW t \in Session, UpdateFields(t) \/ RemoveFromActiveSet(t) PROVE FALSE
  BY <1>1, <1>7 DEF UpdateFields, RemoveFromActiveSet, Hashes
<1>8. CASE Crash \/ CleanupStaleIndexEntries \/ StartServing \/ UNCHANGED vars
  BY <1>8 DEF Crash, CleanupStaleIndexEntries, StartServing, vars
<1> QED BY <1>3, <1>4, <1>5, <1>6, <1>7, <1>8 DEF Next

(* A record that one update_status call has gone through disappears only by *)
(* delete_session, whatever TTL an earlier version of ma-core gave it.      *)
THEOREM SettledStay == Spec => SettledRecordsAreDurable
<1> DEFINE Inv == TypeOK /\ OpWellFormed /\ NoStaleTtl
<1>1. Init => Inv
  <2>1. Init => \A s \in Session : hist[s] \in {{}, {"issued", "known"}}
    BY DEF Init
  <2>2. Init => NoStaleTtl
    BY <2>1 DEF NoStaleTtl, Marked
  <2> QED BY <2>2, InitType
<1>2. Inv /\ [Next]_vars => Inv'
  BY TypeStep, OpStep, TtlStep
<1>3. ASSUME Inv, [Next]_vars, NEW s \in Session, Marked(s, "settled"),
             hash[s].fields # "none", hash'[s].fields = "none"
      PROVE  \E h \in Handler : op[h].pc = "idle" /\ op'[h].pc = "unlist" /\ op'[h].sid = s
  <2>1. ~Expire(s)
    BY <1>3 DEF Expire, NoStaleTtl
  <2>2. PICK h \in Handler : DeleteSession(h, s)
    BY <1>3, <2>1, WhoRemoves
  <2> QED BY <1>3, <2>2 DEF DeleteSession, Serving, Call, TypeOK
<1>4. Inv /\ [Next]_vars =>
        [\A s \in Session :
          /\ Marked(s, "settled")
          /\ hash[s].fields # "none"
          /\ hash'[s].fields = "none"
          => \E h \in Handler : /\ op[h].pc = "idle"
                               /\ op'[h].pc = "unlist"
                               /\ op'[h].sid = s]_vars
  BY <1>3
<1> QED BY <1>1, <1>2, <1>4, PTL DEF Spec, SettledRecordsAreDurable

-----------------------------------------------------------------------------
(* A step that leaves everything about the session s alone.                 *)
SameFor(s) ==
    /\ hash'[s] = hash[s]
    /\ hist'[s] = hist[s]
    /\ \A i \in Indexed : s \in index'[i] <=> s \in index[i]
    /\ \A a \in {"os", "mode"} : s \in attrs'[a] <=> s \in attrs[a]
    /\ \A h \in Handler : op[h].sid = s \/ op'[h].sid = s => op'[h] = op[h]

(* A step that leaves a session alone keeps what is known of it.            *)
LEMMA FrameKeeps ==
  ASSUME TypeOK, NEW s \in Session, ExactFor(s), SameFor(s)
  PROVE  ExactFor(s)'
<1>1. Undisturbed(s)' <=> Undisturbed(s)
  BY DEF SameFor, Undisturbed
<1>2. SUFFICES ASSUME Undisturbed(s)
              PROVE  /\ Alone(s)' /\ Life(s)'
                     /\ ~Busy(s)' => StatusListed(s)' /\ AttrsListed(s)'
                     /\ \A h \in Handler : op'[h].sid = s => CallExact(h, s)'
  BY <1>1 DEF ExactFor
<1>3. /\ Alone(s) /\ Life(s)
      /\ ~Busy(s) => StatusListed(s) /\ AttrsListed(s)
      /\ \A h \in Handler : op[h].sid = s => CallExact(h, s)
  BY <1>2 DEF ExactFor
<1>4. Busy(s)' <=> Busy(s)
  BY DEF SameFor, Busy
<1>5. Alone(s)' /\ Life(s)'
  BY <1>3, <1>4 DEF SameFor, Alone, Life, Marked
<1>6. (StatusListed(s)' <=> StatusListed(s)) /\ (AttrsListed(s)' <=> AttrsListed(s))
  BY DEF SameFor, StatusListed, AttrsListed
<1>7. ASSUME NEW h \in Handler, op'[h].sid = s PROVE CallExact(h, s)'
  <2>1. op'[h] = op[h] /\ CallExact(h, s)
    BY <1>3, <1>7 DEF SameFor
  <2>2. Nowhere(s)' <=> Nowhere(s)
    BY DEF SameFor, Nowhere
  <2>3. op[h].pc = "unlist" => \A j \in 1..(op[h].k - 1) : s \notin index'[StatusSets[j]]
    <3>1. \A j \in 1..(op[h].k - 1) : StatusSets[j] \in Indexed
      BY LenStatusSets DEF TypeOK, Ops
    <3> QED BY <2>1, <3>1 DEF SameFor, CallExact
  <2> QED BY <2>1, <2>2, <2>3, <1>6 DEF SameFor, CallExact, Marked
<1> QED BY <1>3, <1>4, <1>5, <1>6, <1>7

(* A step of the only call on a session: it is enough to look at the        *)
(* session, and at the next command of the call or at what it left.         *)
LEMMA OwnKeeps ==
  ASSUME NEW h \in Handler, NEW s \in Session,
         Undisturbed(s)' =>
            /\ \A g \in Handler \ {h} : op'[g].sid # s
            /\ Life(s)'
            /\ op'[h].sid = s => CallExact(h, s)'
            /\ op'[h].sid # s => StatusListed(s)' /\ AttrsListed(s)'
  PROVE  ExactFor(s)'
BY DEF ExactFor, Alone, Busy

(* The commands of a call leave every other session alone.                  *)
LEMMA OthersSame ==
  ASSUME TypeOK, OpWellFormed, NEW h \in Handler, Step(h) \/ CommandFails(h),
         NEW s \in Session, op[h].sid # s
  PROVE  SameFor(s)
<1>1. op[h].sid \in Session /\ op[h].pc # "idle"
  BY DEF Step, OpWellFormed, CommandFails, CreateHash, AddToStatusIndex, AddToOsIndex,
     AddToModeIndex, SremOldStatus, HsetStatus, SaddNewStatus, ClearTtl,
     SremFromStatusSet, SremFromOsIndex, SremFromModeIndex
<1>2. hash'[s] = hash[s] /\ hist'[s] = hist[s]
  BY <1>1 DEF Step, TypeOK, Mark, CommandFails, CreateHash, AddToStatusIndex,
     AddToOsIndex, AddToModeIndex, SremOldStatus, HsetStatus, SaddNewStatus, ClearTtl,
     SremFromStatusSet, SremFromOsIndex, SremFromModeIndex
<1>3. \A i \in Indexed : s \in index'[i] <=> s \in index[i]
  BY <1>1 DEF Step, TypeOK, CommandFails, CreateHash, AddToStatusIndex, AddToOsIndex,
     AddToModeIndex, SremOldStatus, HsetStatus, SaddNewStatus, ClearTtl,
     SremFromStatusSet, SremFromOsIndex, SremFromModeIndex
<1>4. \A a \in {"os", "mode"} : s \in attrs'[a] <=> s \in attrs[a]
  BY <1>1 DEF Step, TypeOK, CommandFails, CreateHash, AddToStatusIndex, AddToOsIndex,
     AddToModeIndex, SremOldStatus, HsetStatus, SaddNewStatus, ClearTtl,
     SremFromStatusSet, SremFromOsIndex, SremFromModeIndex
<1>5. (\A g \in Handler \ {h} : op'[g] = op[g]) /\ op'[h].sid \in {op[h].sid, None}
  BY <1>1 DEF Step, TypeOK, Ops, Goto, Return, Idle, CommandFails, CreateHash,
     AddToStatusIndex, AddToOsIndex, AddToModeIndex, SremOldStatus, HsetStatus,
     SaddNewStatus, ClearTtl, SremFromStatusSet, SremFromOsIndex, SremFromModeIndex
<1> QED BY <1>2, <1>3, <1>4, <1>5, NoneAssumption DEF SameFor

(* delete_session visits every index set.                                   *)
LEMMA EverySetVisited == \A i \in Indexed : \E k \in 1..6 : StatusSets[k] = i
  BY DEF StatusSets, Indexed, Status

(* A command of the only call on an undisturbed session does what the       *)
(* session's state says of it.                                              *)
LEMMA OwnStep ==
  ASSUME TypeOK, OpWellFormed, NoRebirth, NEW h \in Handler, Step(h),
         NEW s \in Session, op[h].sid = s, ExactFor(s)
  PROVE  ExactFor(s)'
<1>1. hist'[s] \in {hist[s], hist[s] \cup {"known"}, hist[s] \cup {"settled"}}
  BY DEF Step, TypeOK, Mark, CreateHash, AddToStatusIndex, AddToOsIndex, AddToModeIndex,
     SremOldStatus, HsetStatus, SaddNewStatus, ClearTtl, SremFromStatusSet,
     SremFromOsIndex, SremFromModeIndex
<1>2. \A g \in Handler \ {h} : op'[g] = op[g]
  BY DEF Step, TypeOK, Goto, Return, CreateHash, AddToStatusIndex, AddToOsIndex,
     AddToModeIndex, SremOldStatus, HsetStatus, SaddNewStatus, ClearTtl,
     SremFromStatusSet, SremFromOsIndex, SremFromModeIndex
<1> SUFFICES ASSUME Undisturbed(s)'
             PROVE  /\ \A g \in Handler \ {h} : op'[g].sid # s
                    /\ Life(s)'
                    /\ op'[h].sid = s => CallExact(h, s)'
                    /\ op'[h].sid # s => StatusListed(s)' /\ AttrsListed(s)'
  BY OwnKeeps
<1>3. Undisturbed(s)
  BY <1>1 DEF Undisturbed
<1>4. Alone(s) /\ Life(s) /\ CallExact(h, s)
  BY <1>3 DEF ExactFor
<1>5. \A g \in Handler \ {h} : op'[g].sid # s
  BY <1>2, <1>4 DEF Alone
<1>6. /\ op[h] \in Ops /\ hash[s] \in Hashes /\ index \in [Indexed -> SUBSET Session]
      /\ attrs \in [{"os", "mode"} -> SUBSET Session] /\ hist \in [Session -> SUBSET Marks]
      /\ op \in [Handler -> Ops] /\ hash \in [Session -> Hashes]
  BY DEF TypeOK
<1>7. Busy(s)
  BY DEF Busy
<1>8. /\ op[h].pc # "idle" => Marked(s, "issued")
      /\ op[h].pc \in UpdatePCs \cup DeletePCs => Marked(s, "known") /\ Marked(s, "issued")
  BY DEF NoRebirth, UpdatePCs, DeletePCs
<1>9. ASSUME CreateHash(h)
      PROVE  /\ Life(s)'
             /\ op'[h].sid = s => CallExact(h, s)'
             /\ op'[h].sid # s => StatusListed(s)' /\ AttrsListed(s)'
  <2>1. /\ hash'[s].fields = "all" /\ hash'[s].status = "active" /\ hist' = hist
        /\ index' = index /\ attrs' = attrs
    BY <1>9, <1>4, <1>6 DEF CreateHash, CallExact, OpWellFormed
  <2>2. op'[h].sid = s /\ op'[h].pc = "list"
    BY <1>9, <1>6 DEF CreateHash, Goto
  <2>3. Life(s)'
    BY <2>1, <2>2, <1>9, <1>4, <1>7, <1>8, IndexedStatus
       DEF Life, CallExact, CreateHash, Marked, Busy
  <2>4. CallExact(h, s)'
    BY <2>1, <2>2, <1>9, <1>4, <1>6
       DEF CallExact, CreateHash, Nowhere, UpdatePCs, DeletePCs
  <2> QED BY <2>2, <2>3, <2>4
<1>10. ASSUME AddToStatusIndex(h)
      PROVE  /\ Life(s)'
             /\ op'[h].sid = s => CallExact(h, s)'
             /\ op'[h].sid # s => StatusListed(s)' /\ AttrsListed(s)'
  <2>1. /\ hash' = hash /\ attrs' = attrs /\ hash[s].status = "active" /\ hash[s].fields = "all"
        /\ \A i \in Indexed : s \in index'[i] <=> i = "active"
    BY <1>10, <1>4, <1>6, IndexedStatus DEF AddToStatusIndex, CallExact, OpWellFormed, Nowhere
  <2>2. op'[h].sid = s /\ op'[h].pc = "list_os"
    BY <1>10, <1>6 DEF AddToStatusIndex, Goto
  <2>3. Life(s)'
    BY <2>1, <2>2, <1>10, <1>4, <1>6, <1>7 DEF Life, AddToStatusIndex, Marked, Mark, Busy
  <2>4. Marked(s, "known")'
    BY <1>10, <1>6 DEF AddToStatusIndex, Mark, Marked
  <2>5. CallExact(h, s)'
    BY <2>1, <2>2, <2>4, <1>10, <1>4, <1>6
       DEF CallExact, AddToStatusIndex, StatusListed, UpdatePCs, DeletePCs
  <2> QED BY <2>2, <2>3, <2>5
<1>11. ASSUME AddToOsIndex(h)
      PROVE  /\ Life(s)'
             /\ op'[h].sid = s => CallExact(h, s)'
             /\ op'[h].sid # s => StatusListed(s)' /\ AttrsListed(s)'
  BY <1>11, <1>4, <1>5, <1>6, <1>7, LenStatusSets, NoneAssumption
     DEF AddToOsIndex, Life, CallExact, StatusListed, AttrsListed, Nowhere, Marked, Mark, Goto,
     Return, Idle, Ops, Hashes, UpdatePCs, DeletePCs, Busy
<1>12. ASSUME AddToModeIndex(h)
      PROVE  /\ Life(s)'
             /\ op'[h].sid = s => CallExact(h, s)'
             /\ op'[h].sid # s => StatusListed(s)' /\ AttrsListed(s)'
  <2>1. /\ hash' = hash /\ hist' = hist /\ index' = index /\ s \in attrs'["mode"]
        /\ s \in attrs'["os"] /\ hash[s].fields = "all" /\ StatusListed(s)
        /\ Marked(s, "known")
    BY <1>12, <1>4, <1>6 DEF AddToModeIndex, CallExact, Marked
  <2>2. op'[h].sid = None
    BY <1>12, <1>6 DEF AddToModeIndex, Return, Idle
  <2>3. Life(s)'
    BY <2>1, <1>12, <1>4 DEF Life, AddToModeIndex, Marked
  <2>4. StatusListed(s)' /\ AttrsListed(s)'
    BY <2>1 DEF StatusListed, AttrsListed
  <2> QED BY <2>2, <2>3, <2>4, NoneAssumption
<1>13. ASSUME SremOldStatus(h)
      PROVE  /\ Life(s)'
             /\ op'[h].sid = s => CallExact(h, s)'
             /\ op'[h].sid # s => StatusListed(s)' /\ AttrsListed(s)'
  BY <1>13, <1>4, <1>5, <1>6, <1>7, LenStatusSets, NoneAssumption
     DEF SremOldStatus, Life, CallExact, StatusListed, AttrsListed, Nowhere, Marked, Mark, Goto,
     Return, Idle, Ops, Hashes, UpdatePCs, DeletePCs, Busy
<1>14. ASSUME HsetStatus(h)
      PROVE  /\ Life(s)'
             /\ op'[h].sid = s => CallExact(h, s)'
             /\ op'[h].sid # s => StatusListed(s)' /\ AttrsListed(s)'
  BY <1>14, <1>4, <1>5, <1>6, <1>7, LenStatusSets, NoneAssumption, TargetsAssumption
     DEF HsetStatus, Life, CallExact, StatusListed, AttrsListed, Nowhere, Marked, Mark, Goto,
     Return, Idle, Ops, Hashes, UpdatePCs, DeletePCs, Busy
<1>15. ASSUME SaddNewStatus(h)
      PROVE  /\ Life(s)'
             /\ op'[h].sid = s => CallExact(h, s)'
             /\ op'[h].sid # s => StatusListed(s)' /\ AttrsListed(s)'
  BY <1>15, <1>4, <1>5, <1>6, <1>7, LenStatusSets, NoneAssumption
     DEF SaddNewStatus, Life, CallExact, StatusListed, AttrsListed, Nowhere, Marked, Mark, Goto,
     Return, Idle, Ops, Hashes, UpdatePCs, DeletePCs, Busy
<1>16. ASSUME ClearTtl(h)
      PROVE  /\ Life(s)'
             /\ op'[h].sid = s => CallExact(h, s)'
             /\ op'[h].sid # s => StatusListed(s)' /\ AttrsListed(s)'
  <2>1. /\ hash'[s].fields = hash[s].fields /\ hash'[s].status = hash[s].status
        /\ hist'[s] = hist[s] \cup {"settled"} /\ index' = index /\ attrs' = attrs
    BY <1>16, <1>6 DEF ClearTtl, Mark, Hashes
  <2>2. op'[h].sid = None
    BY <1>16, <1>6 DEF ClearTtl, Return, Idle
  <2>3. StatusListed(s) /\ AttrsListed(s) /\ Marked(s, "known") /\ Marked(s, "issued")
    BY <1>16, <1>4, <1>8 DEF ClearTtl, CallExact, UpdatePCs
  <2>4. Life(s)'
    BY <2>1, <2>3, <1>4 DEF Life, Marked
  <2>5. StatusListed(s)' /\ AttrsListed(s)'
    BY <2>1, <2>3 DEF StatusListed, AttrsListed
  <2> QED BY <2>2, <2>4, <2>5, NoneAssumption
<1>17. ASSUME SremFromStatusSet(h)
      PROVE  /\ Life(s)'
             /\ op'[h].sid = s => CallExact(h, s)'
             /\ op'[h].sid # s => StatusListed(s)' /\ AttrsListed(s)'
  <2> DEFINE k == op[h].k
  <2>1. /\ hash' = hash /\ hist' = hist /\ attrs' = attrs /\ k \in 1..6
        /\ op[h].pc = "unlist" /\ hash[s].fields # "all" /\ hash[s].status = "none"
        /\ \A j \in 1..(k - 1) : s \notin index[StatusSets[j]]
    BY <1>17, <1>4, LenStatusSets DEF SremFromStatusSet, CallExact, OpWellFormed, DeletePCs
  <2>2. \A j \in 1..k : s \notin index'[StatusSets[j]]
    BY <2>1, <1>17, <1>6, LenStatusSets DEF SremFromStatusSet
  <2>3. op'[h].sid = s /\ op'[h].pc \in {"unlist", "unlist_os"}
    BY <2>1, <1>17, <1>6 DEF SremFromStatusSet, Goto
  <2>4. Life(s)'
    BY <2>1, <2>3, <1>4, <1>7 DEF Life, Marked, Busy
  <2>5. CASE k = 6
    <3>1. op'[h].pc = "unlist_os"
      BY <2>5, <1>17, <1>6, LenStatusSets DEF SremFromStatusSet, Goto
    <3>2. Nowhere(s)'
      BY <2>2, <2>5, EverySetVisited DEF Nowhere
    <3>3. CallExact(h, s)'
      BY <2>1, <3>1, <3>2 DEF CallExact, UpdatePCs, DeletePCs
    <3> QED BY <3>3, <2>3, <2>4
  <2>6. CASE k # 6
    <3>1. op'[h].pc = "unlist" /\ op'[h].k = k + 1
      BY <2>1, <2>6, <1>17, <1>6, LenStatusSets DEF SremFromStatusSet
    <3>2. \A j \in 1..(op'[h].k - 1) : s \notin index'[StatusSets[j]]
      BY <2>1, <2>2, <3>1
    <3>3. CallExact(h, s)'
      BY <2>1, <3>1, <3>2 DEF CallExact, UpdatePCs, DeletePCs
    <3> QED BY <3>3, <2>3, <2>4
  <2> QED BY <2>5, <2>6
<1>18. ASSUME SremFromOsIndex(h)
      PROVE  /\ Life(s)'
             /\ op'[h].sid = s => CallExact(h, s)'
             /\ op'[h].sid # s => StatusListed(s)' /\ AttrsListed(s)'
  BY <1>18, <1>4, <1>5, <1>6, <1>7, LenStatusSets, NoneAssumption
     DEF SremFromOsIndex, Life, CallExact, StatusListed, AttrsListed, Nowhere, Marked, Mark, Goto,
     Return, Idle, Ops, Hashes, UpdatePCs, DeletePCs, Busy
<1>19. ASSUME SremFromModeIndex(h)
      PROVE  /\ Life(s)'
             /\ op'[h].sid = s => CallExact(h, s)'
             /\ op'[h].sid # s => StatusListed(s)' /\ AttrsListed(s)'
  <2>1. /\ hash' = hash /\ hist' = hist /\ index' = index /\ s \notin attrs'["mode"]
        /\ s \notin attrs'["os"] /\ hash[s].fields # "all" /\ Nowhere(s)
        /\ Marked(s, "known") /\ Marked(s, "issued")
    BY <1>19, <1>4, <1>6, <1>8 DEF SremFromModeIndex, CallExact, DeletePCs
  <2>2. op'[h].sid = None
    BY <1>19, <1>6 DEF SremFromModeIndex, Return, Idle
  <2>3. Life(s)'
    BY <2>1, <1>4 DEF Life, Marked
  <2>4. StatusListed(s)' /\ AttrsListed(s)'
    BY <2>1 DEF StatusListed, AttrsListed, Nowhere
  <2> QED BY <2>2, <2>3, <2>4, NoneAssumption
<1> QED BY <1>5, <1>9, <1>10, <1>11, <1>12, <1>13, <1>14, <1>15, <1>16, <1>17, <1>18, <1>19 DEF Step

(* Starting a call while another is in progress marks the session, so a     *)
(* session that is undisturbed afterwards was idle.                         *)
LEMMA StartFinds ==
  ASSUME TypeOK, NEW s \in Session, NEW ms \in SUBSET Marks,
         hist' = Started(s, ms), ExactFor(s), Undisturbed(s)'
  PROVE  /\ Undisturbed(s) /\ ~Busy(s) /\ Life(s) /\ StatusListed(s) /\ AttrsListed(s)
         /\ \A g \in Handler : op[g].sid # s
<1>1. hist'[s] = hist[s] \cup ms \cup (IF Busy(s) THEN {"raced"} ELSE {})
  BY DEF TypeOK, Started, Mark
<1>2. Undisturbed(s) /\ ~Busy(s)
  BY <1>1 DEF Undisturbed
<1> QED BY <1>2 DEF ExactFor, Busy

(* The call of an idle handler on another session leaves this one alone.    *)
LEMMA OthersSameAtStart ==
  ASSUME TypeOK, OpWellFormed, NEW h \in Handler, NEW t \in Session,
         \/ Register(h, t) \/ DeleteSession(h, t)
         \/ \E new \in Targets : UpdateStatus(h, t, new),
         NEW s \in Session, t # s
  PROVE  SameFor(s)
<1>1. hash'[s] = hash[s] /\ hist'[s] = hist[s] /\ index' = index /\ attrs' = attrs
  BY DEF TypeOK, Register, DeleteSession, UpdateStatus, Started, Mark
<1>2. op[h].sid = None
  BY DEF OpWellFormed, Register, DeleteSession, UpdateStatus, Serving, Idle
<1>3. (\A g \in Handler \ {h} : op'[g] = op[g]) /\ op'[h].sid = t
  BY DEF TypeOK, Register, DeleteSession, UpdateStatus, Call
<1> QED BY <1>1, <1>2, <1>3, NoneAssumption DEF SameFor

(* A call that starts finds what the last one left.                         *)
LEMMA OwnStart ==
  ASSUME TypeOK, OpWellFormed, NoRebirth, NEW h \in Handler, NEW s \in Session,
         \/ Register(h, s) \/ DeleteSession(h, s)
         \/ \E new \in Targets : UpdateStatus(h, s, new),
         ExactFor(s)
  PROVE  ExactFor(s)'
<1> SUFFICES ASSUME Undisturbed(s)'
             PROVE  /\ \A g \in Handler \ {h} : op'[g].sid # s
                    /\ Life(s)'
                    /\ op'[h].sid = s
                    /\ CallExact(h, s)'
  BY OwnKeeps
<1>1. /\ op \in [Handler -> Ops] /\ hash[s] \in Hashes /\ index \in [Indexed -> SUBSET Session]
      /\ hash \in [Session -> Hashes] /\ hist \in [Session -> SUBSET Marks]
  BY DEF TypeOK
<1>2. ASSUME Register(h, s)
      PROVE  /\ \A g \in Handler \ {h} : op'[g].sid # s
             /\ Life(s)' /\ op'[h].sid = s /\ CallExact(h, s)'
  <2>1. /\ Life(s) /\ StatusListed(s) /\ AttrsListed(s)
        /\ \A g \in Handler : op[g].sid # s
    <3>1. {"issued"} \in SUBSET Marks
      BY DEF Marks
    <3> QED BY <1>2, <3>1, StartFinds DEF Register
  <2>2. /\ op'[h] = Call("create", s, "none", "active", 0)
        /\ \A g \in Handler \ {h} : op'[g] = op[g]
    BY <1>2, <1>1 DEF Register
  <2>3. hash' = hash /\ index' = index /\ attrs' = attrs /\ hash[s].fields = "none"
    BY <1>2 DEF Register
  <2>4. hist'[s] = hist[s] \cup {"issued"} \/ hist'[s] = hist[s] \cup {"issued", "raced"}
    BY <1>2, <1>1 DEF Register, Started, Mark
  <2>5. ~Marked(s, "known") /\ ~Marked(s, "known")' /\ ~Marked(s, "deleted")'
    BY <1>2, <2>1, <2>4 DEF Register, NoRebirth, Life, Marked
  <2>6. Busy(s)'
    BY <2>2 DEF Busy, Call
  <2>7. Life(s)'
    BY <2>1, <2>3, <2>5, <2>6 DEF Life
  <2>8. CallExact(h, s)'
    BY <2>1, <2>2, <2>3, <2>5, IndexedStatus
       DEF CallExact, Call, Nowhere, StatusListed, AttrsListed, UpdatePCs, DeletePCs, Life, Indexed, Status
  <2> QED BY <2>1, <2>2, <2>7, <2>8 DEF Call
<1>3. ASSUME DeleteSession(h, s)
      PROVE  /\ \A g \in Handler \ {h} : op'[g].sid # s
             /\ Life(s)' /\ op'[h].sid = s /\ CallExact(h, s)'
  <2>1. \A g \in Handler : op[g].sid # s
    <3>1. {"deleted"} \in SUBSET Marks
      BY DEF Marks
    <3> QED BY <1>3, <3>1, StartFinds DEF DeleteSession
  <2>2. /\ op'[h] = Call("unlist", s, "none", "none", 1)
        /\ \A g \in Handler \ {h} : op'[g] = op[g]
    BY <1>3, <1>1 DEF DeleteSession
  <2>3. hash'[s] = Absent /\ Marked(s, "known") /\ Marked(s, "issued")
    BY <1>3, <1>1 DEF DeleteSession, NoRebirth
  <2>4. Marked(s, "known")' /\ Marked(s, "issued")' /\ Marked(s, "deleted")'
    BY <1>3, <1>1, <2>3 DEF DeleteSession, Started, Mark, Marked
  <2>5. Life(s)'
    BY <2>3, <2>4 DEF Life, Absent
  <2>6. CallExact(h, s)'
    BY <2>2, <2>3 DEF CallExact, Call, Absent, UpdatePCs, DeletePCs
  <2> QED BY <2>1, <2>2, <2>5, <2>6 DEF Call
<1>4. ASSUME NEW new \in Targets, UpdateStatus(h, s, new)
      PROVE  /\ \A g \in Handler \ {h} : op'[g].sid # s
             /\ Life(s)' /\ op'[h].sid = s /\ CallExact(h, s)'
  <2>1. /\ Life(s) /\ StatusListed(s) /\ AttrsListed(s)
        /\ \A g \in Handler : op[g].sid # s
    BY <1>4, StartFinds DEF UpdateStatus
  <2>2. /\ op'[h] = Call(IF hash[s].status \in Indexed THEN "srem" ELSE "hset",
                         s, hash[s].status, new, 0)
        /\ \A g \in Handler \ {h} : op'[g] = op[g]
    BY <1>4, <1>1 DEF UpdateStatus
  <2>3. hash' = hash /\ index' = index /\ attrs' = attrs
    BY <1>4 DEF UpdateStatus
  <2>4. hist'[s] = hist[s] \/ hist'[s] = hist[s] \cup {"raced"}
    BY <1>4, <1>1 DEF UpdateStatus, Started, Mark
  <2>5. Marked(s, "known")
    BY <1>4 DEF UpdateStatus
  <2>6. Life(s)'
    BY <2>1, <2>3, <2>4, <2>5 DEF Life, Marked
  <2>7. CASE hash[s].status \in Indexed
    <3>1. op'[h] = Call("srem", s, hash[s].status, new, 0)
      BY <2>2, <2>7
    <3> QED BY <2>1, <2>2, <2>3, <2>6, <3>1
            DEF CallExact, Call, StatusListed, AttrsListed, UpdatePCs, DeletePCs
  <2>8. CASE hash[s].status \notin Indexed
    <3>1. op'[h] = Call("hset", s, hash[s].status, new, 0)
      BY <2>2, <2>8
    <3>2. Nowhere(s)'
      BY <2>1, <2>3, <2>8 DEF Nowhere, StatusListed
    <3> QED BY <2>1, <2>2, <2>3, <2>6, <3>1, <3>2
            DEF CallExact, Call, AttrsListed, UpdatePCs, DeletePCs
  <2> QED BY <2>7, <2>8
<1> QED BY <1>2, <1>3, <1>4

(* Start-up runs before any call and after a kill.                          *)
LEMMA BootStep ==
  ASSUME TypeOK, OpWellFormed, BootAlone, [Next]_vars
  PROVE  BootAlone'
<1>1. ASSUME NEW h \in Handler, Step(h) \/ CommandFails(h)
      PROVE  BootAlone'
  <2>1. boot = 0
    BY <1>1 DEF BootAlone, Step, CommandFails, CreateHash, AddToStatusIndex, AddToOsIndex,
       AddToModeIndex, SremOldStatus, HsetStatus, SaddNewStatus, ClearTtl,
       SremFromStatusSet, SremFromOsIndex, SremFromModeIndex
  <2>2. boot' = boot
    BY <1>1 DEF Step, CommandFails, CreateHash, AddToStatusIndex, AddToOsIndex,
       AddToModeIndex, SremOldStatus, HsetStatus, SaddNewStatus, ClearTtl,
       SremFromStatusSet, SremFromOsIndex, SremFromModeIndex
  <2> QED BY <2>1, <2>2 DEF BootAlone
<1>2. ASSUME NEW h \in Handler, NEW s \in Session,
             \/ Register(h, s) \/ DeleteSession(h, s)
             \/ \E new \in Targets : UpdateStatus(h, s, new)
      PROVE  BootAlone'
  BY <1>2 DEF BootAlone, Register, DeleteSession, UpdateStatus, Serving
<1>3. ASSUME NEW s \in Session, UpdateFields(s) \/ Expire(s) \/ RemoveFromActiveSet(s)
      PROVE  BootAlone'
  BY <1>3 DEF BootAlone, UpdateFields, Expire, RemoveFromActiveSet
<1>4. CASE Crash
  BY <1>4 DEF BootAlone, Crash, Idle
<1>5. CASE CleanupStaleIndexEntries \/ StartServing
  BY <1>5 DEF BootAlone, CleanupStaleIndexEntries, StartServing, TypeOK
<1>6. CASE UNCHANGED vars
  BY <1>6 DEF BootAlone, vars
<1> QED BY <1>1, <1>2, <1>3, <1>4, <1>5, <1>6 DEF Next

(* During start-up no call is in progress.                                  *)
LEMMA NobodyAtBoot ==
  ASSUME OpWellFormed, BootAlone, boot # 0, NEW s \in Session
  PROVE  \A h \in Handler : op[h].sid # s
BY NoneAssumption DEF OpWellFormed, BootAlone, Idle

(* What is known of an undisturbed session holds after every step.          *)
LEMMA ExactStep ==
  ASSUME ExactInv, [Next]_vars, NEW s \in Session
  PROVE  ExactFor(s)'
<1>1. TypeOK /\ OpWellFormed /\ NoRebirth /\ BootAlone /\ ExactFor(s)
  BY DEF ExactInv, LostInv
<1>2. ASSUME NEW h \in Handler, Step(h)
      PROVE  ExactFor(s)'
  BY <1>1, <1>2, OthersSame, FrameKeeps, OwnStep
<1>3. ASSUME NEW h \in Handler, CommandFails(h)
      PROVE  ExactFor(s)'
  <2>1. CASE op[h].sid # s
    BY <1>1, <1>3, <2>1, OthersSame, FrameKeeps
  <2>2. CASE op[h].sid = s
    <3>1. Marked(s, "torn")'
      BY <1>1, <1>3, <2>2 DEF CommandFails, Mark, Marked, TypeOK
    <3> QED BY <3>1 DEF ExactFor, Undisturbed, Marked
  <2> QED BY <2>1, <2>2
<1>4. ASSUME NEW h \in Handler, NEW t \in Session,
             \/ Register(h, t) \/ DeleteSession(h, t)
             \/ \E new \in Targets : UpdateStatus(h, t, new)
      PROVE  ExactFor(s)'
  BY <1>1, <1>4, OthersSameAtStart, FrameKeeps, OwnStart
<1>5. ASSUME NEW t \in Session, UpdateFields(t)
      PROVE  ExactFor(s)'
  <2>1. CASE t # s
    <3>1. SameFor(s)
      BY <1>1, <1>5, <2>1 DEF SameFor, UpdateFields, TypeOK
    <3> QED BY <1>1, <3>1, FrameKeeps
  <2>2. CASE t = s
    <3>1. /\ hash[s].fields = "none" /\ hash'[s].fields = "some"
          /\ hash'[s].status = hash[s].status /\ Marked(s, "known")
          /\ index' = index /\ attrs' = attrs /\ op' = op /\ hist' = hist
      BY <1>1, <1>5, <2>2 DEF UpdateFields, TypeOK, Hashes
    <3> SUFFICES ASSUME Undisturbed(s)
                 PROVE  /\ Alone(s)' /\ Life(s)'
                        /\ ~Busy(s)' => StatusListed(s)' /\ AttrsListed(s)'
                        /\ \A h \in Handler : op'[h].sid = s => CallExact(h, s)'
      BY <3>1 DEF ExactFor, Undisturbed
    <3>2. /\ Alone(s) /\ Life(s)
          /\ ~Busy(s) => StatusListed(s) /\ AttrsListed(s)
          /\ \A h \in Handler : op[h].sid = s => CallExact(h, s)
      BY <1>1 DEF ExactFor
    <3>3. Alone(s)' /\ Life(s)'
      BY <3>1, <3>2 DEF Alone, Life, Marked, Busy
    <3>4. (StatusListed(s) => StatusListed(s)') /\ (AttrsListed(s) => AttrsListed(s)')
      BY <3>1 DEF StatusListed, AttrsListed
    <3>5. ~Busy(s)' => StatusListed(s)' /\ AttrsListed(s)'
      BY <3>1, <3>2, <3>4 DEF Busy
    <3>6. ASSUME NEW h \in Handler, op'[h].sid = s PROVE CallExact(h, s)'
      <4>1. CallExact(h, s) /\ op'[h] = op[h]
        BY <3>1, <3>2, <3>6
      <4> QED BY <3>1, <3>4, <4>1 DEF CallExact, Nowhere, Marked
    <3> QED BY <3>3, <3>5, <3>6
  <2> QED BY <2>1, <2>2
<1>6. ASSUME NEW t \in Session, Expire(t)
      PROVE  ExactFor(s)'
  <2>1. CASE t # s
    <3>1. SameFor(s)
      BY <1>1, <1>6, <2>1 DEF SameFor, Expire, TypeOK, Mark
    <3> QED BY <1>1, <3>1, FrameKeeps
  <2>2. CASE t = s
    <3>1. Marked(s, "expired")'
      BY <1>1, <1>6, <2>2 DEF Expire, Mark, Marked, TypeOK
    <3> QED BY <3>1 DEF ExactFor, Undisturbed, Marked
  <2> QED BY <2>1, <2>2
<1>7. ASSUME Crash
      PROVE  ExactFor(s)'
  <2>1. CASE Busy(s)
    <3>1. Marked(s, "torn")'
      BY <1>7, <2>1 DEF Crash, Marked
    <3> QED BY <3>1 DEF ExactFor, Undisturbed, Marked
  <2>2. CASE ~Busy(s)
    <3>1. SameFor(s)
      BY <1>7, <2>2, NoneAssumption DEF SameFor, Crash, Busy, Idle
    <3> QED BY <1>1, <3>1, FrameKeeps
  <2> QED BY <2>1, <2>2
<1>8. ASSUME CleanupStaleIndexEntries
      PROVE  ExactFor(s)'
  <2>1. boot # 0 /\ boot \in 1..6
    BY <1>8, LenStatusSets DEF CleanupStaleIndexEntries
  <2>2. /\ hash' = hash /\ attrs' = attrs /\ op' = op /\ hist' = hist
        /\ \A i \in Indexed : s \in index'[i] => s \in index[i]
        /\ \A i \in Indexed : hash[s].fields # "none" /\ s \in index[i] => s \in index'[i]
    BY <1>1, <1>8, <2>1, LenStatusSets DEF CleanupStaleIndexEntries, TypeOK
  <2>3. \A h \in Handler : op[h].sid # s
    BY <1>1, <2>1, NobodyAtBoot
  <2> SUFFICES ASSUME Undisturbed(s)
               PROVE  Alone(s)' /\ Life(s)' /\ StatusListed(s)' /\ AttrsListed(s)'
    BY <2>2, <2>3 DEF ExactFor, Undisturbed
  <2>4. Alone(s) /\ Life(s) /\ StatusListed(s) /\ AttrsListed(s)
    BY <1>1, <2>3 DEF ExactFor, Busy
  <2>5. StatusListed(s)' /\ AttrsListed(s)'
    BY <2>2, <2>4 DEF StatusListed, AttrsListed
  <2> QED BY <2>2, <2>4, <2>5 DEF Alone, Life, Marked, Busy
<1>9. ASSUME NEW t \in Session, RemoveFromActiveSet(t)
      PROVE  ExactFor(s)'
  <2>1. boot # 0
    BY <1>9, LenStatusSets DEF RemoveFromActiveSet
  <2>2. \A h \in Handler : op[h].sid # s
    BY <1>1, <2>1, NobodyAtBoot
  <2>3. CASE t # s
    <3>1. SameFor(s)
      BY <1>1, <1>9, <2>3, IndexedStatus DEF SameFor, RemoveFromActiveSet, TypeOK, Mark
    <3> QED BY <1>1, <3>1, FrameKeeps
  <2>4. CASE t = s /\ hash[s].fields = "all"
    <3>1. Marked(s, "torn")'
      BY <1>1, <1>9, <2>4 DEF RemoveFromActiveSet, Mark, Marked, TypeOK
    <3> QED BY <3>1 DEF ExactFor, Undisturbed, Marked
  <2>5. CASE t = s /\ hash[s].fields # "all"
    <3>1. /\ hash' = hash /\ attrs' = attrs /\ op' = op /\ hist' = hist
          /\ \A i \in Indexed : s \in index'[i] => s \in index[i]
      BY <1>1, <1>9, <2>5, IndexedStatus DEF RemoveFromActiveSet, TypeOK
    <3> SUFFICES ASSUME Undisturbed(s)
                 PROVE  Alone(s)' /\ Life(s)' /\ StatusListed(s)' /\ AttrsListed(s)'
      BY <3>1, <2>2 DEF ExactFor, Undisturbed
    <3>2. Alone(s) /\ Life(s) /\ StatusListed(s) /\ AttrsListed(s)
      BY <1>1, <2>2 DEF ExactFor, Busy
    <3>3. StatusListed(s)' /\ AttrsListed(s)'
      BY <2>5, <3>1, <3>2 DEF StatusListed, AttrsListed
    <3> QED BY <3>1, <3>2, <3>3 DEF Alone, Life, Marked, Busy
  <2> QED BY <2>3, <2>4, <2>5
<1>10. CASE StartServing \/ UNCHANGED vars
  <2>1. SameFor(s)
    BY <1>10 DEF StartServing, vars, SameFor
  <2> QED BY <1>1, <2>1, FrameKeeps
<1> QED BY <1>2, <1>3, <1>4, <1>5, <1>6, <1>7, <1>8, <1>9, <1>10 DEF Next

(* The records of an earlier version are listed by their status, and no     *)
(* call is in progress.                                                     *)
LEMMA ExactInit == Init => ExactInv
<1> SUFFICES ASSUME Init PROVE ExactInv
  OBVIOUS
<1>1. LostInv
  BY LostInit
<1>2. BootAlone
  BY DEF Init, BootAlone, Idle
<1>3. ASSUME NEW s \in Session PROVE ExactFor(s)
  <2>1. \A h \in Handler : op[h].sid # s
    BY NoneAssumption DEF Init, Idle
  <2>2. hash[s] = Absent \/ (hash[s].fields = "all" /\ hash[s].status \in Targets)
    BY DEF Init
  <2>3. hash[s] # Absent <=> hash[s].fields = "all"
    BY <2>2 DEF Absent
  <2>4. hist[s] = IF hash[s].fields = "all" THEN {"issued", "known"} ELSE {}
    BY <2>3 DEF Init
  <2>5. Life(s)
    BY <2>2, <2>4, TargetsAssumption DEF Life, Marked, Absent
  <2>6. \A i \in Indexed : s \in index[i] <=> hash[s].status = i
    BY DEF Init
  <2>7. StatusListed(s) /\ AttrsListed(s)
    BY <2>3, <2>6 DEF StatusListed, AttrsListed, Init
  <2> QED BY <2>1, <2>5, <2>7 DEF ExactFor, Alone
<1> QED BY <1>1, <1>2, <1>3 DEF ExactInv

(* ExactInv is inductive.                                                   *)
LEMMA ExactNext == ExactInv /\ [Next]_vars => ExactInv'
BY LostNext, BootStep, ExactStep DEF ExactInv, LostInv

(* When the calls on a session never overlapped and none was cut short,     *)
(* the index sets say what the record says once the calls are done:         *)
(* register, update_status and delete_session leave the session in the one  *)
(* set of its status and in its attribute sets, or in none.                 *)
THEOREM IndexSetsAreExact == Spec => []IndexExact
<1>1. ExactInv => IndexExact
  <2> SUFFICES ASSUME ExactInv, NEW s \in Session, Undisturbed(s), ~Busy(s)
               PROVE  /\ \A i \in Indexed :
                            /\ s \in index[i] => hash[s].status = i
                            /\ hash[s].fields = "all" /\ hash[s].status = i => s \in index[i]
                      /\ \A a \in {"os", "mode"} : hash[s].fields = "all" => s \in attrs[a]
                      /\ Marked(s, "deleted") => \A a \in {"os", "mode"} : s \notin attrs[a]
    BY DEF IndexExact
  <2>1. Life(s) /\ StatusListed(s) /\ AttrsListed(s)
    BY DEF ExactInv, ExactFor
  <2> QED BY <2>1 DEF Life, StatusListed, AttrsListed
<1> QED BY <1>1, ExactInit, ExactNext, PTL DEF Spec

-----------------------------------------------------------------------------
(* The refinement.  A session that was disturbed looks loose; otherwise the *)
(* invariant makes the index sets agree, so its callers see the record.     *)
LEMMA ViewIs ==
  ExactInv => \A s \in Session : View(s) = IF Undisturbed(s) THEN RecordView(s) ELSE "loose"
<1> SUFFICES ASSUME ExactInv, NEW s \in Session, Undisturbed(s), ~Busy(s)
             PROVE  ListedRight(s)
  BY DEF View
<1>1. Life(s) /\ StatusListed(s) /\ AttrsListed(s)
  BY DEF ExactInv, ExactFor
<1>2. hash[s].fields \in {"none", "some", "all"}
  BY DEF ExactInv, LostInv, TypeOK, Hashes
<1>3. CASE hash[s].fields = "all"
  <2>1. Listings(s) = {hash[s].status} \cap Indexed
    BY <1>1, <1>3 DEF Listings, StatusListed
  <2>2. Attributes(s) = {"os", "mode"}
    BY <1>1, <1>3 DEF Attributes, AttrsListed
  <2> QED BY <1>3, <2>1, <2>2 DEF ListedRight
<1>4. CASE hash[s].fields = "some"
  <2>1. Listings(s) \subseteq {hash[s].status}
    BY <1>1, <1>4 DEF Listings, StatusListed
  <2>2. Attributes(s) = {}
    BY <1>1, <1>4 DEF Attributes, AttrsListed
  <2> QED BY <1>4, <2>1, <2>2 DEF ListedRight
<1>5. CASE hash[s].fields = "none"
  <2>1. Listings(s) = {}
    BY <1>1, <1>5 DEF Listings, StatusListed, Life, Indexed, Status
  <2>2. Attributes(s) = {}
    BY <1>1, <1>5 DEF Attributes, AttrsListed
  <2> QED BY <1>5, <2>1, <2>2 DEF ListedRight
<1> QED BY <1>2, <1>3, <1>4, <1>5

(* ... and so after a step.                                                 *)
LEMMA ViewWillBe ==
  (ExactInv => \A s \in Session : View(s) = IF Undisturbed(s) THEN RecordView(s) ELSE "loose")'
BY ViewIs, PTL

(* A step that leaves a session's record as it is and marks nothing its     *)
(* callers could tell.                                                      *)
Unseen(s) ==
    /\ hash'[s].fields = hash[s].fields
    /\ hash'[s].status = hash[s].status
    /\ hist'[s] \ {"issued", "known", "settled"} = hist[s] \ {"issued", "known", "settled"}

LEMMA UnseenKeepsView ==
  ASSUME ExactInv, ExactInv', NEW s \in Session, Unseen(s)
  PROVE  View(s)' = View(s)
<1>1. Undisturbed(s)' <=> Undisturbed(s)
  BY DEF Unseen, Undisturbed
<1>2. Marked(s, "deleted")' <=> Marked(s, "deleted")
  BY DEF Unseen, Marked
<1>3. RecordView(s)' = RecordView(s)
  BY <1>2 DEF Unseen, RecordView
<1> QED BY <1>1, <1>3, ViewIs, ViewWillBe

(* One call of the atomic registry: the session changes its value, the      *)
(* others keep theirs.                                                      *)
LEMMA OneBecomes ==
  ASSUME ExactInv, ExactInv', NEW s \in Session, \A t \in Session \ {s} : Unseen(t)
  PROVE  Atomic!Becomes(s, View(s)')
<1>1. \A t \in Session \ {s} : View(t)' = View(t)
  BY UnseenKeepsView
<1>2. [t \in Session |-> View(t)]' = [[t \in Session |-> View(t)] EXCEPT ![s] = View(s)']
  BY <1>1
<1> QED BY <1>2 DEF Atomic!Becomes

(* Nothing the callers could tell, for all sessions: a stutter.             *)
LEMMA AllUnseen ==
  ASSUME ExactInv, ExactInv', \A s \in Session : Unseen(s)
  PROVE  [t \in Session |-> View(t)]' = [t \in Session |-> View(t)]
BY UnseenKeepsView

(* Sessions that a step marks as disturbed become loose.                    *)
LEMMA Disturbs ==
  ASSUME ExactInv, ExactInv', NEW S \in SUBSET Session,
         \A s \in Session \ S : Unseen(s), \A s \in S : ~Undisturbed(s)'
  PROVE  Atomic!Disturb(S)
<1>1. \A s \in Session \ S : View(s)' = View(s)
  BY UnseenKeepsView
<1>2. \A s \in S : View(s)' = "loose"
  BY ViewWillBe
<1>3. [s \in Session |-> View(s)]' = [s \in Session |-> IF s \in S THEN "loose"
                                                   ELSE [t \in Session |-> View(t)][s]]
  BY <1>1, <1>2
<1> QED BY <1>3 DEF Atomic!Disturb

(* What the callers see of the registry: the value AtomicRegistry keeps.    *)
Seen == [s \in Session |-> View(s)]

(* The commands of a call: the HSET of register or of update_status is      *)
(* where it takes effect, the others follow it unseen.                      *)
LEMMA CommandRefines ==
  ASSUME ExactInv, ExactInv', NEW h \in Handler, Step(h),
         NEW t \in Session, op[h].sid = t
  PROVE  Atomic!Next \/ Seen' = Seen
<1>1. TypeOK /\ OpWellFormed /\ NoRebirth /\ \A s \in Session : ExactFor(s)
  BY DEF ExactInv, LostInv
<1>2. ASSUME NEW s \in Session, s # t PROVE Unseen(s)
  <2>1. SameFor(s)
    BY <1>1, <1>2, OthersSame
  <2> QED BY <2>1 DEF SameFor, Unseen
<1>3. ExactFor(t)
  BY <1>1
<1>4. CASE CreateHash(h) \/ HsetStatus(h)
  <2>1. hist' = hist
    BY <1>4 DEF CreateHash, HsetStatus
  <2>2. Undisturbed(t)' <=> Undisturbed(t)
    BY <2>1 DEF Undisturbed
  <2>3. CASE ~Undisturbed(t)
    <3>1. View(t)' = View(t)
      BY <2>2, <2>3, ViewIs, ViewWillBe
    <3>2. \A s \in Session : View(s)' = View(s)
      BY <1>2, <3>1, UnseenKeepsView
    <3> QED BY <3>2 DEF Seen
  <2>4. CASE Undisturbed(t)
    <3>1. View(t) = RecordView(t) /\ View(t)' = RecordView(t)'
      BY <2>2, <2>4, ViewIs, ViewWillBe
    <3>2. Atomic!Becomes(t, View(t)')
      BY <1>2, OneBecomes
    <3>3. Life(t) /\ CallExact(h, t)
      BY <1>3, <2>4 DEF ExactFor
    <3>4. CASE CreateHash(h)
      <4>1. View(t) = "new"
        BY <3>1, <3>3, <3>4 DEF CreateHash, CallExact, Life, RecordView
      <4>2. View(t)' = "active"
        BY <1>1, <3>1, <3>4 DEF CreateHash, RecordView, TypeOK, OpWellFormed
      <4>3. Atomic!Register(t)
        BY <3>2, <4>1, <4>2 DEF Atomic!Register
      <4> QED BY <4>3 DEF Atomic!Next
    <3>5. CASE HsetStatus(h)
      <4>1. PICK new \in Targets : op[h].new = new
        BY <3>3, <3>5 DEF HsetStatus, CallExact
      <4>2. /\ hash'[t].status = new
            /\ hash'[t].fields = IF hash[t].fields = "none" THEN "some" ELSE hash[t].fields
        BY <1>1, <3>5, <4>1 DEF HsetStatus, TypeOK, Hashes
      <4>3. Marked(t, "known")
        BY <1>1, <3>5 DEF HsetStatus, NoRebirth, UpdatePCs
      <4>4. hash[t] \in Hashes
        BY <1>1 DEF TypeOK
      <4>5. CASE hash[t].fields = "all"
        <5>1. View(t)' = new
          BY <3>1, <4>2, <4>5 DEF RecordView
        <5>2. View(t) \in Status
          <6>1. View(t) = hash[t].status
            BY <3>1, <4>5 DEF RecordView
          <6> QED BY <3>3, <4>5, <6>1 DEF Life
        <5>3. Atomic!UpdateStatus(t, new)
          BY <3>2, <5>1, <5>2 DEF Atomic!UpdateStatus
        <5> QED BY <4>1, <5>3 DEF Atomic!Next
      <4>6. CASE hash[t].fields # "all"
        <5>1. View(t)' = "partial"
          BY <3>1, <4>2, <4>4, <4>6 DEF RecordView, Hashes
        <5>2. View(t) \in {"gone", "partial"}
          BY <3>1, <3>3, <4>3, <4>4, <4>6 DEF RecordView, Life, Hashes
        <5>3. Atomic!UpdateStatus(t, new)
          BY <3>2, <5>1, <5>2 DEF Atomic!UpdateStatus
        <5> QED BY <4>1, <5>3 DEF Atomic!Next
      <4> QED BY <4>5, <4>6
    <3> QED BY <1>4, <3>4, <3>5
  <2> QED BY <2>3, <2>4
<1>5. CASE ~CreateHash(h) /\ ~HsetStatus(h)
  <2>1. hash'[t].fields = hash[t].fields /\ hash'[t].status = hash[t].status
    BY <1>1, <1>5 DEF Step, TypeOK, Hashes, AddToStatusIndex, AddToOsIndex,
       AddToModeIndex, SremOldStatus, SaddNewStatus, ClearTtl, SremFromStatusSet,
       SremFromOsIndex, SremFromModeIndex
  <2>2. hist'[t] \in {hist[t], hist[t] \cup {"known"}, hist[t] \cup {"settled"}}
    BY <1>1, <1>5 DEF Step, TypeOK, Mark, AddToStatusIndex, AddToOsIndex,
       AddToModeIndex, SremOldStatus, SaddNewStatus, ClearTtl, SremFromStatusSet,
       SremFromOsIndex, SremFromModeIndex
  <2>3. Unseen(t)
    BY <2>1, <2>2 DEF Unseen
  <2> QED BY <1>2, <2>3, AllUnseen DEF Seen
<1> QED BY <1>4, <1>5

(* A call that starts is seen when it overlaps another, and a delete is,    *)
(* which takes effect with its first command.                               *)
LEMMA StartRefines ==
  ASSUME ExactInv, ExactInv', NEW h \in Handler, NEW s \in Session,
         \/ Register(h, s) \/ DeleteSession(h, s)
         \/ \E new \in Targets : UpdateStatus(h, s, new)
  PROVE  Atomic!Next \/ Seen' = Seen
<1>1. TypeOK /\ OpWellFormed /\ ExactFor(s)
  BY DEF ExactInv, LostInv
<1>2. ASSUME NEW t \in Session, t # s PROVE Unseen(t)
  <2>1. SameFor(t)
    BY <1>1, <1>2, OthersSameAtStart
  <2> QED BY <2>1 DEF SameFor, Unseen
<1>3. \E ms \in {{"issued"}, {"deleted"}, {}} :
         hist'[s] = hist[s] \cup ms \cup (IF Busy(s) THEN {"raced"} ELSE {})
  BY <1>1 DEF TypeOK, Register, DeleteSession, UpdateStatus, Started, Mark
<1>4. CASE Busy(s) \/ ~Undisturbed(s)
  <2>1. ~Undisturbed(s)'
    BY <1>3, <1>4 DEF Undisturbed
  <2>2. Atomic!Disturb({s})
    BY <1>2, <2>1, Disturbs
  <2> QED BY <2>2 DEF Atomic!Next
<1>5. CASE Undisturbed(s) /\ ~Busy(s) /\ ~DeleteSession(h, s)
  <2>1. hash' = hash
    BY <1>5 DEF Register, UpdateStatus
  <2>2. hist'[s] \in {hist[s], hist[s] \cup {"issued"}}
    BY <1>1, <1>5 DEF TypeOK, Register, UpdateStatus, Started, Mark
  <2>3. Unseen(s)
    BY <2>1, <2>2 DEF Unseen
  <2> QED BY <1>2, <2>3, AllUnseen DEF Seen
<1>6. CASE Undisturbed(s) /\ ~Busy(s) /\ DeleteSession(h, s)
  <2>1. hash'[s] = Absent /\ Marked(s, "known") /\ hist'[s] = hist[s] \cup {"deleted"}
    BY <1>1, <1>6 DEF TypeOK, DeleteSession, Started, Mark
  <2>2. View(s) = RecordView(s) /\ Life(s) /\ hash[s] \in Hashes
    BY <1>1, <1>6, ViewIs DEF ExactFor, TypeOK
  <2>3. View(s) \notin {"new", "loose"}
    BY <2>1, <2>2 DEF RecordView, Life, Hashes, Status
  <2>4. Undisturbed(s)' /\ Marked(s, "deleted")'
    BY <1>6, <2>1 DEF Undisturbed, Marked
  <2>5. View(s)' = RecordView(s)'
    BY <2>4, ViewWillBe
  <2>6. View(s)' = "gone"
    BY <2>1, <2>4, <2>5 DEF RecordView, Absent
  <2>7. Atomic!DeleteSession(s)
    BY <1>2, <2>3, <2>6, OneBecomes DEF Atomic!DeleteSession
  <2> QED BY <2>7 DEF Atomic!Next
<1> QED BY <1>4, <1>5, <1>6

(* Every step of the registry is a step of AtomicRegistry or is not seen.   *)
LEMMA StepRefines ==
  ASSUME ExactInv, ExactInv', [Next]_vars
  PROVE  Atomic!Next \/ Seen' = Seen
<1>1. TypeOK /\ OpWellFormed /\ BootAlone /\ \A s \in Session : ExactFor(s)
  BY DEF ExactInv, LostInv
<1>2. ASSUME NEW h \in Handler, Step(h)
      PROVE  Atomic!Next \/ Seen' = Seen
  <2>1. op[h].sid \in Session
    BY <1>1, <1>2 DEF Step, OpWellFormed, CreateHash, AddToStatusIndex, AddToOsIndex,
       AddToModeIndex, SremOldStatus, HsetStatus, SaddNewStatus, ClearTtl,
       SremFromStatusSet, SremFromOsIndex, SremFromModeIndex
  <2> QED BY <1>2, <2>1, CommandRefines
<1>3. ASSUME NEW h \in Handler, CommandFails(h)
      PROVE  Atomic!Next
  <2>1. PICK t \in Session : op[h].sid = t
    BY <1>1, <1>3 DEF CommandFails, OpWellFormed
  <2>2. ASSUME NEW s \in Session, s # t PROVE Unseen(s)
    <3>1. SameFor(s)
      BY <1>1, <1>3, <2>1, <2>2, OthersSame
    <3> QED BY <3>1 DEF SameFor, Unseen
  <2>3. ~Undisturbed(t)'
    BY <1>1, <1>3, <2>1 DEF CommandFails, Mark, Undisturbed, TypeOK
  <2>4. Atomic!Disturb({t})
    BY <2>2, <2>3, Disturbs
  <2> QED BY <2>4 DEF Atomic!Next
<1>4. ASSUME NEW h \in Handler, NEW s \in Session,
             \/ Register(h, s) \/ DeleteSession(h, s)
             \/ \E new \in Targets : UpdateStatus(h, s, new)
      PROVE  Atomic!Next \/ Seen' = Seen
  BY <1>4, StartRefines
<1>5. ASSUME NEW s \in Session, UpdateFields(s)
      PROVE  Atomic!Next \/ Seen' = Seen
  <2>1. /\ hash[s].fields = "none" /\ hash'[s].fields = "some"
        /\ Marked(s, "known") /\ hist' = hist
        /\ \A t \in Session \ {s} : hash'[t] = hash[t]
    BY <1>1, <1>5 DEF UpdateFields, TypeOK, Hashes
  <2>2. \A t \in Session \ {s} : Unseen(t)
    BY <2>1 DEF Unseen
  <2>3. Undisturbed(s)' <=> Undisturbed(s)
    BY <2>1 DEF Undisturbed
  <2>4. CASE ~Undisturbed(s)
    <3>1. View(s)' = View(s)
      BY <2>3, <2>4, ViewIs, ViewWillBe
    <3>2. \A t \in Session : View(t)' = View(t)
      BY <2>2, <3>1, UnseenKeepsView
    <3> QED BY <3>2 DEF Seen
  <2>5. CASE Undisturbed(s)
    <3>1. View(s) = RecordView(s) /\ View(s)' = RecordView(s)' /\ Life(s)
      BY <1>1, <2>3, <2>5, ViewIs, ViewWillBe DEF ExactFor
    <3>2. View(s) = "gone"
      BY <2>1, <3>1 DEF RecordView, Life
    <3>3. View(s)' = "partial"
      BY <2>1, <3>1 DEF RecordView
    <3>4. Atomic!UpdateFields(s)
      BY <2>2, <3>2, <3>3, OneBecomes DEF Atomic!UpdateFields
    <3> QED BY <3>4 DEF Atomic!Next
  <2> QED BY <2>4, <2>5
<1>6. ASSUME NEW s \in Session, Expire(s)
      PROVE  Atomic!Next
  <2>1. \A t \in Session \ {s} : Unseen(t)
    BY <1>1, <1>6 DEF Expire, Mark, Unseen, TypeOK
  <2>2. ~Undisturbed(s)'
    BY <1>1, <1>6 DEF Expire, Mark, Undisturbed, TypeOK
  <2>3. Atomic!Disturb({s})
    BY <2>1, <2>2, Disturbs
  <2> QED BY <2>3 DEF Atomic!Next
<1>7. ASSUME NEW s \in Session, RemoveFromActiveSet(s)
      PROVE  Atomic!Next \/ Seen' = Seen
  <2>1. \A t \in Session \ {s} : Unseen(t)
    BY <1>1, <1>7 DEF RemoveFromActiveSet, Mark, Unseen, TypeOK
  <2>2. CASE hash[s].fields = "all"
    <3>1. ~Undisturbed(s)'
      BY <1>1, <1>7, <2>2 DEF RemoveFromActiveSet, Mark, Undisturbed, TypeOK
    <3>2. Atomic!Disturb({s})
      BY <2>1, <3>1, Disturbs
    <3> QED BY <3>2 DEF Atomic!Next
  <2>3. CASE hash[s].fields # "all"
    <3>1. Unseen(s)
      BY <1>7, <2>3 DEF RemoveFromActiveSet, Unseen
    <3> QED BY <2>1, <3>1, AllUnseen DEF Seen
  <2> QED BY <2>2, <2>3
<1>8. ASSUME Crash
      PROVE  Atomic!Next
  <2> DEFINE S == {s \in Session : Busy(s)}
  <2>1. PICK D \in SUBSET Session : \A s \in Session : s \in D <=> Busy(s)
    <3>1. S \in SUBSET Session /\ \A s \in Session : s \in S <=> Busy(s)
      OBVIOUS
    <3> QED BY <3>1
  <2>2. \A s \in Session \ D : Unseen(s)
    BY <1>8, <2>1 DEF Crash, Unseen
  <2>3. \A s \in D : ~Undisturbed(s)'
    BY <1>8, <2>1 DEF Crash, Undisturbed
  <2>4. Atomic!Disturb(D)
    BY <2>2, <2>3, Disturbs
  <2> QED BY <2>4 DEF Atomic!Next
<1>9. CASE CleanupStaleIndexEntries \/ StartServing \/ UNCHANGED vars
  <2>1. \A s \in Session : Unseen(s)
    BY <1>9 DEF CleanupStaleIndexEntries, StartServing, vars, Unseen
  <2> QED BY <2>1, AllUnseen DEF Seen
<1> QED BY <1>2, <1>3, <1>4, <1>5, <1>6, <1>7, <1>8, <1>9 DEF Next

(* Sessions of an earlier version are seen with their status, all others as *)
(* new.                                                                     *)
LEMMA InitRefines == Init => Atomic!Init
<1> SUFFICES ASSUME Init PROVE Atomic!Init
  OBVIOUS
<1>1. ASSUME NEW s \in Session PROVE View(s) \in {"new"} \cup Targets
  <2>1. hash[s] = Absent \/ (hash[s].fields = "all" /\ hash[s].status \in Targets)
    BY DEF Init
  <2>2. Undisturbed(s) /\ ~Marked(s, "deleted")
    BY DEF Init, Undisturbed, Marked
  <2>3. View(s) = RecordView(s)
    BY <2>2, ExactInit, ViewIs
  <2> QED BY <2>1, <2>2, <2>3 DEF RecordView, Absent
<1> QED BY <1>1 DEF Atomic!Init

(* The single Redis commands of register, update_status, delete_session and *)
(* the start-up clean-up look to their callers like calls that happen at    *)
(* once, record and index sets together, on every session whose calls never *)
(* overlapped and were not cut short: what SessionLifecycle takes a         *)
(* registry call for.                                                       *)
THEOREM RegistryIsAtomic == Spec => ImplementsAtomicRegistry
<1>1. ExactInv /\ ExactInv' /\ [Next]_vars => [Atomic!Next]_[s \in Session |-> View(s)]
  BY StepRefines DEF Seen
<1> QED BY <1>1, ExactInit, ExactNext, InitRefines, PTL
        DEF Spec, ImplementsAtomicRegistry, Atomic!Spec
=============================================================================
