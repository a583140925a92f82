--------------------------- MODULE CalFlash_proofs ---------------------------
(***************************************************************************)
(* For any IMUs and biases: a boot never loads a mixture, an acknowledged  *)
(* commit is durable, and the flash driver implements CalStore.            *)
(***************************************************************************)
EXTENDS CalFlash, TLAPS

USE DEF Word, Content

\* Nothing loads from an erased sector.
LEMMA LoadBlank == cal_load(Blank) = None
  BY ErasedAssumption DEF cal_load, Blank

\* What loads from a partly erased sector is what loaded before, or nothing.
LEMMA LoadPartErased ==
  ASSUME NEW f \in [Word -> Content], NEW g \in PartErased(f)
  PROVE  /\ g \in [Word -> Content]
         /\ cal_load(g) \in {cal_load(f), None}
<1>1. /\ g \in [Word -> Content]
      /\ \A w \in Word : g[w] \in {f[w], Erased, Garbage}
  BY DEF PartErased
<1>2. \A w \in Word : g[w] \in Cal => g[w] = f[w]
  BY <1>1, ErasedAssumption
<1> QED
  BY <1>1, <1>2 DEF cal_load

\* A load is a calibration or nothing.
LEMMA LoadType ==
  ASSUME NEW f \in [Word -> Content]
  PROVE  cal_load(f) \in Cal \cup {None}
  BY DEF cal_load

\* While a save is at word k, the sector loads as nothing up to word 2 and as
\* the saved value from word 3 on.
LEMMA LoadWhileSaving ==
  ASSUME NEW f \in [Word -> Content], NEW b \in Cal, NEW k \in 0 .. 4,
         \A w \in Word : f[w] = IF w < k THEN b ELSE Erased
  PROVE  cal_load(f) = IF k >= 3 THEN b ELSE None
<1>1. CASE k >= 3
  <2>1. f[0] = b /\ f[1] = b /\ f[2] = b
    BY <1>1
  <2> QED
    BY <1>1, <2>1 DEF cal_load
<1>2. CASE k < 3
  <2>1. f[2] = Erased
    BY <1>2
  <2>2. f[2] \notin Cal
    BY <2>1, ErasedAssumption
  <2>3. ~(f[0] \in Cal /\ f[1] = f[0] /\ f[2] = f[0])
    BY <2>2
  <2> QED
    BY <1>2, <2>3 DEF cal_load
<1> QED
  BY <1>1, <1>2

\* What a word that fails or is cut off leaves: the sector loads as before, as
\* nothing, or as the saved value.
LEMMA LoadPartProgrammed ==
  ASSUME TypeOK, SaveInv, pc = "program", word \in Word,
         NEW g \in PartProgrammed(flash)
  PROVE  /\ g \in [Word -> Content]
         /\ \/ cal_load(g) \in {cal_load(flash), None}
            \/ cal_load(flash) = None /\ cal_load(g) = buf
<1>1. PICK x \in {flash[word], Garbage, Programmed(flash[word])} :
         g = [flash EXCEPT ![word] = x]
  BY DEF PartProgrammed
<1>2. /\ flash \in [Word -> Content] /\ buf \in Cal /\ word \in 0 .. 3
      /\ \A w \in Word : flash[w] = IF w < word THEN buf ELSE Erased
  BY DEF TypeOK, SaveInv
<1>3. flash[word] = Erased
  BY <1>2
<1>4. x \in {Erased, Garbage, buf}
  BY <1>1, <1>3 DEF Programmed
<1>5. g \in [Word -> Content] /\ x \in Content
  BY <1>1, <1>2, <1>4
<1>6. cal_load(flash) = IF word >= 3 THEN buf ELSE None
  BY <1>2, LoadWhileSaving
<1>7. \A w \in Word : w # word => g[w] = flash[w]
  BY <1>1, <1>2
<1>8. CASE word = 3
  <2>1. g[0] = flash[0] /\ g[1] = flash[1] /\ g[2] = flash[2]
    BY <1>7, <1>8
  <2> QED
    BY <1>5, <2>1 DEF cal_load
<1>9. CASE word < 3
  <2>1. g[0] \in {buf, Erased, Garbage}
    BY <1>1, <1>2, <1>4, <1>7
  <2>2. cal_load(g) \in {buf, None}
    BY <2>1, ErasedAssumption DEF cal_load
  <2> QED
    BY <1>5, <1>6, <1>9, <2>2
<1> QED
  BY <1>2, <1>8, <1>9

IInv == TypeOK /\ SaveInv /\ LoadsWhole /\ AckedIsDurable /\ RunningIsStored

\* At the first start nothing is written, acknowledged or loaded yet.
LEMMA InitInv == Init => IInv
<1> SUFFICES ASSUME Init PROVE IInv
  OBVIOUS
<1>1. cal_load(flash) = None
  BY LoadBlank DEF Init
<1>2. Zeros \in Cal
  BY BiasAssumption DEF Zeros, Cal
<1>b. Blank \in [Word -> Content]
  BY DEF Blank
<1>c. word \in 0 .. 4 /\ committed \subseteq Cal /\ acked \subseteq Cal
  BY DEF Init
<1>3. TypeOK
  BY <1>2, <1>b, <1>c, Zenon DEF Init, TypeOK
<1> QED
  BY <1>1, <1>3 DEF Init, IInv, SaveInv, LoadsWhole, AckedIsDurable, RunningIsStored, Idle

\* The conjuncts each kind of step can disturb, action by action.
LEMMA NextInv == IInv /\ [Next]_vars => IInv'
<1> SUFFICES ASSUME IInv, [Next]_vars PROVE IInv'
  OBVIOUS
<1> USE DEF IInv
<1>z. Zeros \in Cal
  BY BiasAssumption DEF Zeros, Cal
<1>l. cal_load(flash) \in Cal \cup {None} /\ None \notin Cal
  BY LoadType, NoneAssumption DEF TypeOK
<1>1. CASE UNCHANGED vars
  BY <1>1 DEF vars, ram, hist, TypeOK, SaveInv, LoadsWhole, AckedIsDurable,
     RunningIsStored, Idle, cal_load
<1>2. ASSUME NEW i \in IMU, NEW b \in Bias, CalSet(i, b) PROVE IInv'
  <2>1. TypeOK'
    BY <1>2 DEF CalSet, hist, TypeOK, Cal
  <2> QED
    BY <1>2, <2>1 DEF CalSet, hist, SaveInv, LoadsWhole, AckedIsDurable,
       RunningIsStored, Idle, cal_load
<1>3. CASE CalCommit
  <2>1. TypeOK'
    BY <1>3 DEF CalCommit, ram, TypeOK
  <2> QED
    BY <1>3, <2>1 DEF CalCommit, ram, SaveInv, LoadsWhole, AckedIsDurable,
       RunningIsStored, Idle, cal_load
<1>4. CASE CalClear
  <2>1. TypeOK'
    BY <1>4 DEF CalClear, ram, TypeOK
  <2> QED
    BY <1>4, <2>1 DEF CalClear, ram, SaveInv, LoadsWhole, AckedIsDurable,
       RunningIsStored, Idle, cal_load
<1>5. CASE CommitDone
  <2>1. TypeOK'
    BY <1>5 DEF CommitDone, TypeOK
  <2>2. cal_load(flash) = buf /\ buf = s_cal_stage
    <3>1. /\ flash \in [Word -> Content] /\ buf \in Cal /\ word = 4
          /\ \A w \in Word : flash[w] = IF w < word THEN buf ELSE Erased
      BY <1>5 DEF CommitDone, TypeOK, SaveInv
    <3>2. cal_load(flash) = IF word >= 3 THEN buf ELSE None
      BY <3>1, LoadWhileSaving
    <3> QED
      BY <1>5, <3>1, <3>2 DEF CommitDone, SaveInv
  <2>3. cal_load(flash') = s_cal_stage /\ s_cal_stage # None
    BY <1>5, <1>l, <2>2 DEF CommitDone, TypeOK
  <2> QED
    BY <1>5, <2>1, <2>3 DEF CommitDone, SaveInv, LoadsWhole, AckedIsDurable,
       RunningIsStored, Idle
<1>6. ASSUME NEW ok \in BOOLEAN, EraseSave(ok) PROVE IInv'
  <2>1. CASE ok
    <3>1. TypeOK'
      BY <1>6, <2>1 DEF EraseSave, ram, TypeOK, Blank
    <3>2. cal_load(flash') = None
      BY <1>6, <2>1, LoadBlank DEF EraseSave
    <3>3. SaveInv'
      BY <1>6, <2>1 DEF EraseSave, ram, SaveInv, Idle, Blank
    <3> QED
      BY <1>6, <2>1, <3>1, <3>2, <3>3 DEF EraseSave, ram, LoadsWhole, SaveInv,
         AckedIsDurable, RunningIsStored, Idle
  <2>2. CASE ~ok
    <3>1. flash' \in [Word -> Content] /\ cal_load(flash') \in {cal_load(flash), None}
      BY <1>6, <2>2, LoadPartErased DEF EraseSave, TypeOK
    <3>2. TypeOK'
      BY <1>6, <2>2, <3>1 DEF EraseSave, ram, TypeOK
    <3> QED
      BY <1>6, <2>2, <3>1, <3>2 DEF EraseSave, ram, LoadsWhole, SaveInv,
         AckedIsDurable, RunningIsStored, Idle
  <2> QED
    BY <2>1, <2>2
<1>7. ASSUME NEW ok \in BOOLEAN, ProgramWord(ok) PROVE IInv'
  <2>0. pc = "program" /\ word \in Word
    BY <1>7 DEF ProgramWord
  <2>1. CASE ok
    <3>1. flash' = [flash EXCEPT ![word] = Programmed(flash[word])] /\ word' = word + 1
          /\ UNCHANGED <<pc, reply, failed, ram, buf, committed, acked>>
      BY <1>7, <2>1 DEF ProgramWord
    <3>2. Programmed(flash[word]) = buf
      BY <2>0 DEF Programmed, SaveInv
    <3>3. TypeOK'
      BY <2>0, <3>1, <3>2 DEF ram, TypeOK
    <3>4. \A w \in Word : flash'[w] = IF w < word' THEN buf' ELSE Erased
      BY <2>0, <3>1, <3>2 DEF TypeOK, SaveInv
    <3>5. SaveInv'
      BY <2>0, <3>1, <3>4 DEF ram, SaveInv, Idle
    <3>6. cal_load(flash') = IF word' >= 3 THEN buf' ELSE None
      BY <3>3, <3>4, LoadWhileSaving DEF TypeOK
    <3>7. LoadsWhole'
      BY <2>0, <3>1, <3>6 DEF SaveInv, LoadsWhole
    <3> QED
      BY <2>0, <3>1, <3>3, <3>5, <3>7 DEF SaveInv, AckedIsDurable, RunningIsStored, Idle
  <2>2. CASE ~ok
    <3>1. /\ flash' \in [Word -> Content]
          /\ \/ cal_load(flash') \in {cal_load(flash), None}
             \/ cal_load(flash) = None /\ cal_load(flash') = buf
      BY <1>7, <2>0, <2>2, LoadPartProgrammed DEF ProgramWord
    <3>2. TypeOK'
      BY <1>7, <2>2, <3>1 DEF ProgramWord, ram, TypeOK
    <3> QED
      BY <1>7, <2>0, <2>2, <3>1, <3>2 DEF ProgramWord, ram, LoadsWhole, SaveInv,
         AckedIsDurable, RunningIsStored, Idle
  <2> QED
    BY <2>1, <2>2
<1>8. ASSUME NEW ok \in BOOLEAN, EraseClear(ok) PROVE IInv'
  <2>1. /\ flash' \in [Word -> Content]
        /\ cal_load(flash') \in {cal_load(flash), None}
        /\ ok => cal_load(flash') = None
    <3>1. CASE ok
      BY <1>8, <3>1, LoadBlank DEF EraseClear, Blank
    <3>2. CASE ~ok
      BY <1>8, <3>2, LoadPartErased DEF EraseClear, TypeOK
    <3> QED
      BY <3>1, <3>2
  <2>2. TypeOK'
    BY <1>8, <1>z, <2>1 DEF EraseClear, TypeOK
  <2> QED
    BY <1>8, <2>1, <2>2 DEF EraseClear, LoadsWhole, SaveInv, AckedIsDurable,
       RunningIsStored, Idle
<1>9. CASE PowerCycle
  <2>1. /\ flash' \in [Word -> Content]
        /\ cal_load(flash') \in committed \cup {None}
        /\ Idle => flash' = flash
    <3>1. CASE pc \in {"erase_save", "erase_clear"}
      BY <1>9, <3>1, LoadPartErased DEF PowerCycle, CutFlash, TypeOK, Idle, LoadsWhole
    <3>2. CASE pc = "program" /\ word \in Word
      <4>1. flash' \in PartProgrammed(flash)
        BY <1>9, <3>2 DEF PowerCycle, CutFlash
      <4> QED
        BY <3>2, <4>1, LoadPartProgrammed DEF LoadsWhole, SaveInv, Idle
    <3>3. CASE ~(pc \in {"erase_save", "erase_clear"}) /\ ~(pc = "program" /\ word \in Word)
      BY <1>9, <3>3 DEF PowerCycle, CutFlash, TypeOK, LoadsWhole
    <3> QED
      BY <3>1, <3>2, <3>3
  <2>2. cal_load(flash') \in Cal \cup {None}
    BY <2>1, LoadType
  <2>g. g_cal_valid' \in BOOLEAN /\ g_cal' \in Cal
    BY <1>9, <1>z, <2>2, Zenon DEF PowerCycle
  <2>w. word' \in 0 .. 4
    BY <1>9 DEF PowerCycle
  <2>3. TypeOK'
    BY <1>9, <1>z, <2>1, <2>g, <2>w, Zenon DEF PowerCycle, TypeOK
  <2>4. AckedIsDurable'
    BY <1>9, <2>1 DEF PowerCycle, AckedIsDurable, SaveInv
  <2> QED
    BY <1>9, <2>1, <2>3, <2>4 DEF PowerCycle, LoadsWhole, SaveInv, RunningIsStored, Idle
<1> QED
  BY <1>1, <1>2, <1>3, <1>4, <1>5, <1>6, <1>7, <1>8, <1>9 DEF Next

(***************************************************************************)
(* Whatever fails and whenever power is cut: a boot never loads a mixture  *)
(* of calibrations (cal_load's CRC test after cal_save's erase and words). *)
(***************************************************************************)
THEOREM NoMixture == Spec => []LoadsWhole
<1>1. Spec => []IInv
  BY InitInv, NextInv, PTL DEF Spec
<1>2. IInv => LoadsWhole
  BY DEF IInv
<1> QED
  BY <1>1, <1>2, PTL

(***************************************************************************)
(* CAL,OK to a commit is durable: every boot until the next command loads  *)
(* the acknowledged calibration.                                           *)
(***************************************************************************)
THEOREM Durable == Spec => []AckedIsDurable
<1>1. Spec => []IInv
  BY InitInv, NextInv, PTL DEF Spec
<1>2. IInv => AckedIsDurable
  BY DEF IInv
<1> QED
  BY <1>1, <1>2, PTL

(***************************************************************************)
(* Without a flash error since boot, the biases in use are the stored ones.*)
(***************************************************************************)
THEOREM Consistent == Spec => []RunningIsStored
<1>1. Spec => []IInv
  BY InitInv, NextInv, PTL DEF Spec
<1>2. IInv => RunningIsStored
  BY DEF IInv
<1> QED
  BY <1>1, <1>2, PTL

\* The refinement mapping takes every step to a step of CalStore or a stutter.
LEMMA StepRefines == IInv /\ IInv' /\ [Next]_vars => [Store!Next]_<<storedBar, opBar>>
<1> SUFFICES ASSUME IInv, IInv', [Next]_vars
             PROVE  Store!Next \/ UNCHANGED <<storedBar, opBar>>
  OBVIOUS
<1> USE DEF IInv, storedBar, opBar, Idle
<1>l. None \notin Cal
  BY NoneAssumption
<1>1. CASE UNCHANGED vars
  BY <1>1 DEF vars, ram, hist, cal_load
<1>2. ASSUME NEW i \in IMU, NEW b \in Bias, CalSet(i, b) PROVE UNCHANGED <<storedBar, opBar>>
  BY <1>2 DEF CalSet, cal_load
<1>3. CASE CalCommit
  <2>1. opBar = {} /\ opBar' = {s_cal_stage} /\ UNCHANGED storedBar
    BY <1>3 DEF CalCommit, ram, cal_load
  <2> QED
    BY <2>1 DEF Store!Next, Store!Begin, TypeOK
<1>4. CASE CalClear
  <2>1. opBar = {} /\ opBar' = {None} /\ UNCHANGED storedBar
    BY <1>4 DEF CalClear, ram, cal_load
  <2> QED
    BY <2>1 DEF Store!Next, Store!Begin
<1>5. CASE CommitDone
  <2>1. opBar # {} /\ opBar' = {} /\ storedBar' = storedBar
    BY <1>5 DEF CommitDone, cal_load
  <2> QED
    BY <2>1 DEF Store!Next, Store!End
<1>6. ASSUME NEW ok \in BOOLEAN, EraseSave(ok) PROVE Store!Next
  <2>1. CASE ok
    <3>1. opBar # {} /\ opBar' = opBar
      BY <1>6, <2>1 DEF EraseSave, ram
    <3>2. storedBar' = None
      BY <1>6, <2>1, LoadBlank DEF EraseSave
    <3> QED
      BY <3>1, <3>2 DEF Store!Next, Store!Lose
  <2>2. CASE ~ok
    <3>1. opBar # {} /\ opBar' = {}
      BY <1>6, <2>2 DEF EraseSave
    <3>2. storedBar' \in {storedBar, None}
      BY <1>6, <2>2, LoadPartErased DEF EraseSave, TypeOK
    <3> QED
      BY <3>1, <3>2 DEF Store!Next, Store!End
  <2> QED
    BY <2>1, <2>2
<1>7. ASSUME NEW ok \in BOOLEAN, ProgramWord(ok)
      PROVE  Store!Next \/ UNCHANGED <<storedBar, opBar>>
  <2>0. /\ pc = "program" /\ word \in Word /\ buf = s_cal_stage /\ buf \in Cal
        /\ flash \in [Word -> Content] /\ opBar = {buf}
        /\ \A w \in Word : flash[w] = IF w < word THEN buf ELSE Erased
    BY <1>7 DEF ProgramWord, SaveInv, TypeOK
  <2>a. storedBar = IF word >= 3 THEN buf ELSE None
    BY <2>0, LoadWhileSaving
  <2>1. CASE ok
    <3>1. pc' = "program" /\ word' = word + 1 /\ buf' = buf /\ s_cal_stage' = s_cal_stage
      BY <1>7, <2>0, <2>1 DEF ProgramWord, ram
    <3>2. storedBar' = IF word' >= 3 THEN buf' ELSE None
      BY <3>1, LoadWhileSaving DEF SaveInv, TypeOK
    <3>3. opBar' = opBar
      BY <2>0, <3>1
    <3>4. CASE word = 2
      <4>1. storedBar = None /\ storedBar' = buf
        BY <2>a, <3>1, <3>2, <3>4
      <4> QED
        BY <2>0, <3>3, <4>1 DEF Store!Next, Store!Land
    <3>5. CASE word # 2
      BY <2>0, <2>a, <3>1, <3>2, <3>3, <3>5
    <3> QED
      BY <3>4, <3>5
  <2>2. CASE ~ok
    <3>1. opBar' = {}
      BY <1>7, <2>2 DEF ProgramWord
    <3>2. flash' \in PartProgrammed(flash)
      BY <1>7, <2>2 DEF ProgramWord
    <3>3. \/ storedBar' \in {storedBar, None}
          \/ storedBar = None /\ storedBar' = buf
      BY <2>0, <3>2, LoadPartProgrammed
    <3> QED
      BY <2>0, <3>1, <3>3 DEF Store!Next, Store!End
  <2> QED
    BY <2>1, <2>2
<1>8. ASSUME NEW ok \in BOOLEAN, EraseClear(ok) PROVE Store!Next
  <2>1. opBar # {} /\ opBar' = {}
    BY <1>8 DEF EraseClear
  <2>2. storedBar' \in {storedBar, None}
    <3>1. CASE ok
      BY <1>8, <3>1, LoadBlank DEF EraseClear
    <3>2. CASE ~ok
      BY <1>8, <3>2, LoadPartErased DEF EraseClear, TypeOK
    <3> QED
      BY <3>1, <3>2
  <2> QED
    BY <2>1, <2>2 DEF Store!Next, Store!End
<1>9. CASE PowerCycle
  <2>0. opBar' = {}
    BY <1>9 DEF PowerCycle
  <2>1. CASE pc \in {"erase_save", "erase_clear"}
    <3>1. storedBar' \in {storedBar, None} /\ opBar # {}
      BY <1>9, <2>1, LoadPartErased DEF PowerCycle, CutFlash, TypeOK
    <3> QED
      BY <2>0, <3>1 DEF Store!Next, Store!End
  <2>2. CASE pc = "program" /\ word \in Word
    <3>1. flash' \in PartProgrammed(flash)
      BY <1>9, <2>2 DEF PowerCycle, CutFlash
    <3>2. \/ storedBar' \in {storedBar, None}
          \/ storedBar = None /\ storedBar' = buf
      BY <2>2, <3>1, LoadPartProgrammed
    <3>3. opBar = {buf}
      BY <2>2 DEF SaveInv
    <3> QED
      BY <2>0, <3>2, <3>3 DEF Store!Next, Store!End
  <2>3. CASE pc = "idle" \/ (pc = "program" /\ word \notin Word)
    <3>1. flash' = flash
      BY <1>9, <2>3 DEF PowerCycle, CutFlash
    <3>2. storedBar' = storedBar
      BY <3>1
    <3>3. CASE pc = "idle"
      BY <2>0, <3>2, <3>3
    <3>4. CASE pc = "program"
      <4>1. opBar # {}
        BY <3>4
      <4> QED
        BY <2>0, <3>2, <4>1 DEF Store!Next, Store!End
    <3> QED
      BY <2>3, <3>3, <3>4
  <2> QED
    BY <2>1, <2>2, <2>3 DEF TypeOK
<1> QED
  BY <1>1, <1>2, <1>3, <1>4, <1>5, <1>6, <1>7, <1>8, <1>9 DEF Next

(***************************************************************************)
(* The flash driver and the CAL commands implement the abstract store,     *)
(* with flash errors and power cuts at any step.                           *)
(***************************************************************************)
THEOREM Refinement == Spec => StoreSpec
<1>1. Spec => []IInv
  BY InitInv, NextInv, PTL DEF Spec
<1>2. Init => Store!Init
  BY LoadBlank DEF Init, Store!Init, storedBar, opBar, Idle
<1> QED
  BY <1>1, <1>2, StepRefines, PTL DEF Spec, StoreSpec, Store!Spec
=============================================================================
