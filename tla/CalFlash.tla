------------------------------ MODULE CalFlash ------------------------------
(***************************************************************************)
(* The IMU calibration in flash (coms/CalFlash.cpp) and the CAL commands   *)
(* of USBCmdThread (threads.cpp), with flash errors and power cuts.        *)
(*                                                                         *)
(* USBCmdThread is the only caller of cal_save and cal_clear, so a step is *)
(* one flash operation (an erase or one 32-byte word).  Power may be cut   *)
(* before or inside any of them.  SPIThread loads the calibration at boot, *)
(* before USBCmdThread runs.  A flash word is named by the calibration it  *)
(* was programmed from; the CRC over words 0 to 2 is taken to have no      *)
(* collisions.                                                             *)
(***************************************************************************)
EXTENDS Naturals

CONSTANTS IMU,        \* the calibrated IMUs (0..2)
          Bias,       \* gyro and accelerometer bias vectors of an IMU
          Zero,       \* the zero biases
          None,       \* "no valid calibration"
          Erased, Garbage   \* contents of a flash word other than a calibration's

Cal  == [IMU -> Bias]
Word == 0 .. 3        \* sizeof(CalibData) / 32
Content == Cal \cup {Erased, Garbage}

ASSUME BiasAssumption == Zero \in Bias
ASSUME NoneAssumption == None \notin Content
ASSUME ErasedAssumption == Erased \notin Cal /\ Garbage \notin Cal

VARIABLES
  flash,              \* bank 2 sector 7, the four words of CalibData
  g_cal, g_cal_valid, \* what SPIThread subtracts
  s_cal_stage,        \* staged by CAL,set; zero after a reset
  pc,                 \* where USBCmdThread is in cal_save or cal_clear
  word,               \* the next of the four words cal_save programs
  buf,                \* the copy cal_save programs
  reply,              \* the last reply to commit or clear
  committed,          \* history: calibrations the host has committed
  acked,              \* history: {c} once CAL,OK has acknowledged c
  failed              \* history: a flash operation failed since boot

ram  == <<g_cal, g_cal_valid, s_cal_stage>>
hist == <<committed, acked, failed>>
vars == <<flash, ram, pc, word, buf, reply, hist>>

Zeros == [i \in IMU |-> Zero]
Blank == [w \in Word |-> Erased]

-----------------------------------------------------------------------------
\* Mutant: the CRC is not looked at; a half-programmed block is garbage.
cal_load_MagicOnly(f) ==
  IF f[0] \in Cal THEN (IF f[1] = f[0] /\ f[2] = f[0] THEN f[0] ELSE Garbage) ELSE None

\* Magic and version are in word 0, the CRC covers bytes 0 to 79 and is itself
\* in word 2; word 3 is padding that nothing reads.
cal_load(f) == IF f[0] \in Cal /\ f[1] = f[0] /\ f[2] = f[0] THEN f[0] ELSE None

\* What an erase that fails or is cut off can leave of each word.
PartErased(f) == {g \in [Word -> Content] : \A w \in Word : g[w] \in {f[w], Erased, Garbage}}

\* What programming makes of a word: only an erased one takes the data.
Programmed(x) == IF x = Erased THEN buf ELSE Garbage

\* What a program operation that fails or is cut off can leave.
PartProgrammed(f) ==
  { [f EXCEPT ![word] = x] : x \in {f[word], Garbage, Programmed(f[word])} }

Idle == pc = "idle"

\* CAL,set,<i>,...: one IMU of the stage.
CalSet(i, b) ==
  /\ Idle
  /\ s_cal_stage' = [s_cal_stage EXCEPT ![i] = b]
  /\ UNCHANGED <<flash, g_cal, g_cal_valid, pc, word, buf, reply, hist>>

\* Mutant: the running calibration is saved, not the staged one.
CalCommit_SavesRunning ==
  /\ Idle /\ pc' = "erase_save" /\ buf' = g_cal
  /\ committed' = committed \cup {s_cal_stage} /\ acked' = {} /\ reply' = "none"
  /\ UNCHANGED <<flash, ram, word, failed>>

\* CAL,commit enters cal_save: build the buffer, unlock, start the erase.
CalCommit ==
  /\ Idle
  /\ pc' = "erase_save"
  /\ buf' = s_cal_stage
  /\ committed' = committed \cup {s_cal_stage}
  /\ acked' = {}
  /\ reply' = "none"
  /\ UNCHANGED <<flash, ram, word, failed>>

\* CAL,clear enters cal_clear.
CalClear ==
  /\ Idle
  /\ pc' = "erase_clear"
  /\ acked' = {}
  /\ reply' = "none"
  /\ UNCHANGED <<flash, ram, word, buf, committed, failed>>

\* Mutant: a failed erase is not noticed.
EraseSave_Unchecked(ok) ==
  /\ pc = "erase_save"
  /\ IF ok THEN flash' = Blank ELSE flash' \in PartErased(flash)
  /\ pc' = "program" /\ word' = 0 /\ UNCHANGED <<ram, buf, reply, hist>>

\* b2_erase_sector7 inside cal_save: on an error nothing is programmed.
EraseSave(ok) ==
  /\ pc = "erase_save"
  /\ IF ok
     THEN /\ flash' = Blank
          /\ pc' = "program"
          /\ word' = 0
          /\ UNCHANGED <<reply, failed>>
     ELSE /\ flash' \in PartErased(flash)
          /\ pc' = "idle"
          /\ reply' = "commit_failed"
          /\ failed' = TRUE
          /\ word' = 0
  /\ UNCHANGED <<ram, buf, committed, acked>>

\* b2_program_word: a failed word ends the loop and the save.
ProgramWord(ok) ==
  /\ pc = "program"
  /\ word \in Word
  /\ IF ok
     THEN /\ flash' = [flash EXCEPT ![word] = Programmed(flash[word])]
          /\ word' = word + 1
          /\ UNCHANGED <<pc, reply, failed>>
     ELSE /\ flash' \in PartProgrammed(flash)
          /\ pc' = "idle"
          /\ reply' = "commit_failed"
          /\ failed' = TRUE
          /\ word' = 0
  /\ UNCHANGED <<ram, buf, committed, acked>>

\* The save succeeded: the running calibration changes and CAL,OK is sent.
CommitDone ==
  /\ pc = "program"
  /\ word = 4
  /\ g_cal' = s_cal_stage
  /\ g_cal_valid' = TRUE
  /\ pc' = "idle"
  /\ reply' = "commit_ok"
  /\ acked' = {s_cal_stage}
  /\ word' = 0
  /\ UNCHANGED <<flash, s_cal_stage, buf, committed, failed>>

\* Mutant: the running calibration is left in place.
EraseClear_KeepsRunning(ok) ==
  /\ pc = "erase_clear"
  /\ IF ok THEN flash' = Blank ELSE flash' \in PartErased(flash)
  /\ failed' = (failed \/ ~ok) /\ pc' = "idle" /\ reply' = "clear_ok"
  /\ UNCHANGED <<ram, word, buf, committed, acked>>

\* cal_clear: the result of the erase is dropped and CAL,OK is sent anyway.
EraseClear(ok) ==
  /\ pc = "erase_clear"
  /\ IF ok THEN flash' = Blank ELSE flash' \in PartErased(flash)
  /\ failed' = (failed \/ ~ok)
  /\ g_cal' = Zeros
  /\ g_cal_valid' = FALSE
  /\ pc' = "idle"
  /\ reply' = "clear_ok"
  /\ UNCHANGED <<s_cal_stage, word, buf, committed, acked>>

\* What a power cut leaves: the operation under way is cut short.
CutFlash ==
  IF pc \in {"erase_save", "erase_clear"} THEN PartErased(flash)
  ELSE IF pc = "program" /\ word \in Word THEN PartProgrammed(flash)
  ELSE {flash}

\* A power cut and the next boot: SPIThread loads, the stage is zero again.
PowerCycle ==
  /\ flash' \in CutFlash
  /\ g_cal_valid' = (cal_load(flash') # None)
  /\ g_cal' = IF g_cal_valid' THEN cal_load(flash') ELSE Zeros
  /\ s_cal_stage' = Zeros
  /\ pc' = "idle"
  /\ word' = 0
  /\ buf' = Zeros
  /\ reply' = "none"
  /\ failed' = FALSE
  /\ UNCHANGED <<committed, acked>>

\* A board whose sector has never been programmed, just booted.
Init ==
  /\ flash = Blank
  /\ g_cal = Zeros /\ g_cal_valid = FALSE /\ s_cal_stage = Zeros
  /\ pc = "idle" /\ word = 0 /\ buf = Zeros /\ reply = "none"
  /\ committed = {} /\ acked = {} /\ failed = FALSE

Next ==
  \/ \E i \in IMU, b \in Bias : CalSet(i, b)
  \/ CalCommit \/ CalClear \/ CommitDone
  \/ \E ok \in BOOLEAN : EraseSave(ok) \/ ProgramWord(ok) \/ EraseClear(ok)
  \/ PowerCycle

Spec == Init /\ [][Next]_vars

-----------------------------------------------------------------------------
TypeOK ==
  /\ flash \in [Word -> Content]
  /\ g_cal \in Cal /\ g_cal_valid \in BOOLEAN /\ s_cal_stage \in Cal
  /\ pc \in {"idle", "erase_save", "erase_clear", "program"}
  /\ word \in 0 .. 4 /\ buf \in Cal
  /\ reply \in {"none", "commit_ok", "commit_failed", "clear_ok"}
  /\ committed \subseteq Cal /\ failed \in BOOLEAN
  /\ acked \subseteq Cal

(***************************************************************************)
(* Whatever fails and whenever power is cut, a boot loads nothing or a     *)
(* calibration the host committed whole: never a mixture of two, never a   *)
(* half-programmed one.                                                    *)
(***************************************************************************)
LoadsWhole == cal_load(flash) \in committed \cup {None}

(***************************************************************************)
(* CAL,OK to a commit is durable: until the next commit or clear is sent,  *)
(* every boot loads exactly the acknowledged calibration.                  *)
(***************************************************************************)
AckedIsDurable == \A c \in acked : cal_load(flash) = c

(***************************************************************************)
(* Between commands, and if no flash operation has failed since boot, the  *)
(* biases SPIThread subtracts are the ones the next boot will load (zero   *)
(* if none).  A failed commit is the exception: it keeps the old biases    *)
(* running over an erased sector (threads.cpp, commit branch).             *)
(***************************************************************************)
RunningIsStored ==
  Idle /\ ~failed =>
    /\ g_cal_valid <=> cal_load(flash) # None
    /\ g_cal = IF g_cal_valid THEN cal_load(flash) ELSE Zeros

\* What makes those inductive: a save under way programs what the host staged,
\* over an erased sector, word by word; nothing is acknowledged meanwhile.
SaveInv ==
  /\ ~Idle => acked = {}
  /\ pc \in {"erase_save", "program"} => buf = s_cal_stage /\ buf \in committed
  /\ pc = "program" => \A w \in Word : flash[w] = IF w < word THEN buf ELSE Erased

(***************************************************************************)
(* The flash implements CalStore: stored is what a boot would load, an     *)
(* operation is under way from the command to its reply or to the cut, and *)
(* its value is what the host has staged.                                  *)
(***************************************************************************)
storedBar == cal_load(flash)
opBar     == IF Idle THEN {}
             ELSE IF pc = "erase_clear" THEN {None} ELSE {s_cal_stage}

Store == INSTANCE CalStore WITH stored <- storedBar, op <- opBar
StoreSpec == Store!Spec
=============================================================================
