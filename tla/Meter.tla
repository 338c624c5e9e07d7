-------------------------------- MODULE Meter --------------------------------
(***************************************************************************)
(* The energy meter (rn8209c.c, the report in messageDispose.c): the chip   *)
(* gives a pulse for every bit of energy.  The interrupt counts pulses and  *)
(* after every Gap of them appends the total to the words of a region of    *)
(* flash, which is erased when it is full.  After a reset the total is the  *)
(* last word before the first erased one.                                  *)
(*                                                                          *)
(* The message thread reads the two halves of the total for a report, and   *)
(* after a calibration it erases the region; the interrupt may come between *)
(* any two of these steps, and runs to its end.  The power may fail between *)
(* any two writes.                                                          *)
(***************************************************************************)
EXTENDS Integers, FiniteSetsExt

CONSTANTS Gap,          \* ENERGY_SAVE_DATA_GAP
          Words,        \* ENERGY_DATA_TOTAL_SIZE / ENERGY_DATA_SIZE
          ReadWords,    \* ENERGY_PER_DEAD_LEN / ENERGY_DATA_SIZE: words read at a time
          EC,           \* RN8209C_DEFAULT_EC: pulses for 100 of the units reported
          Decimals,     \* what is left of a figure: four decimal digits, 10000
          MaxPulses,    \* bound: pulses
          MaxOutages,   \* bound: power failures
          MaxReports    \* bound: reports

ASSUME MeterAssumption ==
    /\ {Gap, Words, ReadWords, EC, Decimals} \subseteq Nat \ {0}
    /\ Words > 1 /\ Words % ReadWords = 0
    /\ {MaxPulses, MaxOutages, MaxReports} \subseteq Nat

VARIABLES energyWords,   \* the region of flash
          energyOffset,  \* g_energyData: where the next total is written,
          energyData,    \* the total that was written last,
          energyCurData, \* and the pulses since
          cfStep,        \* the next step of the interrupt, "idle" between pulses
          kStep,         \* the next step of lum_saveKData, "idle" outside of it
          half,          \* what lum_rn8209cGetUData has read, for a report
          reported,      \* the last report
          reports,       \* reports made
          meterUp,       \* the device runs
          pulses,        \* history: pulses since the meter was new
          outages,       \* history: power failures
          meterLost,     \* history: pulses the device does not know of any more
          excuse         \* history: some power failure was untimely

meterVars == <<energyWords, energyOffset, energyData, energyCurData, cfStep, kStep, half,
               reported, reports, meterUp, pulses, outages, meterLost, excuse>>
energy == <<energyOffset, energyData, energyCurData>>
report == <<half, reported, reports>>
meterHistory == <<outages, meterLost, excuse>>

Erased == -1
Flag == -2              \* ENERGY_DATA_FLAG
Spoilt == -3            \* a word that was written twice
Word == 0 .. Words - 1
AllErased == [w \in Word |-> Erased]
Put(w, v) == [energyWords EXCEPT ![w] = IF @ = Erased THEN v ELSE Spoilt]
Quiet == meterUp /\ cfStep = "idle"
NoHalf == [read |-> "none", value |-> 0, at |-> 0]
-----------------------------------------------------------------------------
(* Mutant of Count: the pulses since the last total are not set back.        *)
CountOn ==
    IF energyCurData + 1 < Gap
    THEN energyCurData' = energyCurData + 1 /\ UNCHANGED <<energyData, cfStep>>
    ELSE /\ energyData' = energyData + energyCurData + 1
         /\ energyCurData' = energyCurData
         /\ cfStep' = IF energyOffset >= Words THEN "erase" ELSE "write"

(* lum_rn8209cAddEnergyData, up to the first write to flash.                 *)
Count ==
    IF energyCurData + 1 < Gap
    THEN energyCurData' = energyCurData + 1 /\ UNCHANGED <<energyData, cfStep>>
    ELSE /\ energyData' = energyData + energyCurData + 1
         /\ energyCurData' = 0
         /\ cfStep' = IF energyOffset >= Words THEN "erase" ELSE "write"

(* A pulse interrupts whatever runs.                                         *)
Pulse ==
    /\ Quiet /\ pulses < MaxPulses
    /\ half = NoHalf \/ pulses < half.at + Gap
    /\ pulses' = pulses + 1
    /\ Count
    /\ UNCHANGED <<energyWords, energyOffset, kStep, report, meterUp, meterHistory>>

(* lum_rn8209cSaveEnergyData: lum_rn8209cClearEnergyData of a full region ... *)
EraseFull ==
    /\ cfStep = "erase"
    /\ energyWords' = AllErased
    /\ cfStep' = "flag"
    /\ UNCHANGED <<energy, kStep, report, meterUp, pulses, meterHistory>>

FlagFull ==
    /\ cfStep = "flag"
    /\ energyWords' = Put(0, Flag) /\ energyOffset' = 1
    /\ cfStep' = "write"
    /\ UNCHANGED <<energyData, energyCurData, kStep, report, meterUp, pulses, meterHistory>>

(* ... and the total is written.                                             *)
WriteTotal ==
    /\ cfStep = "write"
    /\ energyWords' = Put(energyOffset, energyData)
    /\ energyOffset' = energyOffset + 1
    /\ excuse' = (excuse \/ kStep # "idle" \/ energyWords[energyOffset] # Erased)
    /\ cfStep' = "idle"
    /\ UNCHANGED <<energyData, energyCurData, kStep, report, meterUp, pulses, outages,
                   meterLost>>
-----------------------------------------------------------------------------
(* lum_saveKData, in the message thread: the region is erased, and the total *)
(* is only in RAM until the next Gap of pulses.                              *)
EraseForK ==
    /\ Quiet /\ kStep = "idle" /\ half = NoHalf
    /\ energyWords' = AllErased
    /\ kStep' = "flag"
    /\ UNCHANGED <<energy, cfStep, report, meterUp, pulses, meterHistory>>

FlagForK ==
    /\ Quiet /\ kStep = "flag"
    /\ energyWords' = Put(0, Flag)
    /\ kStep' = "offset"
    /\ UNCHANGED <<energy, cfStep, report, meterUp, pulses, meterHistory>>

OffsetForK ==
    /\ Quiet /\ kStep = "offset"
    /\ energyOffset' = 1
    /\ kStep' = "idle"
    /\ UNCHANGED <<energyWords, energyData, energyCurData, cfStep, report, meterUp, pulses,
                   meterHistory>>

(* lum_rn8209cGetUData: the compiler may read either half first.             *)
(* Between the two no more than a Gap of pulses come.                        *)

ReadHalf ==
    /\ Quiet /\ kStep = "idle" /\ half = NoHalf /\ reports < MaxReports
    /\ half' \in {[read |-> "total", value |-> energyData, at |-> pulses],
                  [read |-> "rest", value |-> energyCurData, at |-> pulses]}
    /\ UNCHANGED <<energyWords, energy, cfStep, kStep, reported, reports, meterUp, pulses,
                   meterHistory>>

(* The figure that is sent: lum_rn8209cGetUData's scale, and                 *)
(* lum_coverBcdfFormat, which makes eight decimal digits in a variable of 16  *)
(* bits.                                                                     *)
Shown(n) == ((n * 100) \div EC) % Decimals

(* Mutant of ReportEnergy: only the pulses since the last total are sent.    *)
ReportRest ==
    /\ Quiet /\ half # NoHalf
    /\ reported' = Shown(energyCurData)
    /\ half' = NoHalf /\ reports' = reports + 1
    /\ UNCHANGED <<energyWords, energy, cfStep, kStep, meterUp, pulses, meterHistory>>

(* lum_localReportEnergyUdata and lum_queryEnergyData: the sum is sent.      *)
ReportEnergy ==
    /\ Quiet /\ half # NoHalf
    /\ reported' = Shown(half.value
                          + (IF half.read = "total" THEN energyCurData ELSE energyData))
    /\ half' = NoHalf /\ reports' = reports + 1
    /\ UNCHANGED <<energyWords, energy, cfStep, kStep, meterUp, pulses, meterHistory>>
-----------------------------------------------------------------------------
(* lum_rn8209cInitEnergyData, when the flag is there: the first group of     *)
(* words whose last one is erased holds the end.                             *)
Ends == {g \in Word: g % ReadWords = 0 /\ energyWords[g + ReadWords - 1] = Erased}

(* Mutant of FoundOffset: the end is taken to be the beginning of the group. *)
FoundOffsetOfGroup == IF Ends = {} THEN 0 ELSE Min(Ends)

FoundOffset ==
    IF Ends = {} THEN 0
    ELSE Min({w \in Word: w >= Min(Ends) /\ energyWords[w] = Erased})

FoundTotals ==
    IF FoundOffset \in {0, 1} THEN {0}
    ELSE LET w == energyWords[FoundOffset - 1]
         IN IF w \in {Spoilt, Flag} THEN 0 .. MaxPulses ELSE {w}

(* The power fails.  It is untimely while a total is in RAM only: the region *)
(* is full, or was erased and holds no total again, or an interrupt met      *)
(* lum_saveKData.                                                            *)
Untimely == energyOffset \in {0, 1, Words} \/ kStep # "idle" \/ cfStep \in {"erase", "flag"}

MeterFails ==
    /\ meterUp /\ outages < MaxOutages
    /\ outages' = outages + 1
    /\ meterUp' = FALSE
    /\ excuse' = (excuse \/ (Untimely /\ energyData # 0))
    /\ cfStep' = "idle" /\ kStep' = "idle" /\ half' = NoHalf
    /\ energyOffset' = 0 /\ energyData' = 0 /\ energyCurData' = 0
    /\ UNCHANGED <<energyWords, reported, reports, pulses, meterLost>>

(* lum_rn8209cInit, before the interrupt is switched on.                     *)
MeterStarts ==
    /\ ~meterUp
    /\ meterUp' = TRUE
    /\ IF energyWords[0] # Flag
       THEN energyWords' = [AllErased EXCEPT ![0] = Flag] /\ energyOffset' = 1 /\ energyData' = 0
       ELSE UNCHANGED energyWords /\ energyOffset' = FoundOffset /\ energyData' \in FoundTotals
    /\ meterLost' = IF energyData' <= pulses THEN pulses - energyData' ELSE 0
    /\ UNCHANGED <<energyCurData, cfStep, kStep, report, pulses, outages, excuse>>

(* A new device.                                                             *)
MeterInit ==
    /\ energyWords = AllErased
    /\ energyOffset = 0 /\ energyData = 0 /\ energyCurData = 0
    /\ cfStep = "idle" /\ kStep = "idle" /\ meterUp = FALSE
    /\ half = NoHalf /\ reported = 0 /\ reports = 0
    /\ pulses = 0 /\ outages = 0 /\ meterLost = 0 /\ excuse = FALSE

MeterNext ==
    \/ Pulse \/ EraseFull \/ FlagFull \/ WriteTotal
    \/ EraseForK \/ FlagForK \/ OffsetForK
    \/ ReadHalf \/ ReportEnergy
    \/ MeterFails \/ MeterStarts

MeterSpec == MeterInit /\ [][MeterNext]_meterVars
-----------------------------------------------------------------------------
MeterTypes ==
    /\ energyWords \in [Word -> Nat \cup {Erased, Flag, Spoilt}]
    /\ energyOffset \in 0 .. Words /\ energyData \in Nat /\ energyCurData \in 0 .. Gap - 1
    /\ cfStep \in {"idle", "erase", "flag", "write"} /\ kStep \in {"idle", "flag", "offset"}
    /\ half \in [read: {"none", "total", "rest"}, value: Nat, at: Nat]
    /\ {reported, meterLost} \subseteq Nat
    /\ pulses \in 0 .. MaxPulses /\ outages \in 0 .. MaxOutages /\ reports \in 0 .. MaxReports
    /\ {meterUp, excuse} \subseteq BOOLEAN

(* The device counts every pulse, but for those a power failure took ...     *)
NoPulseLost == meterUp /\ ~excuse => pulses = energyData + energyCurData + meterLost

(* ... and each of them took no more than one Gap.                           *)
LossIsSmall == ~excuse => meterLost <= outages * Gap

MeterInv == MeterTypes /\ NoPulseLost /\ LossIsSmall

(* An interrupt between the two halves puts a report wrong by no more than   *)
(* one Gap of pulses, whichever is read first.                               *)
Known == energyData + energyCurData
ReportNear ==
    [][reports' # reports =>
          \E n \in Known - Gap .. Known + Gap: n >= 0 /\ reported' = Shown(n)]_meterVars
=============================================================================
