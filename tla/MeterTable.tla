---------------------------- MODULE MeterTable ----------------------------
(***************************************************************************)
(* The meter table of the datapath and its handler for meter_mod messages  *)
(* (udatapath/meter_table.c).  A meter is abstracted to its number of      *)
(* bands; flow references are in FlowRefs, token buckets in MeterBands.    *)
(***************************************************************************)
EXTENDS OpenFlow, Integers, FiniteSets, Functions

CONSTANTS
    MeterId,       \* the ids 1..OFPM_MAX
    MaxMeters,     \* DEFAULT_MAX_METER
    MaxBands,      \* METER_TABLE_MAX_BANDS
    ModBands,      \* bound: bands in one meter_mod
    SizeMod        \* number of values of a size_t

ASSUME MeterTableAssumption ==
    /\ MaxMeters \in Nat
    /\ MaxBands \in Nat
    /\ ModBands \in Nat
    /\ SizeMod \in Nat \ {0}

VARIABLES
    meters,          \* table->meter_entries: id -> number of bands
    meters_num,      \* table->entries_num
    bands_num,       \* table->bands_num
    bands_base       \* history: what bands_num held when the table was empty

meterVars == <<meters, meters_num, bands_num, bands_base>>

MeterMod == [meter_id : MeterId, bands : 0..ModBands]

NoMeters == [m \in {} |-> 0]

\* meter_table_create sets entries_num, but leaves bands_num with whatever the
\* allocated memory held.
MeterInit ==
    /\ meters = NoMeters
    /\ meters_num = 0
    /\ bands_num \in 0..(SizeMod - 1)
    /\ bands_base = bands_num

---------------------------------------------------------------------------
(* What meter_table_handle_meter_mod returns. *)

MeterAddError(mod, role) ==
    IF role = "SLAVE" THEN "IS_SLAVE"
    ELSE IF mod.meter_id \in DOMAIN meters THEN "METER_EXISTS"
    ELSE IF meters_num = MaxMeters THEN "OUT_OF_METERS"
    ELSE IF (bands_num + mod.bands) % SizeMod > MaxBands THEN "OUT_OF_BANDS"
    ELSE "OK"

ModifiedBands(mod) == (bands_num - meters[mod.meter_id] + mod.bands) % SizeMod

MeterModifyError(mod, role) ==
    IF role = "SLAVE" THEN "IS_SLAVE"
    ELSE IF mod.meter_id \notin DOMAIN meters THEN "UNKNOWN_METER"
    ELSE IF ModifiedBands(mod) > MaxBands THEN "OUT_OF_BANDS"
    ELSE "OK"

---------------------------------------------------------------------------
(* The meter_mod messages that are carried out. *)

meter_table_add(mod, role) ==
    /\ MeterAddError(mod, role) = "OK"
    /\ meters' = [m \in DOMAIN meters \cup {mod.meter_id} |->
                     IF m = mod.meter_id THEN mod.bands ELSE meters[m]]
    /\ meters_num' = meters_num + 1
    /\ bands_num' = (bands_num + mod.bands) % SizeMod
    /\ UNCHANGED bands_base

meter_table_modify(mod, role) ==
    /\ MeterModifyError(mod, role) = "OK"
    /\ meters' = [meters EXCEPT ![mod.meter_id] = mod.bands]
    /\ bands_num' = ModifiedBands(mod)
    /\ UNCHANGED <<meters_num, bands_base>>

\* Mutant: the bands of the deleted meter are not given back.
DeleteKeepsBands(id, role) ==
    /\ role # "SLAVE"
    /\ id \in DOMAIN meters
    /\ meters' = [m \in DOMAIN meters \ {id} |-> meters[m]]
    /\ meters_num' = meters_num - 1
    /\ UNCHANGED <<bands_num, bands_base>>

\* A meter that is not there is no error.
meter_table_delete(id, role) ==
    /\ role # "SLAVE"
    /\ id \in DOMAIN meters
    /\ meters' = [m \in DOMAIN meters \ {id} |-> meters[m]]
    /\ meters_num' = meters_num - 1
    /\ bands_num' = (bands_num - meters[id]) % SizeMod
    /\ UNCHANGED bands_base

\* DELETE with the id OFPM_ALL; it also puts the band count right.
meter_table_delete_all(role) ==
    /\ role # "SLAVE"
    /\ meters' = NoMeters
    /\ meters_num' = 0
    /\ bands_num' = 0
    /\ bands_base' = 0

\* A meter_mod that is answered with an error, or deletes a meter that is not
\* there, leaves the table alone.
MeterModUnchanged ==
    /\ \E role \in Role :
          \/ \E mod \in MeterMod :
                MeterAddError(mod, role) # "OK" \/ MeterModifyError(mod, role) # "OK"
          \/ \E id \in MeterId : role = "SLAVE" \/ id \notin DOMAIN meters
    /\ UNCHANGED meterVars

MeterNext ==
    \/ MeterModUnchanged
    \/ \E role \in Role, mod \in MeterMod :
          meter_table_add(mod, role) \/ meter_table_modify(mod, role)
    \/ \E role \in Role, id \in MeterId : meter_table_delete(id, role)
    \/ \E role \in Role : meter_table_delete_all(role)

MeterSpec == MeterInit /\ [][MeterNext]_meterVars

---------------------------------------------------------------------------
BandsHeld == SumFunction(meters)

\* The table maps ids to band counts; bands_num is a size_t.
MeterTypeOK ==
    /\ DOMAIN meters \subseteq MeterId
    /\ meters \in [DOMAIN meters -> 0..ModBands]
    /\ meters_num \in Int
    /\ bands_num \in 0..(SizeMod - 1)
    /\ bands_base \in 0..(SizeMod - 1)

\* The number checked against DEFAULT_MAX_METER is the number of meters, and
\* it respects the limit.
MetersCounted ==
    /\ IsFiniteSet(DOMAIN meters)
    /\ meters_num = Cardinality(DOMAIN meters)
    /\ meters_num <= MaxMeters

\* Apart from the value it started with, bands_num counts the bands of the
\* meters in the table, through every wrap of the size_t.
BandsCountedFromBase == bands_num = (bands_base + BandsHeld) % SizeMod
===========================================================================
