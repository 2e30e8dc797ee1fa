---------------------------- MODULE StationConfig ----------------------------
(***************************************************************************)
(* The station's configuration: the patches the app writes over BLE        *)
(* (ble_gatt.c, all or nothing), the CONFIG patches of the network         *)
(* (lora_codec.c, field by field), the pin inventory that both the sensors *)
(* and the LoRa module draw on (pinmap.c), and the single record in flash  *)
(* that a boot reads back (config_store.c).                                *)
(*                                                                         *)
(* Pins are GPIO numbers.  One field stands for those with a range         *)
(* (period), one for those the build restricts (mode), and a type for each *)
(* way a sensor uses its pins.  The BLE handler runs to its end before the *)
(* supervisor goes on, and both writers hold the configuration's lock, so  *)
(* each patch is one step.                                                 *)
(***************************************************************************)
EXTENDS Integers, FiniteSets

CONSTANTS
    Gpios,          \* the pins on the header (SAVIA_GPIO_COUNT)
    NoPin,          \* SAVIA_GPIO_NONE
    Wireless,       \* the pins of the radio chip
    WakeButton,     \* wake_button_gpio
    Adcs,           \* the pins with an analog input
    Slots,          \* the ports of the sensor table
    Periods,        \* accepted values of a field with a range
    Degrees, Unset, \* coordinates, and coordinates never given
    Absent,         \* a field a patch does not carry
    Patches,        \* patches the app may write
    Tlvs            \* patches the network may send

Free == [type |-> "none", gpio |-> NoPin, gpio2 |-> NoPin]
Types == {"none", "probe", "analog", "sonar"}
Tables == [Slots -> [type: Types, gpio: Gpios \cup {NoPin}, gpio2: Gpios \cup {NoPin}]]
Modes == {"forward", "local"}

Config == [on: BOOLEAN, tx: Gpios \cup {NoPin}, rx: Gpios \cup {NoPin},
           table: Tables, period: Periods, mode: Modes,
           coords: BOOLEAN, lat: Degrees \cup {Unset}, lon: Degrees \cup {Unset}]

ASSUME ConfigAssumption ==
    /\ Gpios \subseteq Nat /\ NoPin \in Nat \ Gpios
    /\ Wireless \subseteq Gpios /\ WakeButton \in Gpios /\ Adcs \subseteq Gpios
    /\ Unset \notin Degrees /\ Absent \notin Degrees \cup {Unset}
    /\ Absent \notin Gpios \cup {NoPin} /\ Absent \notin BOOLEAN
    /\ Absent \notin Tables /\ Absent \notin Modes
    /\ Absent \notin Periods /\ Periods # {} /\ Absent \notin Config
    /\ \A p \in Patches:
         /\ p.on \in BOOLEAN \cup {Absent}
         /\ {p.tx, p.rx} \subseteq Gpios \cup {NoPin, Absent}
         /\ p.table \in Tables \cup {Absent} /\ p.mode \in Modes \cup {Absent}
         /\ {p.lat, p.lon} \subseteq Degrees \cup {Unset, Absent}
    /\ \A t \in Tlvs:
         /\ t.mode \in Modes \cup {Absent}
         /\ {t.lat, t.lon} \subseteq Degrees \cup {Absent}

VARIABLES
    power,      \* "on" or "off"
    onDevice,   \* inference_on_device(): the build in flash carries the model
    cfg,        \* the configuration in RAM
    dirty,      \* g_config_dirty
    flash,      \* the record, Absent when erased, torn or never written
    unsaved     \* history: cfg holds a write that no finished save has taken

configVars == <<power, onDevice, cfg, dirty, flash, unsaved>>

-----------------------------------------------------------------------------
(* The pin inventory.                                                      *)

SlotPins(s) ==
    IF s.type = "none" THEN {}
    ELSE IF s.type = "sonar" THEN {s.gpio, s.gpio2}
    ELSE {s.gpio}

SensorPins(table) == UNION {SlotPins(table[i]): i \in Slots}

\* pinmap_check_assign on what never changes: the header, the radio chip and
\* the wake button.
Assignable(g) == g \in Gpios \ (Wireless \cup {WakeButton})

\* GP0-1, 12-13, 16-17 and 28-29 belong to uart0.
UartIndex(g) == IF (g \div 4) % 4 \in {0, 3} THEN 0 ELSE 1
IsUartPair(tx, rx) ==
    tx \in Gpios /\ rx \in Gpios
        /\ tx % 4 = 0 /\ rx % 4 = 1 /\ UartIndex(tx) = UartIndex(rx)

\* pinmap_check_uart_pair: against the sensors of the table given.
UartPairFits(table, tx, rx) ==
    /\ IsUartPair(tx, rx)
    /\ \A g \in {tx, rx}: Assignable(g) /\ g \notin SensorPins(table)

\* pinmap_check_sensors: a whole table against LoRa's pins and itself.
SlotFits(table, i, lora) ==
    LET s == table[i]
    IN  s.type # "none" =>
          /\ \A g \in SlotPins(s):
               /\ Assignable(g) /\ g \notin lora
               /\ s.type = "analog" => g \in Adcs
               /\ \A j \in Slots \ {i}: g \notin SlotPins(table[j])
          /\ s.type = "sonar" => s.gpio # s.gpio2

\* Mutant: a slot is not checked against the ports before it.
TableFitsAlone(table, lora) ==
    \A i \in Slots: SlotFits([table EXCEPT ![CHOOSE j \in Slots: TRUE] = Free], i, lora)

TableFits(table, lora) == \A i \in Slots: SlotFits(table, i, lora)

-----------------------------------------------------------------------------
(* A patch of the app: staged, checked field by field, committed whole.    *)

Given(field, old) == IF field = Absent THEN old ELSE field

\* A null clears the pair, whatever the other field is.
Nulled(p) == Unset \in {p.lat, p.lon}
Paired(p) == Absent \notin {p.lat, p.lon}

Staged(p) ==
    [on |-> Given(p.on, cfg.on), tx |-> Given(p.tx, cfg.tx), rx |-> Given(p.rx, cfg.rx),
     table |-> Given(p.table, cfg.table),
     period |-> Given(p.period, cfg.period), mode |-> Given(p.mode, cfg.mode),
     coords |-> IF Nulled(p) THEN FALSE ELSE cfg.coords \/ Paired(p),
     lat |-> IF ~Nulled(p) /\ Paired(p) THEN p.lat ELSE cfg.lat,
     lon |-> IF ~Nulled(p) /\ Paired(p) THEN p.lon ELSE cfg.lon]

\* Mutant: only enabling the module has its pins checked.
EnablesLora(p) == p.on # Absent

\* The module's pins are checked when a patch that touches it leaves it
\* enabled, against the sensors of before the patch.
MovesLora(p) == p.on # Absent \/ p.tx # Absent \/ p.rx # Absent

LoraFits(p) ==
    Staged(p).on /\ MovesLora(p) => UartPairFits(cfg.table, Staged(p).tx, Staged(p).rx)

Accepted(p) ==
    /\ p.period # Absent => p.period \in Periods
    /\ LoraFits(p)
    /\ p.mode = "local" => onDevice
    /\ Nulled(p) \/ Paired(p) \/ p.lat = p.lon
    /\ p.table # Absent => TableFits(p.table, {Staged(p).tx, Staged(p).rx})

BleWrite(p) ==
    /\ power = "on" /\ Accepted(p) /\ Staged(p) # cfg
    /\ cfg' = Staged(p)
    /\ dirty' = TRUE /\ unsaved' = TRUE
    /\ UNCHANGED <<power, onDevice, flash>>

-----------------------------------------------------------------------------
(* The record in flash.                                                    *)

Defaults ==
    [on |-> FALSE, tx |-> NoPin, rx |-> NoPin, table |-> [i \in Slots |-> Free],
     period |-> CHOOSE v \in Periods: TRUE,
     mode |-> IF onDevice THEN "local" ELSE "forward",
     coords |-> FALSE, lat |-> Unset, lon |-> Unset]

\* config_store_save erases and programs the one sector; its caller does not
\* learn of a refusal, and a cut in between leaves no record.
Saved(c) == flash' = c /\ unsaved' = FALSE /\ UNCHANGED power
Refused == UNCHANGED <<flash, power, unsaved>>
CutMidway == flash' = Absent /\ power' = "off" /\ unsaved' = FALSE

Save(c) == Saved(c) \/ Refused \/ CutMidway

\* The flag is taken before the save.
Persist ==
    /\ power = "on" /\ dirty
    /\ dirty' = FALSE
    /\ Save(cfg)
    /\ UNCHANGED <<onDevice, cfg>>

\* Mutant: the range is not checked.
TlvAnyPeriod(t) == Given(t.period, cfg.period)

\* A CONFIG patch of the network: every field on its own, then saved.
TlvPeriod(t) == IF t.period \in Periods THEN t.period ELSE cfg.period

TlvMode(t) == IF Given(t.mode, cfg.mode) = "local" /\ ~onDevice THEN "forward"
              ELSE Given(t.mode, cfg.mode)

Applied(t) ==
    [cfg EXCEPT !.period = TlvPeriod(t), !.mode = TlvMode(t),
                !.coords = @ \/ t.lat # Absent \/ t.lon # Absent,
                !.lat = Given(t.lat, @), !.lon = Given(t.lon, @)]

TlvPatch(t) ==
    /\ power = "on"
    /\ cfg' = Applied(t)
    /\ Save(Applied(t))
    /\ UNCHANGED <<onDevice, dirty>>

-----------------------------------------------------------------------------
(* Power.                                                                  *)

ConfigInit ==
    /\ power = "off" /\ onDevice \in BOOLEAN
    /\ cfg = Defaults /\ flash = Absent
    /\ dirty = FALSE /\ unsaved = FALSE

Loaded == IF flash = Absent THEN Defaults ELSE flash

\* Mutant: the record is taken as it is.
AsRecorded(c) == c

\* A record of a build with the model may meet a build without it.
Modelled(c) == IF c.mode = "local" /\ ~onDevice THEN [c EXCEPT !.mode = "forward"] ELSE c

Boot ==
    /\ power = "off" /\ power' = "on"
    /\ cfg' = Modelled(Loaded)
    /\ dirty' = FALSE /\ unsaved' = FALSE
    /\ UNCHANGED <<onDevice, flash>>

\* The wake button held at a cold boot; the erase may be refused.
FactoryReset ==
    /\ power = "off" /\ power' = "on"
    /\ cfg' = Defaults
    /\ flash' \in {flash, Absent}
    /\ dirty' = FALSE /\ unsaved' = FALSE
    /\ UNCHANGED onDevice

PowerCut ==
    /\ power = "on" /\ power' = "off"
    /\ cfg' = Defaults /\ dirty' = FALSE /\ unsaved' = FALSE
    /\ UNCHANGED <<onDevice, flash>>

\* Another build is written to the board.
Reflash ==
    /\ power = "off"
    /\ onDevice' = ~onDevice
    /\ UNCHANGED <<power, cfg, dirty, flash, unsaved>>

ConfigNext ==
    \/ \E p \in Patches: BleWrite(p)
    \/ \E t \in Tlvs: TlvPatch(t)
    \/ Persist \/ Boot \/ FactoryReset \/ PowerCut \/ Reflash

ConfigSpec == ConfigInit /\ [][ConfigNext]_configVars

-----------------------------------------------------------------------------
(* Properties.                                                             *)

\* The variables keep their types; every field is in the range that both
\* writers promise to hold it to.
ConfigTyped ==
    /\ power \in {"on", "off"}
    /\ {onDevice, dirty, unsaved} \subseteq BOOLEAN
    /\ cfg \in Config
    /\ flash \in Config \cup {Absent}

\* pinmap.h: no sequence of patches and reboots ("so a sensor can never claim
\* a reserved pin") ends with two sensors on a pin, with one on a pin of the
\* radio chip or the wake button, or on one that cannot do its work.
SensorsApart(table) ==
    /\ \A g \in SensorPins(table): Assignable(g)
    /\ \A i, j \in Slots: i # j => SlotPins(table[i]) \cap SlotPins(table[j]) = {}
    /\ \A i \in Slots: /\ table[i].type = "analog" => table[i].gpio \in Adcs
                      /\ table[i].type = "sonar" => table[i].gpio # table[i].gpio2

SensorPinsSound == SensorsApart(cfg.table)

\* An enabled LoRa module sits on a UART pair that no sensor shares, however
\* the patches that moved it and the sensors followed each other.
LoraPinsSound == cfg.on => UartPairFits(cfg.table, cfg.tx, cfg.rx)

\* main.c: "don't advertise LOCAL where nothing can run it", whoever asked
\* for it and whichever build wrote the record.
LocalNeedsModel == power = "on" /\ cfg.mode = "local" => onDevice

\* Violated.  pinmap.c: "Assigned LoRa pins are taken whether or not the
\* radio is on": a sensor and the module never hold the same pin.
LoraPinsNeverShared == {cfg.tx, cfg.rx} \cap SensorPins(cfg.table) = {}

\* Violated.  lora_codec.h: the network's patch is applied "with the same
\* clamps as the BLE patch", which takes coordinates in pairs only.
CoordsComeInPairs == cfg.coords => Unset \notin {cfg.lat, cfg.lon}

\* Violated.  ble_gatt.c on the flag it sets: "persisted by the supervisor
\* loop": a write that is not in flash is still marked to be saved.
UnsavedIsDirty == power = "on" /\ unsaved => dirty
=============================================================================
