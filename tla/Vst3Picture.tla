----------------------------- MODULE Vst3Picture -----------------------------
(***************************************************************************)
(* What a ClapAsVst3 publishes of its plug-in, rebuilt or kept in step when *)
(* the plug-in reports a change.  Two parts that share no state:            *)
(*                                                                          *)
(* the parameters and units: those of the plug-in, a block reserved for     *)
(* MIDI controllers and the preset selector; a normalized value is written  *)
(* as the plain value it stands for;                                        *)
(*                                                                          *)
(* and the audio busses, their activation and their speaker arrangements,   *)
(* against the audio ports of the plug-in, and the latency the host asks    *)
(* for; a speaker is its bit, so that an arrangement is the set of its      *)
(* speakers.                                                                *)
(***************************************************************************)
EXTENDS Integers, Sequences, FiniteSets, SequencesExt, TLC
CONSTANTS
  ParamLists,           \* the lists of parameters the plug-in may have
  Values,
  MidiChannels, Controllers,     \* _numMidiChannels, kCountCtrlNumber
  MidiBase, SelectorBase, HighBit,     \* 0xb00000, 0xc00000, 0x80000000
  HasPresets            \* supportsPresetLoad()

VARIABLES
  plug,                 \* the plug-in: its parameter list, their values
  wrapped,              \* parameters: what the host sees of them
  units, midiIds, selectorId
paramVars == <<plug, wrapped, units, midiIds, selectorId>>

----------------------------------------------------------------------------
(* Units: every component of a module path, created once, found by its name. *)
Root == [name |-> "Root", parent |-> -1]
UnitNamed(us, name) == IF \E u \in DOMAIN us : us[u].name = name
                       THEN (CHOOSE u \in DOMAIN us : us[u].name = name) - 1 ELSE -1

GetOrCreateUnitInfo(us, module) ==
  FoldLeft(LAMBDA so, name :
    IF UnitNamed(so.units, name) >= 0 THEN [so EXCEPT !.id = UnitNamed(so.units, name)]
    ELSE [units |-> Append(so.units, [name |-> name, parent |-> so.id]), id |-> Len(so.units)],
    [units |-> us, id |-> 0], module)

(* Parameters.                                                              *)
Vst3Id(id) == id % HighBit
Taken(list, x) == \E n \in DOMAIN list : list[n].id = x

CreateParameter(so, info) ==
  LET unit == GetOrCreateUnitInfo(so.units, info.module) IN
  [units |-> unit.units,
   list |-> Append(so.list, [id |-> Vst3Id(info.id), clap |-> info.id, of |-> "plugin",
                             value |-> info.default, title |-> info.name])]

NextWithoutCheck(list, x) == x
NextFree(list, x) == CHOOSE y \in x .. x + Len(list) : ~ Taken(list, y) /\ \A z \in x .. y - 1 : Taken(list, z)

\* One parameter per channel and controller, and the channel's program change.
MidiSlots == [k \in 1 .. MidiChannels * (Controllers + 1) |->
  <<(k - 1) \div (Controllers + 1), (k - 1) % (Controllers + 1)>>]
SetupMidiMapping(list) ==
  FoldLeft(LAMBDA so, slot :
    LET id == NextFree(so.list, so.x) IN
    [list |-> Append(so.list, [id |-> id, clap |-> -1, of |-> "midi", value |-> 0, title |-> slot]),
     x |-> id + 1, ids |-> so.ids @@ (slot :> id)],
    [list |-> list, x |-> MidiBase, ids |-> <<>>], MidiSlots)

SetupPresetSelector(list) ==
  IF ~ HasPresets THEN [list |-> list, id |-> -1]
  ELSE LET id == NextFree(list, SelectorBase) IN
       [list |-> Append(list, [id |-> id, clap |-> -1, of |-> "preset", value |-> 0, title |-> "Preset"]), id |-> id]

SetupParameters(infos) ==
  LET own == FoldLeft(CreateParameter, [units |-> <<Root>>, list |-> <<>>], infos)
      midi == SetupMidiMapping(own.list)
      presets == SetupPresetSelector(midi.list)
  IN [units |-> own.units, list |-> presets.list, ids |-> midi.ids, selector |-> presets.id]

Published(setup) == wrapped' = setup.list /\ units' = setup.units /\ midiIds' = setup.ids /\ selectorId' = setup.selector

IsWrapperOwned(p) == p.of # "plugin"
ValueOf(pl, p) == pl.values[p.clap]
Unsynced(list, pl) == list
SyncParameterValuesFromClap(list, pl) ==
  [n \in DOMAIN list |-> IF IsWrapperOwned(list[n]) THEN list[n] ELSE [list[n] EXCEPT !.value = ValueOf(pl, list[n])]]

----------------------------------------------------------------------------
Plug(list, values) == [list |-> list, values |-> values]
ValuesFor(list) == [{list[n].id : n \in DOMAIN list} -> Values]

ParametersInit ==
  /\ plug = LET list == CHOOSE l \in ParamLists : TRUE IN
            Plug(list, [i \in {list[n].id : n \in DOMAIN list} |-> list[1].default])
  /\ LET setup == SetupParameters(plug.list) IN
     /\ wrapped = setup.list /\ units = setup.units /\ midiIds = setup.ids /\ selectorId = setup.selector

(* param_rescan() of ALL: the whole tree is rebuilt, then its values synced. *)
RescanAll(list) ==
  /\ \E values \in ValuesFor(list) :
     /\ plug' = Plug(list, values)
     /\ LET setup == SetupParameters(list) IN
        Published([setup EXCEPT !.list = SyncParameterValuesFromClap(@, plug')])

\* Of VALUES, or from within load(): the values are synced once.
RescanValues ==
  /\ UNCHANGED <<units, midiIds, selectorId>>
  /\ \E values \in ValuesFor(plug.list) : plug' = [plug EXCEPT !.values = values]
  /\ wrapped' = SyncParameterValuesFromClap(wrapped, plug')

\* Of INFO: the names follow, the units do not.
NamedByPlug(p) == ~ IsWrapperOwned(p)
RescanInfo(name) ==
  /\ UNCHANGED <<units, midiIds, selectorId>>
  /\ \E n \in DOMAIN plug.list :
       plug' = [plug EXCEPT !.list[n].name = name]
  /\ LET synced == SyncParameterValuesFromClap(wrapped, plug')
         Index(p) == IF IsWrapperOwned(p) THEN 1 ELSE SelectInSeq(plug.list, LAMBDA q : q.id = p.clap)
     IN wrapped' = [n \in DOMAIN synced |->
          IF NamedByPlug(synced[n]) THEN [synced[n] EXCEPT !.title = plug'.list[Index(synced[n])].name] ELSE synced[n]]

\* setState(): a plug-in that did not ask for a rescan while it loaded is read afterwards.
SetStateSyncs == RescanValues

ParametersNext ==
  \/ \E list \in ParamLists : RescanAll(list)
  \/ RescanValues \/ SetStateSyncs \/ RescanInfo("renamed")

ParametersSpec == ParametersInit /\ [][ParametersNext]_paramVars
----------------------------------------------------------------------------
ParametersTypeOK ==
  /\ DOMAIN plug.values = {plug.list[n].id : n \in DOMAIN plug.list}
  /\ \A u \in DOMAIN units : units[u].parent < u - 1
  /\ selectorId \in Int

(* However often the tree is rebuilt: every id names one parameter, a       *)
(* controller of a channel is assigned to the parameter made for it, and    *)
(* the host's program control is the selector.                              *)
IdsNameOneParameter ==
  /\ \A a, b \in DOMAIN wrapped : wrapped[a].id = wrapped[b].id => a = b
  /\ \A slot \in DOMAIN midiIds :
       \E n \in DOMAIN wrapped : wrapped[n].id = midiIds[slot] /\ wrapped[n].of = "midi" /\ wrapped[n].title = slot
  /\ HasPresets => \E n \in DOMAIN wrapped : wrapped[n].id = selectorId /\ wrapped[n].title = "Preset"

(* After any rescan and any load the host reads the plug-in's own values.   *)
ValuesFollow ==
  \A n \in DOMAIN wrapped : wrapped[n].of = "plugin" => wrapped[n].value = plug.values[wrapped[n].clap]

-----------------------------------------------------------------------------
(* The audio busses.                                                        *)
CONSTANTS
  kSpeakers,            \* VST3 speaker -> CLAP position
  Ambisonic,            \* the arrangements of ambisonic components
  Mono, Stereo, Arrangements

VARIABLES
  ports, busses,        \* the plug-in's audio ports; audioInputs
  compActive,           \* _active
  missedLatency, latencyTold
bussesVars == <<ports, busses, compActive, missedLatency, latencyTold>>

----------------------------------------------------------------------------
(* Speaker arrangements.                                                    *)
Positions == {kSpeakers[s] : s \in DOMAIN kSpeakers}
SpeakerOf(position) == CHOOSE s \in DOMAIN kSpeakers : kSpeakers[s] = position
InOrder(arr) == SetToSortSeq(arr, <)

Skipping(arr) ==
  LET known == arr \cap DOMAIN kSpeakers IN {[n \in 1 .. Cardinality(known) |-> kSpeakers[InOrder(known)[n]]]}
\* Nothing, when one of the speakers has no position in CLAP.
ChannelMapFromArrangement(arr) ==
  IF arr \subseteq DOMAIN kSpeakers THEN {[n \in 1 .. Cardinality(arr) |-> kSpeakers[InOrder(arr)[n]]]} ELSE {}

\* Nothing, for an unknown or repeated position and for an order VST3 cannot express.
ArrangementFromChannelMap(map) ==
  IF Range(map) \subseteq Positions /\ (\A n \in 1 .. Len(map) - 1 : SpeakerOf(map[n]) < SpeakerOf(map[n + 1]))
  THEN {{SpeakerOf(map[n]) : n \in DOMAIN map}} ELSE {}

\* The guess from the count alone.
SpeakerArrFromChannelCount(count) ==
  CASE count = 1 -> Mono [] count = 2 -> Stereo [] OTHER -> 1 .. count

\* A port of the plug-in: how many channels, what it says of them, its channel map.
SpeakerArrangementFor(port) ==
  CASE port.type = "mono" /\ port.channels = 1 -> Mono
    [] port.type = "stereo" /\ port.channels = 2 -> Stereo
    [] port.type = "surround" /\ port.map # <<>> /\ ArrangementFromChannelMap(port.map) # {} ->
         CHOOSE a \in ArrangementFromChannelMap(port.map) : TRUE
    [] port.type = "ambisonic" /\ (\E a \in Ambisonic : Cardinality(a) = port.channels) ->
         CHOOSE a \in Ambisonic : Cardinality(a) = port.channels
    [] OTHER -> SpeakerArrFromChannelCount(port.channels)

AddAudioBusFrom(port) == [arr |-> SpeakerArrangementFor(port), active |-> FALSE]

\* Busses that persist across the rebuild, by index, stay activated.
AllInactive(old, new) == new
KeptActive(old, new) == [n \in DOMAIN new |-> IF n \in DOMAIN old THEN [new[n] EXCEPT !.active = old[n].active] ELSE new[n]]
SetupAudioBusses(old, now) == KeptActive(old, [n \in DOMAIN now |-> AddAudioBusFrom(now[n])])

\* What setBusArrangements() says of an arrangement, and without the described layout.
Undescribed(arr) ==
  [channels |-> Cardinality(arr), map |-> <<>>,
   type |-> IF arr = Mono THEN "mono" ELSE IF arr = Stereo THEN "stereo" ELSE "none"]
Described(arr) ==
  CASE arr \in {Mono, Stereo} -> Undescribed(arr)
    [] arr \in Ambisonic -> [Undescribed(arr) EXCEPT !.type = "ambisonic"]
    [] arr \notin {Mono, Stereo} \cup Ambisonic /\ ChannelMapFromArrangement(arr) # {} ->
         [Undescribed(arr) EXCEPT !.type = "surround", !.map = CHOOSE m \in ChannelMapFromArrangement(arr) : TRUE]
    [] OTHER -> Undescribed(arr)

----------------------------------------------------------------------------
BussesInit ==
  /\ ports = <<[channels |-> 2, type |-> "stereo", map |-> <<>>]>>
  /\ busses = SetupAudioBusses(<<>>, ports)
  /\ compActive = FALSE /\ missedLatency = FALSE /\ latencyTold = TRUE

ActivateBus(n) ==
  /\ n \in DOMAIN busses /\ ~ compActive
  /\ busses' = [busses EXCEPT ![n].active = ~ @]
  /\ UNCHANGED <<ports, compActive, missedLatency, latencyTold>>

\* apply_configuration(): the described set, then the counts alone; a plug-in
\* that does not read a request's map orders its channels itself.
Accepts(reads, set) == reads \/ \A n \in DOMAIN set : set[n].type # "surround"
Applied(set) ==
  [n \in DOMAIN set |-> IF set[n].type = "none" THEN [set[n] EXCEPT !.type = "surround", !.map = <<>>] ELSE set[n]]

SetBusArrangements(arrs, reads) ==
  LET described == [n \in DOMAIN arrs |-> Described(arrs[n])]
      undescribed == [n \in DOMAIN arrs |-> Undescribed(arrs[n])]
      accepted == IF Accepts(reads, described) THEN described ELSE undescribed
  IN
  /\ ~ compActive
  /\ ports' = Applied(accepted)
  /\ busses' = [n \in DOMAIN arrs |-> [SetupAudioBusses(busses, ports')[n] EXCEPT !.arr = arrs[n]]]
  /\ UNCHANGED <<compActive, missedLatency, latencyTold>>

\* audio_ports.rescan() by the plug-in rebuilds the busses from what it says.
PortsChanged ==
  /\ ~ compActive /\ busses' = SetupAudioBusses(busses, ports)
  /\ UNCHANGED <<ports, compActive, missedLatency, latencyTold>>

----------------------------------------------------------------------------
(* Latency: an inactive plug-in cannot be asked.                            *)
GetLatencySamples ==
  /\ IF compActive THEN missedLatency' = FALSE /\ latencyTold' = TRUE
     ELSE missedLatency' = TRUE /\ latencyTold' = FALSE
  /\ UNCHANGED <<ports, busses, compActive>>

NeverAsked == FALSE
RestartForLatency == missedLatency

ComponentSetActive ==
  /\ compActive' = ~ compActive
  /\ IF compActive THEN UNCHANGED <<missedLatency, latencyTold>>
     ELSE missedLatency' = FALSE /\ latencyTold' = (latencyTold \/ RestartForLatency)
  /\ UNCHANGED <<ports, busses>>

BussesNext ==
  \/ \E n \in 1 .. 2 : ActivateBus(n)
  \/ \E a, b \in Arrangements, reads \in BOOLEAN :
       SetBusArrangements(<<a>>, reads) \/ SetBusArrangements(<<a, b>>, reads)
  \/ PortsChanged \/ GetLatencySamples \/ ComponentSetActive

BussesSpec == BussesInit /\ [][BussesNext]_bussesVars
----------------------------------------------------------------------------
BussesTypeOK ==
  /\ {compActive, missedLatency, latencyTold} \subseteq BOOLEAN
  /\ DOMAIN busses = DOMAIN ports /\ \A n \in DOMAIN busses : busses[n].active \in BOOLEAN

(* An arrangement whose speakers CLAP can name comes back from the plug-in  *)
(* unchanged, once it has been described to it, whatever rebuild follows.   *)
RoundTrip ==
  \A n \in DOMAIN ports :
    ports[n].map # <<>> => ArrangementFromChannelMap(ports[n].map) = {busses[n].arr}

(* A rebuild of the busses never deactivates one that the host activated.   *)
ActivationSurvives ==
  [][\A n \in DOMAIN busses \cap DOMAIN busses' :
       ports' # ports => busses'[n].active = busses[n].active]_bussesVars

(* A host that asked for the latency too early is told to ask again.        *)
LatencyKnown == compActive => latencyTold
=============================================================================
