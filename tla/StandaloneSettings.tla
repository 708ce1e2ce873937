------------------------- MODULE StandaloneSettings -------------------------
(***************************************************************************)
(* The ports the user chose, from launch to launch (standalone_settings.   *)
(* cpp, standalone_host_midi.cpp): saved by id and by name, against ports  *)
(* that come and go, names that carry a port's index (rtmidi's on          *)
(* windows), and builds from before the ids, which rewrite the names and   *)
(* keep the ids as keys they do not know.                                  *)
(***************************************************************************)
EXTENDS Integers, Sequences, FiniteSets, SequencesExt

CONSTANTS
  Ports,        \* numbers, in the order they are listed
  Device        \* a port's device: what two identical devices share

VARIABLES
  indexed,      \* whether the names older builds know carry the index
  connected,      \* the ports there are
  file,         \* standalone-settings.conf
  settings,     \* StandaloneSettings, while the standalone is up
  up,
  opened,       \* currentMidiInputIds
  chosen        \* what the user, or the plugin, chose last: every port, or these

settingsVars == <<indexed, connected, file, settings, up, opened, chosen>>

NoId == <<"no id", 0>>
Id(p) == <<"id", p>>
Default == [bindAll |-> TRUE, names |-> <<>>, ids |-> <<>>]
-----------------------------------------------------------------------------
(* The ports there are. *)

ListedPorts(ps) == SetToSortSeq(ps, <)

\* RtMidi's name, which the settings hold.
LegacyName(ps, p) ==
  <<Device[p], IF indexed THEN Cardinality({q \in ps : q < p}) ELSE 0>>

PortsWithId(ps, reference) == {p \in ps : Id(p) = reference}

Least(ps) == CHOOSE p \in ps : \A q \in ps : p <= q

\* The first port not taken yet that a reference names: two identical devices share a name.
UntakenPorts(ps, reference, taken) ==
  LET free == {p \in ps : Id(p) \notin taken}
      byId == {p \in free : Id(p) = reference}
  IN IF byId # {} THEN byId ELSE {p \in free : LegacyName(ps, p) = reference}

\* Mutant: saved ids count whatever the names saved now.
AlwaysCount(names, ids) == Len(ids) = Len(names)

\* Whether the ids were saved with the names saved now.
SavedIdsCount(names, ids) ==
  Len(ids) = Len(names) /\ \A i \in DOMAIN names : ids[i].name = names[i]

\* Each saved port by its id, and by its name only where the id is gone or does not count.
ResolveSaved(ps, s) ==
  LET counts == SavedIdsCount(s.names, s.ids)
      after[i \in 0 .. Len(s.names)] ==
        IF i = 0 THEN [present |-> <<>>, absent |-> <<>>]
        ELSE LET r == after[i - 1]
                 taken == ToSet(r.present)
                 exact == IF counts
                          THEN {p \in PortsWithId(ps, s.ids[i].id) : Id(p) \notin taken} ELSE {}
                 found == IF exact # {} THEN exact ELSE UntakenPorts(ps, s.names[i], taken)
             IN IF found = {} THEN [r EXCEPT !.absent = Append(@, s.names[i])]
                ELSE [r EXCEPT !.present = Append(@, Id(Least(found)))]
  IN after[Len(s.names)]

\* The id that a name was saved with last.
IdSavedWith(old, reference) ==
  LET at == {i \in DOMAIN old : old[i].name = reference}
  IN IF at = {} THEN NoId ELSE old[CHOOSE i \in at : \A j \in at : j <= i].id

\* A chosen port that is not plugged in now is kept as it was saved.
SetChosenMidiPorts(s, ps, references) ==
  LET saved == [i \in DOMAIN references |->
        LET with == PortsWithId(ps, references[i])
        IN IF with # {} THEN [id |-> references[i], name |-> LegacyName(ps, Least(with))]
           ELSE [id |-> IdSavedWith(s.ids, references[i]), name |-> references[i]]]
  IN [bindAll |-> FALSE, ids |-> saved, names |-> [i \in DOMAIN saved |-> saved[i].name]]

\* A selection saved by names alone gains the ids of the ports they name now.
AddIds(s, ps) ==
  IF s.names = <<>> \/ SavedIdsCount(s.names, s.ids) \/ s.bindAll THEN s
  ELSE LET r == ResolveSaved(ps, s) IN SetChosenMidiPorts(s, ps, r.present \o r.absent)

OpenMidiPorts(ps, references, bindAll) ==
  IF bindAll THEN ps ELSE UNION {PortsWithId(ps, references[i]) : i \in DOMAIN references}
-----------------------------------------------------------------------------
SettingsInit ==
  /\ indexed \in BOOLEAN
  /\ connected \in SUBSET Ports
  /\ file = Default /\ settings = Default /\ up = FALSE /\ opened = {}
  /\ chosen = [all |-> TRUE, ports |-> {}]

\* mainCreatePlugin() and mainStartAudio(): a file without a key of a selection binds all.
LaunchWithSettings ==
  /\ ~up /\ up' = TRUE
  /\ settings' = AddIds(file, connected)
  /\ opened' = OpenMidiPorts(connected, ResolveSaved(connected, AddIds(file, connected)).present,
                             file.bindAll)
  /\ UNCHANGED <<indexed, connected, file, chosen>>

PortsChanged ==
  /\ \E p \in Ports : connected' = (connected \ {p}) \cup ({p} \ connected)
  /\ opened' = opened \cap connected'
  /\ UNCHANGED <<indexed, file, settings, up, chosen>>

\* The rows of the settings window: the ports there are, by id, and the saved ones that are
\* not, by name; none of those where every port is bound.
Ticked(s, ps) ==
  LET r == ResolveSaved(ps, s)
  IN IF s.bindAll THEN [i \in DOMAIN ListedPorts(ps) |-> Id(ListedPorts(ps)[i])]
     ELSE SelectSeq([i \in DOMAIN ListedPorts(ps) |-> Id(ListedPorts(ps)[i])],
                    LAMBDA id : id \in ToSet(r.present)) \o r.absent

\* While a chosen device is away the list shows an identical one in its place; a choice made
\* then is of the one shown, and is not followed here.
ShownInPlace ==
  \E q \in chosen.ports \ connected, p \in connected : Device[p] = Device[q]

\* The user ticks or unticks a port that is there, and presses OK.
OkWithPorts ==
  /\ up /\ ~ShownInPlace
  /\ \E p \in connected :
       LET on == Ticked(settings, connected)
           now == IF Id(p) \in ToSet(on) THEN SelectSeq(on, LAMBDA r : r # Id(p))
                  ELSE Append(on, Id(p))
           before == IF chosen.all THEN connected ELSE chosen.ports
       IN /\ settings' = SetChosenMidiPorts(settings, connected, now)
          /\ opened' = OpenMidiPorts(connected, now, FALSE)
          /\ chosen' = [all |-> FALSE, ports |-> IF p \in before THEN before \ {p}
                                                ELSE before \cup {p}]
  /\ file' = settings'
  /\ UNCHANGED <<indexed, connected, up>>

RequestMidiBindings ==
  /\ up
  /\ \/ /\ settings' = Default /\ chosen' = [all |-> TRUE, ports |-> {}]
        /\ opened' = connected
     \/ \E ps \in SUBSET connected :
          LET references == [i \in DOMAIN ListedPorts(ps) |-> Id(ListedPorts(ps)[i])]
          IN /\ settings' = SetChosenMidiPorts(settings, connected, references)
             /\ opened' = ps /\ chosen' = [all |-> FALSE, ports |-> ps]
  /\ file' = settings'
  /\ UNCHANGED <<indexed, connected, up>>

\* Any save: a window position, the state persistence, the end.
SaveStandaloneSettings ==
  /\ up /\ file' = settings
  /\ UNCHANGED <<indexed, connected, settings, up, opened, chosen>>

Exit ==
  /\ up /\ up' = FALSE
  /\ settings' = Default /\ opened' = {}
  /\ UNCHANGED <<indexed, connected, file, chosen>>

\* A build from before the ids, where names tell devices apart: the names are its own, the
\* ids go through it as keys it does not know.
OlderBuildSaves ==
  /\ ~up /\ ~indexed
  /\ \E ps \in SUBSET {p \in connected : \A q \in Ports \ {p} : Device[q] # Device[p]} :
       /\ file' = [file EXCEPT !.bindAll = FALSE,
                     !.names = [i \in DOMAIN ListedPorts(ps) |-> <<Device[ListedPorts(ps)[i]], 0>>]]
       /\ chosen' = [all |-> FALSE, ports |-> ps]
  /\ UNCHANGED <<indexed, connected, settings, up, opened>>

SettingsNext ==
  \/ LaunchWithSettings \/ PortsChanged \/ OkWithPorts \/ RequestMidiBindings
  \/ SaveStandaloneSettings \/ Exit \/ OlderBuildSaves

SettingsSpec == SettingsInit /\ [][SettingsNext]_settingsVars
-----------------------------------------------------------------------------
SettingsTypeOK ==
  /\ opened \subseteq Ports /\ connected \subseteq Ports /\ {indexed, up} \subseteq BOOLEAN

(***************************************************************************)
(* A selection saved again and again, its ports coming and going between   *)
(* by two names each, stays one: no port gathers a row for every name.     *)
(***************************************************************************)
SelectionStaysSmall == [](Len(settings.names) <= 2 * Cardinality(Ports))

(***************************************************************************)
(* A launch opens the ports that were chosen and are plugged in, however   *)
(* often one was away, its name moved meanwhile, or an older build wrote   *)
(* the file in between; and no other, save an identical device in the      *)
(* place of a chosen one that is away.                                     *)
(***************************************************************************)
LaunchOpensTheChosen ==
  [][ ~up /\ up' =>
        IF chosen.all THEN opened' = connected
        ELSE /\ chosen.ports \cap connected \subseteq opened'
             /\ \A p \in opened' \ chosen.ports :
                  \E q \in chosen.ports \ connected : Device[q] = Device[p] ]_settingsVars
=============================================================================
