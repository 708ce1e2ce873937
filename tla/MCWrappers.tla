----------------------------- MODULE MCWrappers -----------------------------
(***************************************************************************)
(* The plugin wrappers on small instances: VST3, Audio Unit and AAX.  What *)
(* is modelled of them apart shares no state, so a behaviour exercises one *)
(* component, `part', and leaves the others as they began.  The parts      *)
(* whose threads wait for one another are in MCSchedules.                  *)
(***************************************************************************)
EXTENDS Vst3Presets, Vst3Events, Vst3Picture, Vst3View, AuEvents, AuHostSide, AaxUnit, AaxEffect

CONSTANT Parts   \* the components a run exercises

VARIABLE part
partsVars == <<part, presetVars, eventsVars, paramVars, bussesVars, viewVars, portVars,
               eventVars, sideVars, aaxVars, effectVars, aaxEventsVars>>
-----------------------------------------------------------------------------
MCFound == <<"b", "c", "a">>
MCFinal == <<"a", "b", "c">>
-----------------------------------------------------------------------------
(* Note busses, parameters and speakers. *)

MCNotePorts == <<FALSE, TRUE>>
MCContexts == {{"bar", "cycling"}, {"music", "tempo", "cycle", "cycling"}}
Parameter(i, m, n) == [id |-> i, module |-> m, name |-> n, default |-> 0]
MCParamLists == {<<Parameter(0, <<>>, "gain"), Parameter(8, <<"A", "F">>, "cut")>>,
  <<Parameter(17, <<"F">>, "res"), Parameter(16, <<>>, "x"), Parameter(24, <<"F", "B">>, "y")>>}
MCSpeakers == (1 :> 11) @@ (2 :> 10) @@ (4 :> 13) @@ (8 :> 12)
-----------------------------------------------------------------------------
(* Plugins an Audio Unit wraps: effects and instruments, with a sidechain  *)
(* or not, that follow the main width, that refuse, that do not go back.   *)

Port(c, m) == [channels |-> c, main |-> m]
Layout(in, out) == [side \in Sides |-> IF side = "in" THEN in ELSE out]
Wrapped(first, others, back, conf, isEffect) ==
  [first |-> first, becomes |-> [r \in {Widths(l) : l \in others \cup {first}} |->
       CHOOSE l \in others \cup {first} : Widths(l) = r],
   goesBack |-> back, configurable |-> conf, effect |-> isEffect]
TwoTwo == Layout(<<Port(2, TRUE), Port(2, FALSE)>>, <<Port(2, TRUE)>>)
OneOne == Layout(<<Port(1, TRUE), Port(1, FALSE)>>, <<Port(1, TRUE)>>)
OneFixed == Layout(<<Port(1, TRUE), Port(2, FALSE)>>, <<Port(1, TRUE)>>)
OneTwo == Layout(<<Port(1, TRUE), Port(2, FALSE)>>, <<Port(2, TRUE)>>)
Wide == Layout(<<Port(1, TRUE)>>, <<Port(2, TRUE), Port(2, FALSE)>>)
Thin == Layout(<<Port(1, TRUE)>>, <<Port(1, TRUE)>>)
Silent == Layout(<<>>, <<>>)
ThinWide == [Wrapped(Thin, {}, FALSE, TRUE, TRUE) EXCEPT
  !.becomes = (Widths(Thin) :> Thin) @@ (Widths(Layout(<<Port(1, TRUE)>>, <<Port(2, TRUE)>>)) :> Wide)]
MCPlugins == {
  Wrapped(TwoTwo, {OneOne}, TRUE, TRUE, TRUE), Wrapped(TwoTwo, {OneFixed, OneTwo}, TRUE, TRUE, TRUE),
  Wrapped(TwoTwo, {OneOne, OneTwo}, FALSE, TRUE, TRUE), Wrapped(TwoTwo, {OneOne}, TRUE, FALSE, TRUE),
  Wrapped(Silent, {}, TRUE, FALSE, TRUE), Wrapped(Silent, {}, TRUE, FALSE, FALSE),
  Wrapped(Layout(<<Port(2, FALSE)>>, <<Port(2, TRUE)>>), {}, TRUE, TRUE, TRUE), ThinWide}

MCOutPortIds == <<0, 7>>
MCOrders == {<<>>, <<2, 1>>, <<1, 1>>}
-----------------------------------------------------------------------------
(* Plug-ins for Pro Tools: effects with and without a bypass of their own, *)
(* configurable or not, instruments and note effects.                      *)

ProPlugin(ins, outs, widths, midi, params) ==
  [ins |-> ins, outs |-> outs, configurable |-> widths # {}, widths |-> widths, midi |-> midi, params |-> params]
ProParameter(i, hides, isBypass) == [id |-> i, hidden |-> hides, bypass |-> isBypass]
MCProParameters == <<ProParameter("1", FALSE, FALSE), ProParameter("2", FALSE, TRUE), ProParameter("3", FALSE, TRUE)>>
MCAaxPlugins == {
  ProPlugin(<<2>>, <<2>>, {1, 2, 4}, FALSE, MCProParameters),
  ProPlugin(<<2>>, <<2>>, {}, TRUE, <<ProParameter("1", TRUE, TRUE), ProParameter("2", FALSE, FALSE)>>),
  ProPlugin(<<>>, <<>>, {}, TRUE, <<>>), ProPlugin(<<>>, <<>>, {}, FALSE, <<>>),
  ProPlugin(<<2, 2>>, <<2>>, {2}, FALSE, <<ProParameter("1", TRUE, TRUE), ProParameter("2", FALSE, TRUE)>>)}

Packet(s, t) == [status |-> s, time |-> t]
MCPackets == {<<>>, <<Packet("on", 0)>>, <<Packet("off", 1), Packet("bank", 1)>>,
              <<Packet("on", 1), Packet("system", 0), Packet("bend", 0)>>}
MCChanges == {<<>>, <<1>>, <<1, 2>>}
MCAnswers == {{"tempo"}, {"tempo", "playing", "timeline", "loop"}}
-----------------------------------------------------------------------------
\* The components a behaviour does not exercise begin in one state.
Init ==
  /\ part \in Parts
  /\ PresetsInit /\ (part = "presets" \/ (hostValue = 0 /\ ~crawled))
  /\ EventsInit /\ ParametersInit /\ BussesInit /\ ViewInit
  /\ AuEventsInit /\ BypassInit /\ ViewsInit
  /\ AaxInit /\ AaxEventsInit /\ (part = "aax events" \/ ~ cycle.prefersMidi)
  /\ AaxEffectInit /\ (part = "stems" \/ effect.plugin = CHOOSE p \in AaxPlugins : TRUE)
  /\ PortsInit /\ (part = "ports" \/ unit.plugin = CHOOSE p \in PortPlugins : TRUE)

Next ==
  /\ UNCHANGED part
  /\ (part # "presets" => UNCHANGED presetVars)
  /\ (part # "events" => UNCHANGED eventsVars)
  /\ (part # "parameters" => UNCHANGED paramVars)
  /\ (part # "busses" => UNCHANGED bussesVars)
  /\ (part # "view" => UNCHANGED viewVars)
  /\ (part # "ports" => UNCHANGED portVars)
  /\ (part # "queue" => UNCHANGED eventVars)
  /\ (part \notin {"bypass", "views"} => UNCHANGED sideVars)
  /\ (part # "aax" => UNCHANGED aaxVars)
  /\ (part \notin {"stems", "timers", "chunk", "aax view"} => UNCHANGED effectVars)
  /\ (part # "aax events" => UNCHANGED aaxEventsVars)
  /\ \/ part = "presets" /\ PresetsNext
     \/ part = "events" /\ EventsNext
     \/ part = "parameters" /\ ParametersNext
     \/ part = "busses" /\ BussesNext
     \/ part = "view" /\ ViewNext
     \/ part = "ports" /\ PortsNext
     \/ part = "queue" /\ AuEventsNext
     \/ part = "bypass" /\ BypassNext
     \/ part = "views" /\ AuViewsNext
     \/ part = "aax" /\ AaxNext
     \/ part = "stems" /\ StemsNext
     \/ part = "timers" /\ TimersNext
     \/ part = "chunk" /\ ChunkNext
     \/ part = "aax view" /\ AaxViewNext
     \/ part = "aax events" /\ AaxEventsNext

Spec == Init /\ [][Next]_partsVars
-----------------------------------------------------------------------------
WrappersTypeOK ==
  /\ PresetsTypeOK /\ EventsTypeOK /\ ParametersTypeOK /\ BussesTypeOK /\ ViewTypeOK
  /\ PortsTypeOK /\ AuEventsTypeOK /\ SideTypeOK

\* What the host set stays as it set it: a restored project is not overwritten by a preset
\* the user did not choose, and a rebuild deactivates no bus.
HostStateSurvives == RestoredStateSurvives /\ ActivationSurvives

\* Nothing goes astray between the two event formats: edits end at the host with the wrapper's
\* account of them, an expression reaches its note once, bytes and times are the block's own.
Vst3EventsArrive ==
  EditsBalance /\ ExpressionReachesItsNote /\ BytesRetained /\ TransportFresh

\* The host's picture of the plugin is the plugin's, however often it is rebuilt: ids, values,
\* speakers, latency.
Vst3PictureIsTrue == IdsNameOneParameter /\ ValuesFollow /\ RoundTrip /\ LatencyKnown /\ WrappersTypeOK

\* A GUI goes with the view it is in, and leaves no handler with a host's run loop.
GuisGoWithTheirViews == HandlersFollowRunLoop /\ GuiGoesWithView /\ GuiIsInALiveView

\* Each event of an Audio Unit arrives once, a recall replaces old edits only, the bypass
\* buttons agree, and the render writes as many channels as the element has.
AuHostAgrees ==
  /\ EachEventOnce /\ OnlyOldEditsReplaced /\ BypassAgrees
  /\ FormatsAgree /\ CachesTellTheTruth

\* Pro Tools hears silence or the plug-in and never an old buffer, through every restart; the
\* edits and the bypass it shows are the plug-in's; what it offers and saves can be had and
\* restored; and events, timers and views keep their order and their owners.
AaxIsSafe ==
  /\ AaxTypeOK /\ RendersAPlugin /\ StaysRemoved /\ NeverStaleOutput /\ IdlesTheLiving
  /\ EditsReachAax /\ BypassFollows
  /\ StemsCanBeHad /\ OneMasterBypass /\ NoLateTimer /\ ChunkIsOneState /\ ViewFollowsGui
  /\ EventsInOrder /\ PostsWithinBlocks
=============================================================================
