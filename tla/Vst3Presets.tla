---------------------------- MODULE Vst3Presets ----------------------------
(***************************************************************************)
(* The preset selector of ClapAsVst3: a program-list parameter the wrapper  *)
(* invents over the preset index.  The host streams the selector's value    *)
(* into process() on the audio thread; loading happens in onIdle() on the   *)
(* main thread; the list itself arrives from the crawl thread.              *)
(* A normalized value is written as the program it names once all presets   *)
(* are published; while nothing is published every value decodes to 0.      *)
(***************************************************************************)
EXTENDS Integers, Sequences, SequencesExt
CONSTANTS
  FoundOrder,       \* the presets in the order the crawl meets them
  FinalOrder,       \* the same presets, sorted
  BlockInFlight,    \* the host may restore a state while a block is in process()
  ListPending       \* and before the wrapper has published the crawled list

VARIABLES found, crawled, listChanged,      \* the shared index and its news
          published, selector,             \* the selector's size and value
          hostValue,                       \* what the host streams
          request, inEffect,               \* _presetLoadRequest, _presetIndexInEffect
          held,                            \* what the plug-in holds
          audio, idle,                     \* locals of the two threads
          picked                           \* the user chose a program since the last load
presetVars == <<found, crawled, listChanged, published, selector, hostValue, request, inEffect,
                held, audio, idle, picked>>

kNoPresetRequest == -1
kAdoptNextPresetValue == -2
Presets == Range(FinalOrder)
Count == Len(FinalOrder)
Program == 0 .. Count - 1
PresetList == IF crawled THEN FinalOrder ELSE SubSeq(FoundOrder, 1, found)
ASSUME PresetsAssumption ==
  /\ FinalOrder \in Seq(Presets) /\ FoundOrder \in Seq(Presets) /\ Len(FoundOrder) = Count
  /\ "project" \notin Presets

IndexOf(p) == CHOOSE n \in 0 .. Len(PresetList) - 1 : PresetList[n + 1] = p

\* asClapValue(): one plain value while the selector has no steps.
Decoded(value) == IF published > 1 THEN value ELSE 0

\* createPresetSelector(): only a completed crawl is published.
SetupPresets ==
  /\ crawled \in BOOLEAN /\ found = IF crawled THEN Count ELSE 0
  /\ published = IF crawled THEN Count ELSE 0
  /\ listChanged = crawled
  /\ selector = 0

PresetsInit ==
  /\ SetupPresets
  /\ hostValue \in Program /\ request = kNoPresetRequest /\ inEffect = -1 /\ held = "default"
  /\ audio = [at |-> "out", value |-> 0, current |-> 0] /\ idle = [at |-> "out", value |-> 0]
  /\ picked = FALSE

CrawlFinds ==
  /\ ~ crawled /\ found < Count /\ found' = found + 1
  /\ UNCHANGED <<crawled, listChanged, published, selector, hostValue, request, inEffect, held, audio, idle, picked>>

OnPresetIndexComplete ==
  /\ ~ crawled /\ found = Count /\ crawled' = TRUE /\ listChanged' = TRUE
  /\ UNCHANGED <<found, published, selector, hostValue, request, inEffect, held, audio, idle, picked>>

----------------------------------------------------------------------------
(* The audio thread: onRequestPresetLoad() from process().                  *)
ByAudio == UNCHANGED <<found, crawled, listChanged, published, selector, hostValue, held, idle, picked>>

ProcessSelector ==
  /\ ByAudio /\ UNCHANGED <<request, inEffect>>
  /\ audio.at = "out"
  /\ audio' = [at |-> "decide", value |-> Decoded(hostValue), current |-> request]

\* A compare-and-exchange that lost reads the new request and decides again.
Lost == request # audio.current /\ audio' = [audio EXCEPT !.current = request] /\ UNCHANGED <<request, inEffect>>

OnRequestPresetLoad ==
  /\ ByAudio
  /\ audio.at = "decide"
  /\ \/ /\ audio.current = kAdoptNextPresetValue
        /\ \/ Lost
           \/ /\ request = audio.current /\ request' = kNoPresetRequest
              /\ audio' = [audio EXCEPT !.at = "adopt"] /\ UNCHANGED inEffect
     \/ /\ audio.current # kAdoptNextPresetValue /\ audio.value = inEffect
        /\ audio' = [audio EXCEPT !.at = "out"] /\ UNCHANGED <<request, inEffect>>
     \/ /\ audio.current # kAdoptNextPresetValue /\ audio.value # inEffect
        /\ \/ Lost
           \/ /\ request = audio.current /\ request' = audio.value
              /\ audio' = [audio EXCEPT !.at = "out"] /\ UNCHANGED inEffect

AdoptValue ==
  /\ ByAudio /\ UNCHANGED request
  /\ audio.at = "adopt"
  /\ inEffect' = audio.value /\ audio' = [audio EXCEPT !.at = "out"]

----------------------------------------------------------------------------
(* The main thread.                                                         *)
MoveSelectorTo(index) == selector' = index /\ hostValue' = IF selector = index THEN hostValue ELSE index

\* preset_loaded(): the selector follows when it already publishes the preset.
PresetLoaded(p) ==
  IF \E n \in 1 .. Len(PresetList) : PresetList[n] = p
  THEN /\ inEffect' = IndexOf(p)
       /\ IF IndexOf(p) < published THEN MoveSelectorTo(IndexOf(p)) ELSE UNCHANGED <<selector, hostValue>>
  ELSE UNCHANGED <<inEffect, selector, hostValue>>

OnMain == idle.at = "out" /\ UNCHANGED <<found, crawled, listChanged, published, audio, idle>>

\* The one store that drops a queued request and arms the adopt.
DropOnly == kNoPresetRequest
AfterRestore == kAdoptNextPresetValue

\* setState(), with the selector value the host stored beside the state.
SetState ==
  /\ OnMain /\ UNCHANGED inEffect
  /\ audio.at = "out" \/ BlockInFlight
  /\ published = Count \/ ListPending
  /\ held' = "project" /\ request' = AfterRestore /\ picked' = FALSE
  /\ hostValue' \in Program /\ selector' \in {selector, hostValue'}

UserPicks ==
  /\ OnMain /\ UNCHANGED <<request, inEffect, held>>
  /\ published = Count /\ hostValue' \in Program \ {hostValue} /\ selector' = hostValue'
  /\ picked' = TRUE

\* The plug-in's own editor loads a preset.
PluginLoads(p) ==
  /\ OnMain /\ UNCHANGED <<request>>
  /\ held' = p /\ picked' = FALSE /\ PresetLoaded(p)

----------------------------------------------------------------------------
(* onIdle(), under _mainThreadLock.                                         *)
ByIdle == UNCHANGED <<found, crawled, audio>>

\* Only an actual request is taken; an armed adopt stays.
TakeRequest ==
  /\ ByIdle /\ UNCHANGED <<listChanged, published, selector, hostValue, inEffect, held, picked>>
  /\ idle.at = "out"
  /\ IF request >= 0 THEN request' = kNoPresetRequest /\ idle' = [at |-> "load", value |-> request]
     ELSE UNCHANGED request /\ idle' = [at |-> "list", value |-> 0]

LoadRequested ==
  /\ ByIdle /\ UNCHANGED <<request, listChanged, published>>
  /\ idle.at = "load" /\ idle' = [idle EXCEPT !.at = "list"]
  /\ LET index == IF idle.value < published THEN idle.value ELSE published - 1 IN
     IF published > 0 /\ index # inEffect
     THEN held' = PresetList[index + 1] /\ picked' = FALSE /\ PresetLoaded(held')
     ELSE UNCHANGED <<selector, hostValue, inEffect, held, picked>>

GrowList ==
  /\ ByIdle /\ UNCHANGED <<selector, hostValue, request, inEffect, held, picked>>
  /\ idle.at = "list" /\ audio.at = "out"
  /\ listChanged' = FALSE
  /\ IF listChanged /\ crawled /\ published # Count
     THEN published' = Count /\ idle' = [idle EXCEPT !.at = "move"]
     ELSE UNCHANGED published /\ idle' = [idle EXCEPT !.at = "out"]

CatchUp ==
  /\ ByIdle /\ UNCHANGED <<request, listChanged, published, inEffect, held, picked>>
  /\ idle.at = "move" /\ idle' = [idle EXCEPT !.at = "out"]
  /\ IF inEffect \in Program THEN MoveSelectorTo(inEffect) ELSE UNCHANGED <<selector, hostValue>>

PresetsNext ==
  \/ CrawlFinds \/ OnPresetIndexComplete
  \/ ProcessSelector \/ OnRequestPresetLoad \/ AdoptValue
  \/ SetState \/ UserPicks \/ (\E p \in Presets : PluginLoads(p))
  \/ TakeRequest \/ LoadRequested \/ GrowList \/ CatchUp

PresetsSpec == PresetsInit /\ [][PresetsNext]_presetVars
----------------------------------------------------------------------------
PresetsTypeOK ==
  /\ found \in 0 .. Count /\ {crawled, listChanged, picked} \subseteq BOOLEAN
  /\ published \in {0, Count} /\ selector \in Program /\ hostValue \in Program
  /\ request \in Program \cup {kNoPresetRequest, kAdoptNextPresetValue} /\ inEffect \in Program \cup {-1}
  /\ held \in Presets \cup {"default", "project"}

(* "A project load is not a program change, and the preset selector must    *)
(* not be allowed to undo one": onIdle() loads a preset over the restored   *)
(* state only after the user has chosen a program.                          *)
RestoredStateSurvives ==
  [][held = "project" /\ held' # held /\ idle.at = "load" => picked]_presetVars

=============================================================================
