---------------------------- MODULE PresetIndex ----------------------------
(***************************************************************************)
(* Clap::PresetIndex: the wrapper as a CLAP preset indexer.  One crawl      *)
(* thread asks every provider of the library for its presets and sorts     *)
(* them; plug-in instances register a listener and are told when the list  *)
(* is final.  resetCache() ends the crawl before the library is unloaded.  *)
(* The kinds of location, paths, load keys and names are small numbers     *)
(* that keep the order of the strings; 0 is the empty one.                 *)
(***************************************************************************)
EXTENDS Integers, Sequences, FiniteSets, TLC, SequencesExt
CONSTANTS
  Instances,        \* wrapped plug-in instances that share the index
  Libraries,        \* what the hosted library may offer: sequences of providers
  Disks,            \* what may be on the disk: path -> [is, files]
  OurId,            \* the plug-in the index is for
  kMaxPresetsPerLocation,
  kMaxCrawlDepth

VARIABLES
  library, disk,    \* chosen once
  crawl,            \* the crawl thread: where it is, and its locals
  presets, collections, complete, abandon,
  cached,           \* the index is in the process-wide cache
  listeners,        \* instances whose listener is registered, in token order
  ceiling, last,    \* locals of finish(), as positions in token order
  inCall,           \* the instance finish() is calling, NoCall for none
  wrapper,          \* each instance: before, registered, told, removing, removed
  shown,            \* the names each instance read from the index after it was told
  resetting         \* resetCache(): "no", "joining", "done"

indexVars == <<library, disk, crawl, presets, collections, complete, abandon, cached, listeners,
          ceiling, last, inCall, wrapper, shown, resetting>>

NoCall == "none"
Token(i) == CHOOSE n \in 1 .. Len(listeners) : listeners[n].of = i
IndexIdle == [at |-> "none", p |-> 0, l |-> 0, todo |-> {}, seen |-> 0, collected |-> <<>>,
         threw |-> FALSE]

\* declare_filetype drops the dot and the case; the empty extension stands for every file.
NormalizeExtension(x) == [x EXCEPT !.dot = FALSE, !.upper = FALSE]

MatchesExtension(provider, file) ==
  \E x \in provider.extensions :
    NormalizeExtension(x).name \in {"", NormalizeExtension(file.ext).name}

DeclareLocation(loc) ==
  \/ loc.kind = 0 /\ loc.path # 0
  \/ loc.kind = 1 /\ loc.path = 0

Locations(provider) == SelectSeq(provider.locations, DeclareLocation)

\* A preset with plug-in ids that do not include ours is dropped as its file ends.
FinishFile(found) == SelectSeq(found, LAMBDA e : e.ids = {} \/ OurId \in e.ids)

BeginPreset(kind, path, e) == [kind |-> kind, location |-> path, key |-> e.key, name |-> e.name, ids |-> e.ids]

GetMetadata(kind, path, content) ==
  FinishFile([n \in 1 .. Len(content) |-> BeginPreset(kind, path, content[n])])

DisplayName(e) ==
  CASE e.name # 0 -> <<"name", e.name>>
    [] e.name = 0 /\ e.key # 0 -> <<"key", e.key>>
    [] e.name = 0 /\ e.key = 0 /\ e.location # 0 -> <<"file", e.location>>
    [] OTHER -> <<"Preset">>

Before(a, b) ==
  \/ a.kind < b.kind
  \/ a.kind = b.kind /\ a.location < b.location
  \/ a.kind = b.kind /\ a.location = b.location /\ a.key < b.key

AsFound(list) == list
Sorted(list) == SortSeq(list, Before)

IndexInit ==
  /\ library \in Libraries /\ disk \in Disks
  /\ crawl = IndexIdle /\ presets = <<>> /\ collections = {} /\ complete = FALSE /\ abandon = FALSE
  /\ cached = FALSE /\ listeners = <<>> /\ ceiling = 0 /\ last = 0 /\ inCall = NoCall
  /\ wrapper = [i \in Instances |-> "before"] /\ shown = [i \in Instances |-> <<>>]
  /\ resetting = "no"

fixed == <<library, disk>>
index == <<crawl, presets, collections, complete, abandon, ceiling, last>>

\* forPlugin: the first instance starts the crawl, the others share it.
ForPlugin(i) ==
  /\ wrapper[i] = "before" /\ resetting = "no"
  /\ cached' = TRUE
  /\ crawl' = IF cached THEN crawl ELSE [IndexIdle EXCEPT !.at = "provider", !.p = 1]
  /\ wrapper' = [wrapper EXCEPT ![i] = "holding"]
  /\ UNCHANGED <<fixed, presets, collections, complete, abandon, listeners, ceiling, last, inCall, shown, resetting>>

----------------------------------------------------------------------------
(* The crawl thread.                                                        *)
Crawling(at) == crawl.at = at /\ UNCHANGED <<fixed, cached, wrapper, shown, resetting, listeners, abandon>>

Provider == library[crawl.p]

NextProvider ==
  /\ Crawling("provider")
  /\ IF crawl.p > Len(library) \/ abandon
     THEN crawl' = [crawl EXCEPT !.at = "sort"] /\ UNCHANGED collections
     ELSE IF Provider.usable
     THEN /\ crawl' = [crawl EXCEPT !.at = "location", !.l = 1, !.collected = <<>>]
          /\ collections' = collections \cup Provider.soundpacks
     ELSE crawl' = [crawl EXCEPT !.p = @ + 1] /\ UNCHANGED collections
  /\ UNCHANGED <<presets, complete, ceiling, last, inCall>>

Collect(more) == [crawl EXCEPT !.l = @ + 1, !.collected = @ \o more]

NextLocation ==
  /\ Crawling("location")
  /\ UNCHANGED <<presets, collections, complete, ceiling, last, inCall>>
  /\ crawl' =
       IF crawl.l > Len(Locations(Provider)) \/ abandon THEN [crawl EXCEPT !.at = "append"]
       ELSE LET loc == Locations(Provider)[crawl.l] IN
         CASE loc.kind = 1 -> Collect(GetMetadata(1, 0, Provider.inside))
           [] loc.kind = 0 /\ disk[loc.path].is = "file" ->
                Collect(GetMetadata(0, loc.path, disk[loc.path].content))
           [] loc.kind = 0 /\ disk[loc.path].is = "directory" ->
                [crawl EXCEPT !.at = "directory", !.todo = disk[loc.path].files, !.seen = 0]
           [] OTHER -> Collect(<<>>)

Ignored(file) == file.depth > kMaxCrawlDepth \/ ~ MatchesExtension(Provider, file)

\* The file system hands the files over in any order.
NextFile ==
  /\ Crawling("directory")
  /\ UNCHANGED <<presets, collections, complete, ceiling, last, inCall>>
  /\ \/ /\ crawl.todo = {} \/ abandon
        /\ crawl' = [crawl EXCEPT !.at = "location", !.l = @ + 1]
     \/ /\ ~ abandon
        /\ \E f \in crawl.todo :
             crawl' =
               IF Ignored(f) THEN [crawl EXCEPT !.todo = @ \ {f}]
               ELSE IF crawl.seen + 1 > kMaxPresetsPerLocation
               THEN [crawl EXCEPT !.at = "location", !.l = @ + 1, !.todo = {}]
               ELSE [crawl EXCEPT !.todo = @ \ {f}, !.seen = @ + 1,
                                  !.collected = @ \o GetMetadata(0, f.path, f.content)]

EndProvider ==
  /\ Crawling("append")
  /\ presets' = presets \o crawl.collected
  /\ crawl' = [crawl EXCEPT !.at = "provider", !.p = @ + 1, !.collected = <<>>]
  /\ UNCHANGED <<collections, complete, ceiling, last, inCall>>

SortPresets ==
  /\ Crawling("sort")
  /\ presets' = Sorted(presets)
  /\ crawl' = [crawl EXCEPT !.at = "complete"]
  /\ UNCHANGED <<collections, complete, ceiling, last, inCall>>

\* Plug-in code or the file system throws: what was appended stays, unsorted.
CrawlThrows ==
  /\ \E at \in {"provider", "location", "directory"} : Crawling(at)
  /\ crawl' = [IndexIdle EXCEPT !.at = "complete", !.threw = TRUE]
  /\ UNCHANGED <<presets, collections, complete, ceiling, last, inCall>>

\* finish(): listeners that register after the ceiling was read see complete themselves.
Complete ==
  /\ Crawling("complete")
  /\ complete' = TRUE /\ crawl' = [crawl EXCEPT !.at = "ceiling"]
  /\ UNCHANGED <<presets, collections, ceiling, last, inCall>>

ReadCeiling ==
  /\ Crawling("ceiling")
  /\ ceiling' = Len(listeners) /\ crawl' = [crawl EXCEPT !.at = "pick"]
  /\ UNCHANGED <<presets, collections, complete, last, inCall>>

\* Mutants: the last listener is missed; the ceiling is not looked at.
BelowCeiling(n) == last < n /\ n < ceiling /\ listeners[n].live
Anyone(n) == last < n /\ listeners[n].live
Pickable(n) == last < n /\ n <= ceiling /\ listeners[n].live

PickListener ==
  /\ Crawling("pick")
  /\ UNCHANGED <<presets, collections, complete, ceiling>>
  /\ LET due == {n \in 1 .. Len(listeners) : Pickable(n)} IN
     IF due = {} THEN crawl' = [crawl EXCEPT !.at = "done"] /\ UNCHANGED <<last, inCall>>
     ELSE LET n == CHOOSE k \in due : \A j \in due : k <= j IN
          /\ last' = n /\ inCall' = listeners[n].of
          /\ crawl' = [crawl EXCEPT !.at = "call"]

CallListener ==
  /\ crawl.at = "call"
  /\ wrapper' = [wrapper EXCEPT ![inCall] = IF @ = "registered" THEN "told" ELSE @]
  /\ crawl' = [crawl EXCEPT !.at = "return"]
  /\ UNCHANGED <<fixed, presets, collections, complete, abandon, cached, listeners, ceiling, last, inCall, shown, resetting>>

EndCall ==
  /\ Crawling("return")
  /\ inCall' = NoCall /\ crawl' = [crawl EXCEPT !.at = "pick"]
  /\ UNCHANGED <<presets, collections, complete, ceiling, last>>

CrawlStep ==
  \/ NextProvider \/ NextLocation \/ NextFile \/ EndProvider \/ SortPresets
  \/ Complete \/ ReadCeiling \/ PickListener \/ CallListener \/ EndCall

----------------------------------------------------------------------------
(* The instances, on the host's threads.                                    *)
Outside == UNCHANGED <<fixed, crawl, presets, collections, complete, cached, ceiling, last, inCall>>

AddCompletionListener(i) ==
  /\ Outside /\ UNCHANGED <<abandon, shown, resetting>>
  /\ wrapper[i] = "holding"
  /\ listeners' = Append(listeners, [of |-> i, live |-> TRUE])
  /\ wrapper' = [wrapper EXCEPT ![i] = "registered"]

\* A listener that registers after the crawl has finished is called at once.
TellLate(i) ==
  /\ Outside /\ UNCHANGED <<abandon, listeners, shown, resetting>>
  /\ wrapper[i] = "registered" /\ complete
  /\ wrapper' = [wrapper EXCEPT ![i] = "told"]

ReadPresets(i) ==
  /\ Outside /\ UNCHANGED <<abandon, listeners, wrapper, resetting>>
  /\ wrapper[i] = "told"
  /\ shown' = [shown EXCEPT ![i] = [n \in 1 .. Len(presets) |-> DisplayName(presets[n])]]

ReturnAtOnce(i) == TRUE
MayReturn(i) == inCall # i

RemoveCompletionListener(i) ==
  /\ Outside /\ UNCHANGED <<abandon, shown, resetting>>
  /\ wrapper[i] \in {"registered", "told"}
  /\ listeners' = [listeners EXCEPT ![Token(i)].live = FALSE]
  /\ wrapper' = [wrapper EXCEPT ![i] = "removing"]

RemovalReturns(i) ==
  /\ Outside /\ UNCHANGED <<abandon, listeners, shown, resetting>>
  /\ wrapper[i] = "removing" /\ MayReturn(i)
  /\ wrapper' = [wrapper EXCEPT ![i] = "removed"]

ResetCache ==
  /\ Outside /\ UNCHANGED <<listeners, wrapper, shown>>
  /\ resetting = "no" /\ cached
  /\ abandon' = TRUE /\ resetting' = "joining"

ResetReturns ==
  /\ Outside /\ UNCHANGED <<abandon, listeners, wrapper, shown>>
  /\ resetting = "joining" /\ crawl.at = "done"
  /\ resetting' = "done"

IndexNext ==
  \/ CrawlStep \/ CrawlThrows \/ ResetCache \/ ResetReturns
  \/ \E i \in Instances : ForPlugin(i) \/ AddCompletionListener(i) \/ TellLate(i)
       \/ ReadPresets(i) \/ RemoveCompletionListener(i) \/ RemovalReturns(i)

IndexFairness ==
  /\ WF_indexVars(CrawlStep) /\ WF_indexVars(ResetReturns)
  /\ \A i \in Instances : WF_indexVars(TellLate(i)) /\ WF_indexVars(RemovalReturns(i))

IndexSpec == IndexInit /\ [][IndexNext]_indexVars /\ IndexFairness

----------------------------------------------------------------------------
PresetTypeOK ==
  /\ library \in Libraries /\ disk \in Disks
  /\ crawl.at \in {"none", "provider", "location", "directory", "append", "sort", "complete",
                   "ceiling", "pick", "call", "return", "done"}
  /\ {complete, abandon, cached} \subseteq BOOLEAN
  /\ \A n \in 1 .. Len(listeners) : listeners[n] \in [of : Instances, live : BOOLEAN]
  /\ last <= ceiling /\ ceiling <= Len(listeners)
  /\ inCall \in Instances \cup {NoCall}
  /\ wrapper \in [Instances -> {"before", "holding", "registered", "told", "removing", "removed"}]
  /\ resetting \in {"no", "joining", "done"}

(* removeCompletionListener() returns only once the listener is neither     *)
(* running nor able to run again: a call never reaches a destroyed instance. *)
NoCallAfterRemoval == inCall # NoCall => wrapper[inCall] # "removed"

\* Every preset of ours that the library declares and the disk holds, whatever the order.
Wanted(provider) ==
  UNION {LET loc == Locations(provider)[n] IN
         CASE loc.kind = 1 -> Range(GetMetadata(1, 0, provider.inside))
           [] loc.kind = 0 /\ disk[loc.path].is = "file" -> Range(GetMetadata(0, loc.path, disk[loc.path].content))
           [] loc.kind = 0 /\ disk[loc.path].is = "gone" -> {}
           [] loc.kind = 0 /\ disk[loc.path].is = "directory" ->
                UNION {Range(GetMetadata(0, f.path, f.content)) :
                  f \in {g \in disk[loc.path].files : g.depth <= kMaxCrawlDepth /\ MatchesExtension(provider, g)}}
         : n \in 1 .. Len(Locations(provider))}

TheList == SetToSortSeq(UNION {Wanted(library[p]) : p \in {q \in 1 .. Len(library) : library[q].usable}}, Before)

Overflows ==
  \E path \in DOMAIN disk : disk[path].is = "directory" /\ \E p \in 1 .. Len(library) :
    Cardinality({f \in disk[path].files : MatchesExtension(library[p], f)}) > kMaxPresetsPerLocation

(* A host stores the index of a program, not its identity: an instance that *)
(* was told sees the same numbering however the file system ordered the     *)
(* crawl.  A crawl cut short, by an exception, by resetCache() or by a      *)
(* folder above the limit, promises nothing.                                *)
SameNumbersEveryTime ==
  \A i \in Instances :
    shown[i] # <<>> /\ ~ abandon /\ ~ crawl.threw /\ ~ Overflows
      => shown[i] = [n \in 1 .. Len(TheList) |-> DisplayName(TheList[n])]

(* No listener waits for an event that has already happened: whether it     *)
(* registers before, while or after finish() runs, it is told.              *)
EveryListenerTold == \A i \in Instances : wrapper[i] = "registered" ~> wrapper[i] # "registered"
=============================================================================
