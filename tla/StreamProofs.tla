---------------------------- MODULE StreamProofs ----------------------------
(***************************************************************************)
(* The inductive invariants of the standalone host, for any devices,       *)
(* requests, saved settings and MIDI ports: of the stream and the settings *)
(* window over it (ScreenInv), of the audio callback (CallbackInv), and of *)
(* the saved MIDI choice.                                                  *)
(***************************************************************************)
EXTENDS MCStandalone, WellFoundedInduction, TLAPS
-----------------------------------------------------------------------------
(* The stream. *)

Rate == Nat \ {0}
Listings == UNION {[P -> Rate] : P \in SUBSET DOMAIN Devices}
Granted == [rate : Nat, frames : Nat]
ApiNames == {""} \cup {Apis[i] : i \in DOMAIN Apis} \cup {s.api : s \in Saved \ {NoFile}}

SettingsFiles ==
  [api : ApiNames, out : Ids, in : Ids, outUsed : BOOLEAN, inUsed : BOOLEAN, rate : Nat, buffer : Nat]

Hosts ==
  [api : ApiNames, backend : {"none", "closed", "open", "running", "died"}, listed : Listings,
   active : BOOLEAN, plugin : Granted, stream : Granted, rate : Nat, buffer : Nat,
   inDev : Ids, outDev : Ids, inUsed : BOOLEAN, outUsed : BOOLEAN, ins : Nat, outs : Nat,
   stopped : BOOLEAN, rateChanged : BOOLEAN, devicesChanged : BOOLEAN, reset : BOOLEAN,
   reopen : BOOLEAN, tries : 0 .. RetryLimit, due : BOOLEAN, lost : BOOLEAN,
   request : Requests \cup {NoRequest}, error : BOOLEAN, settings : SettingsFiles]

\* The plugin is activated for the stream, and a stream that runs has not ended.
StreamFits(h) ==
  /\ h.backend \in {"running", "died"} =>
       /\ h.active /\ h.plugin.rate = h.stream.rate /\ h.rate = h.stream.rate
       /\ h.stream.frames <= h.plugin.frames
  /\ h.backend = "running" => ~ h.stopped /\ ~ h.rateChanged

\* A host the program can be in, with a backend.
Sound(h) == h \in Hosts /\ StreamFits(h) /\ h.backend # "none"

\* A set of numbers has a smallest one.
LEMMA SmallestIs ==
  ASSUME NEW S \in SUBSET Nat, S # {}
  PROVE  Smallest(S) \in S /\ \A x \in S : Smallest(S) <= x
<1>1. PICK k \in S : \A j \in S : ~ (<<j, k>> \in OpToRel(<, Nat))
  BY NatLessThanWellFounded, WFMin, Zenon
<1>2. ASSUME NEW j \in S PROVE k <= j
  <2>1. OpToRel(<, Nat) = {p \in Nat \X Nat : p[1] < p[2]}
    BY Zenon DEF OpToRel
  <2>2. ~ (<<j, k>> \in {p \in Nat \X Nat : p[1] < p[2]})
    BY <1>1, <2>1, Zenon
  <2>3. j \in Nat /\ k \in Nat
    OBVIOUS
  <2> QED
    BY <2>2, <2>3
<1> QED
  BY <1>2 DEF Smallest

\* A set of numbers with a bound has a largest one.
LEMMA LargestIs ==
  ASSUME NEW S \in SUBSET Nat, S # {}, NEW bound \in Nat, \A x \in S : x <= bound
  PROVE  Largest(S) \in S
<1> DEFINE Below == {bound - x : x \in S}
<1>1. Below \in SUBSET Nat /\ Below # {}
  <2>1. \A x \in S : bound - x \in Nat
    OBVIOUS
  <2>2. PICK x \in S : TRUE
    OBVIOUS
  <2>3. bound - x \in Below
    OBVIOUS
  <2> QED
    BY <2>1, <2>3
<1>2. Smallest(Below) \in Below /\ \A y \in Below : Smallest(Below) <= y
  BY <1>1, SmallestIs
<1>3. PICK k \in S : Smallest(Below) = bound - k
  BY <1>2
<1>4. ASSUME NEW x \in S PROVE x <= k
  <2>1. bound - k <= bound - x
    BY <1>2, <1>3
  <2>2. x \in Nat /\ k \in Nat
    OBVIOUS
  <2> QED
    BY <2>1, <2>2
<1> QED
  BY <1>4 DEF Largest

\* Of some of the first numbers there is one for which a function is largest.
LEMMA OneIsMost ==
  ASSUME NEW n \in Nat, NEW B \in SUBSET (1 .. n), B # {}, NEW f, \A x \in 1 .. n : f[x] \in Nat
  PROVE  \E x \in B : \A y \in B : f[y] <= f[x]
<1> DEFINE Most(k) == \A C \in SUBSET (1 .. k) : C # {} => \E x \in C : \A y \in C : f[y] <= f[x]
           Bad == {k \in 0 .. n : ~ Most(k)}
<1>1. CASE Bad = {}
  <2>1. Most(n)
    BY <1>1
  <2> QED
    BY <2>1
<1>2. CASE Bad # {}
  <2> DEFINE k == Smallest(Bad)
  <2>1. k \in Bad /\ \A x \in Bad : k <= x
    <3> HIDE DEF Bad
    <3>1. Bad \in SUBSET Nat
      BY DEF Bad
    <3> QED
      BY <1>2, <3>1, SmallestIs
  <2> HIDE DEF k
  <2>2. k \in 0 .. n /\ ~ Most(k)
    BY <2>1
  <2>3. k # 0
    <3>1. 1 .. 0 = {}
      OBVIOUS
    <3>2. Most(0)
      BY <3>1
    <3> QED
      BY <2>2, <3>2
  <2>4. k - 1 \in 0 .. n /\ k - 1 \notin Bad
    <3>1. k - 1 \in 0 .. n
      BY <2>2, <2>3
    <3>2. k - 1 \in Bad => k <= k - 1
      BY <2>1
    <3> QED
      BY <2>2, <3>1, <3>2
  <2>5. Most(k - 1)
    BY <2>4
  <2>6. ASSUME NEW C \in SUBSET (1 .. k), C # {}
        PROVE  \E x \in C : \A y \in C : f[y] <= f[x]
    <3>1. CASE k \notin C
      <4>1. C \in SUBSET (1 .. k - 1)
        BY <2>2, <3>1
      <4> QED
        BY <2>5, <2>6, <4>1
    <3>2. CASE C = {k}
      <4>1. f[k] \in Nat
        BY <2>2, <2>3
      <4> QED
        BY <3>2, <4>1
    <3>3. CASE k \in C /\ C # {k}
      <4> DEFINE D == C \ {k}
      <4>1. D \in SUBSET (1 .. k - 1) /\ D # {}
        BY <2>2, <3>3
      <4>2. PICK x \in D : \A y \in D : f[y] <= f[x]
        BY <2>5, <4>1
      <4>3. \A y \in C : f[y] \in Nat
        BY <2>2
      <4>4. CASE f[k] <= f[x]
        BY <4>2, <4>4
      <4>5. CASE ~ (f[k] <= f[x])
        <5>1. \A y \in C : f[y] <= f[k]
          <6> SUFFICES ASSUME NEW y \in C PROVE f[y] <= f[k]
            OBVIOUS
          <6>1. y # k => f[y] <= f[x]
            BY <4>2
          <6>2. f[y] \in Nat /\ f[k] \in Nat /\ f[x] \in Nat
            BY <3>3, <4>2, <4>3
          <6> QED
            BY <4>5, <6>1, <6>2
        <5> QED
          BY <3>3, <5>1
      <4> QED
        BY <4>4, <4>5
    <3> QED
      BY <3>1, <3>2, <3>3
  <2> QED
    BY <2>2, <2>6
<1> QED
  BY <1>1, <1>2
\* Of the devices: their numbers, rates and channels.
LEMMA DevicesAre ==
  /\ DOMAIN Devices \subseteq Ids /\ NoDevice \in Ids /\ DOMAIN Devices \subseteq Nat
  /\ \A d \in DOMAIN Devices :
       /\ Devices[d].rates \in SUBSET Rate /\ Devices[d].rates # {}
       /\ Devices[d].ins \in Nat /\ Devices[d].outs \in Nat
  /\ \A d \in DOMAIN Devices : Smallest(Devices[d].rates) \in Rate
<1>1. /\ DOMAIN Devices \subseteq Ids /\ NoDevice \in Ids /\ DOMAIN Devices \subseteq Nat
      /\ \A d \in DOMAIN Devices :
           /\ Devices[d].rates \in SUBSET Rate /\ Devices[d].rates # {}
           /\ Devices[d].ins \in Nat /\ Devices[d].outs \in Nat
  BY StreamAssumption DEF StreamAssumption, Ids, NoDevice, Rate
<1>2. ASSUME NEW d \in DOMAIN Devices PROVE Smallest(Devices[d].rates) \in Rate
  <2>1. Devices[d].rates \in SUBSET Nat
    BY <1>1 DEF Rate
  <2> QED
    BY <1>1, <2>1, SmallestIs
<1> QED
  BY <1>1, <1>2

\* Of a list of devices.
LEMMA ListingsAre ==
  ASSUME NEW l \in Listings
  PROVE  DOMAIN l \subseteq DOMAIN Devices /\ \A d \in DOMAIN l : l[d] \in Rate
<1>1. PICK P \in SUBSET DOMAIN Devices : l \in [P -> Rate]
  BY DEF Listings
<1> QED
  BY <1>1

\* A list is of devices with their rates.
LEMMA IsListing ==
  ASSUME NEW P \in SUBSET DOMAIN Devices, NEW l, l \in [P -> Rate]
  PROVE  l \in Listings
BY DEF Listings

\* The buffer sizes offered, and the default one, are numbers.
LEMMA SizesAre ==
  /\ Smallest(OfferedSizes) \in Nat /\ Largest(OfferedSizes) \in Nat /\ DefaultSize \in Nat
<1>1. PICK m \in OfferedSizes : \A x \in OfferedSizes : x <= m
  BY StreamAssumption DEF StreamAssumption
<1>2. OfferedSizes \in SUBSET Nat /\ OfferedSizes # {} /\ DefaultSize \in Nat
  BY <1>1, StreamAssumption DEF StreamAssumption
<1>3. Smallest(OfferedSizes) \in OfferedSizes
  BY <1>2, SmallestIs
<1>4. Largest(OfferedSizes) \in OfferedSizes
  BY <1>1, <1>2, LargestIs
<1> QED
  BY <1>2, <1>3, <1>4

\* The devices a backend calls its defaults.
LEMMA DefaultDeviceIs ==
  ASSUME NEW h, h.listed \in Listings, NEW input
  PROVE  DefaultDevice(h, input) \in Ids /\ DefaultDevice(h, input) \in DOMAIN h.listed \cup {NoDevice}
<1> DEFINE fit == {d \in DOMAIN h.listed : (IF input THEN Devices[d].ins ELSE Devices[d].outs) > 0}
<1>1. fit \in SUBSET Nat /\ fit \subseteq DOMAIN h.listed /\ DOMAIN h.listed \subseteq Ids
  BY ListingsAre, DevicesAre
<1>2. DefaultDevice(h, input) = IF fit = {} THEN NoDevice ELSE Smallest(fit)
  BY DEF DefaultDevice
<1> HIDE DEF fit
<1>3. fit # {} => Smallest(fit) \in fit
  BY <1>1, SmallestIs
<1> QED
  BY <1>1, <1>2, <1>3, DevicesAre

\* The device that is opened in the place of one asked for.
LEMMA ResolveIs ==
  ASSUME NEW h, h.listed \in Listings, NEW d, NEW input
  PROVE  Resolve(h, d, input) \in Ids
<1>1. Known(h, d) => d \in Ids
  BY ListingsAre, DevicesAre DEF Known
<1> QED
  BY <1>1, DefaultDeviceIs DEF Resolve

\* The input that is opened when none was chosen.
LEMMA DefaultInputIs ==
  ASSUME NEW h, h.listed \in Listings
  PROVE  DefaultInputToOpen(h) \in Ids
<1> DEFINE better == {x \in DOMAIN h.listed : /\ Devices[x].interface /\ ~Devices[x].mic
                                              /\ Devices[x].ins > 0}
           most == {x \in better : \A y \in better : Devices[y].ins <= Devices[x].ins}
<1>1. better \subseteq DOMAIN Devices /\ most \subseteq better
  BY ListingsAre
<1>2. DefaultInputToOpen(h) \in
        {DefaultDevice(h, TRUE), NoDevice} \cup IF better = {} THEN {} ELSE {Smallest(most)}
  BY DEF DefaultInputToOpen
<1>3. better # {} => most # {}
  <2> SUFFICES ASSUME better # {} PROVE most # {}
    OBVIOUS
  <2> DEFINE f == [x \in DOMAIN Devices |-> Devices[x].ins]
  <2>1. DOMAIN Devices = 1 .. Len(Devices) /\ Len(Devices) \in Nat
    BY StreamAssumption DEF StreamAssumption
  <2>2. \A x \in 1 .. Len(Devices) : f[x] \in Nat
    BY <2>1, DevicesAre
  <2>3. better \in SUBSET (1 .. Len(Devices))
    BY <1>1, <2>1
  <2>4. \A x \in better : f[x] = Devices[x].ins
    BY <1>1
  <2> HIDE DEF better, f
  <2>5. PICK x \in better : \A y \in better : f[y] <= f[x]
    BY <2>1, <2>2, <2>3, OneIsMost
  <2> QED
    BY <2>4, <2>5
<1> HIDE DEF better, most
<1>4. better # {} => Smallest(most) \in most
  BY <1>1, <1>3, DevicesAre, SmallestIs
<1> QED
  BY <1>1, <1>2, <1>4, DefaultDeviceIs, DevicesAre

\* What is plugged in, of one api.
LEMMA RefreshIs ==
  ASSUME NEW h \in Hosts, plugged \in Listings
  PROVE  /\ RefreshDeviceList(h) \in Hosts
         /\ StreamFits(h) => StreamFits(RefreshDeviceList(h))
         /\ RefreshDeviceList(h).backend = h.backend /\ RefreshDeviceList(h).active = h.active
<1> DEFINE P == {x \in DOMAIN plugged : Devices[x].api = h.api}
           l == [d \in P |-> plugged[d]]
           k == RefreshDeviceList(h)
<1>1. l \in Listings
  <2>1. P \in SUBSET DOMAIN Devices /\ l \in [P -> Rate]
    BY ListingsAre
  <2> HIDE DEF l
  <2> QED
    BY <2>1, IsListing
<1>2. k = [h EXCEPT !.listed = l]
  BY DEF RefreshDeviceList
<1> HIDE DEF l, k
<1>3. k \in Hosts
  BY <1>1, <1>2 DEF Hosts
<1>4. /\ k.backend = h.backend /\ k.active = h.active /\ k.plugin = h.plugin
      /\ k.stream = h.stream /\ k.rate = h.rate /\ k.stopped = h.stopped
      /\ k.rateChanged = h.rateChanged
  BY <1>2 DEF Hosts
<1>5. StreamFits(h) => StreamFits(k)
  BY <1>4 DEF StreamFits
<1> QED
  BY <1>3, <1>4, <1>5 DEF k

\* The stream down and the plugin off.
Down(h) == DeactivatePlugin(StopAudioThread(h))

\* stopAudioThread() closes the stream of a backend, and deactivatePlugin() leaves the backend.
LEMMA StopIs ==
  ASSUME NEW h \in Hosts
  PROVE  /\ StopAudioThread(h) \in Hosts /\ StopAudioThread(h).backend \in {"none", "closed"}
         /\ h.backend # "none" => StopAudioThread(h).backend = "closed"
         /\ Down(h) \in Hosts /\ Down(h).backend = StopAudioThread(h).backend
<1> DEFINE s == StopAudioThread(h)
<1>1. s \in Hosts /\ s.backend \in {"none", "closed"} /\ (h.backend # "none" => s.backend = "closed")
  BY DEF Hosts, StopAudioThread
<1> HIDE DEF s
<1>2. DeactivatePlugin(s) \in Hosts /\ DeactivatePlugin(s).backend = s.backend
  BY <1>1, ZenonT(60) DEF Hosts, DeactivatePlugin
<1> QED
  BY <1>1, <1>2 DEF s, Down

\* A new api closes what ran.
LEMMA SetApiIs ==
  ASSUME NEW h \in Hosts, plugged \in Listings, NEW id
  PROVE  /\ SetAudioApi(h, id) \in Hosts /\ SetAudioApi(h, id).backend # "none"
         /\ StreamFits(h) => StreamFits(SetAudioApi(h, id))
<1>1. CASE h.backend # "none" /\ h.api = id
  BY <1>1 DEF SetAudioApi
<1>2. CASE ~ (h.backend # "none" /\ h.api = id)
  <2> DEFINE known == \E i \in DOMAIN Apis : Apis[i] = id
             name == IF known THEN id ELSE Apis[1]
             d == Down(h)
             k == [d EXCEPT !.backend = "closed", !.api = name]
  <2>1. SetAudioApi(h, id) = RefreshDeviceList(k)
    BY <1>2 DEF SetAudioApi, Down
  <2>2. name \in ApiNames
    BY StreamAssumption DEF StreamAssumption, ApiNames
  <2> HIDE DEF name
  <2>3. k \in Hosts /\ k.backend = "closed"
    <3>1. d \in Hosts
      BY StopIs
    <3> HIDE DEF d
    <3> QED
      BY <2>2, <3>1, ZenonT(60) DEF Hosts
  <2>4. StreamFits(k)
    BY <2>3 DEF StreamFits
  <2> HIDE DEF k
  <2> QED
    BY <2>1, <2>3, <2>4, RefreshIs
<1> QED
  BY <1>1, <1>2

\* There is a backend once guaranteeBackend() has run.
LEMMA GuaranteedIs ==
  ASSUME NEW h \in Hosts, plugged \in Listings
  PROVE  Guaranteed(h) \in Hosts /\ Guaranteed(h).backend # "none"
BY SetApiIs DEF Guaranteed

\* The rate a device is opened at.
LEMMA RateOfferedIs ==
  ASSUME NEW h, h.listed \in Listings, NEW d \in DOMAIN h.listed, NEW requested
  PROVE  RateOfferedBy(h, d, requested) \in Rate
<1>1. h.listed[d] \in Rate /\ d \in DOMAIN Devices
  BY ListingsAre
<1>2. h.listed[d] > 0
  BY <1>1 DEF Rate
<1>3. requested \in Devices[d].rates => requested \in Rate
  BY <1>1, DevicesAre
<1> QED
  BY <1>1, <1>2, <1>3 DEF RateOfferedBy

\* What a device grants of a stream asked of it.
LEMMA GrantsAre ==
  ASSUME NEW h \in Hosts, NEW used \in SUBSET DOMAIN h.listed, NEW rate \in Rate, NEW frames \in Nat,
         NEW g \in Grants(h, used, rate, frames)
  PROVE  g \in Granted /\ g.rate \in Rate
<1>1. PICK r \in {rate} \cup {h.listed[d] : d \in used}, f \in {frames, Smallest(OfferedSizes)} :
        g = [rate |-> r, frames |-> f]
  BY DEF Grants
<1>2. h.listed \in Listings
  BY DEF Hosts
<1>3. r \in Rate /\ f \in Nat
  BY <1>1, <1>2, SizesAre, ListingsAre
<1> QED
  BY <1>1, <1>3 DEF Granted, Rate

\* From a granted stream on: the plugin activated for it, or nothing.
LEMMA StartedIs ==
  ASSUME NEW h \in Hosts, NEW g \in Granted, g.rate \in Rate, NEW useIn, NEW useOut,
         useIn => h.inDev \in DOMAIN Devices, useOut => h.outDev \in DOMAIN Devices,
         ~ h.stopped, ~ h.rateChanged,
         NEW x \in Started(h, g, useIn, useOut)
  PROVE  Sound(x)
<1> DEFINE o == [h EXCEPT !.backend = "open", !.rate = g.rate, !.buffer = g.frames]
<1>1. /\ o \in Hosts /\ o.rate = g.rate /\ ~ o.stopped /\ ~ o.rateChanged
      /\ o.inDev = h.inDev /\ o.outDev = h.outDev
  BY ZenonT(60) DEF Hosts, Granted
<1>2. PICK a \in ActivatePlugin(o, g.rate, 2 * g.frames) :
        x \in IF ~ a.active THEN {Failed([a EXCEPT !.backend = "closed"])}
              ELSE {[a EXCEPT !.backend = "running", !.stream = g,
                              !.outs = IF useOut THEN Devices[a.outDev].outs ELSE 0,
                              !.ins = IF useIn THEN Devices[a.inDev].ins ELSE 0],
                    Failed(DeactivatePlugin([a EXCEPT !.backend = "closed"]))}
  BY DEF Started
<1> DEFINE p == [rate |-> g.rate, frames |-> 2 * g.frames]
<1>3. p \in Granted /\ p.rate = g.rate /\ g.frames <= p.frames
  BY DEF Granted
<1>4. ~ (g.rate <= 0)
  BY DEF Rate
<1>5. a \in {[o EXCEPT !.active = TRUE, !.plugin = p], DeactivatePlugin([o EXCEPT !.active = TRUE, !.plugin = p]),
             DeactivatePlugin(o)}
  BY <1>2, <1>4 DEF ActivatePlugin
<1> HIDE DEF o, p
<1>6. /\ a \in Hosts /\ a.rate = g.rate /\ ~ a.stopped /\ ~ a.rateChanged
      /\ a.inDev = h.inDev /\ a.outDev = h.outDev
      /\ a.active => a.plugin = p
  <2>1. CASE a = [o EXCEPT !.active = TRUE, !.plugin = p]
    BY <1>1, <1>3, <2>1, ZenonT(60) DEF Hosts
  <2>2. CASE a = DeactivatePlugin([o EXCEPT !.active = TRUE, !.plugin = p])
    BY <1>1, <1>3, <2>2, ZenonT(60) DEF Hosts, DeactivatePlugin
  <2>3. CASE a = DeactivatePlugin(o)
    BY <1>1, <2>3, ZenonT(60) DEF Hosts, DeactivatePlugin
  <2> QED
    BY <1>5, <2>1, <2>2, <2>3
<1>7. CASE x \in {Failed([a EXCEPT !.backend = "closed"]),
                  Failed(DeactivatePlugin([a EXCEPT !.backend = "closed"]))}
  <2> DEFINE c == [a EXCEPT !.backend = "closed"]
  <2>2. c \in Hosts /\ c.backend = "closed"
    BY <1>6 DEF Hosts
  <2> HIDE DEF c
  <2>3. DeactivatePlugin(c) \in Hosts /\ DeactivatePlugin(c).backend = "closed"
    BY <2>2, ZenonT(60) DEF Hosts, DeactivatePlugin
  <2>4. \A y \in Hosts : Failed(y) \in Hosts /\ Failed(y).backend = y.backend
    BY ZenonT(60) DEF Hosts, Failed
  <2>5. x \in {Failed(c), Failed(DeactivatePlugin(c))}
    BY <1>7 DEF c
  <2>1. x \in Hosts /\ x.backend = "closed"
    BY <2>2, <2>3, <2>4, <2>5
  <2> QED
    BY <2>1 DEF Sound, StreamFits
<1>8. CASE /\ a.active
           /\ x = [a EXCEPT !.backend = "running", !.stream = g,
                            !.outs = IF useOut THEN Devices[a.outDev].outs ELSE 0,
                            !.ins = IF useIn THEN Devices[a.inDev].ins ELSE 0]
  <2> DEFINE outs == IF useOut THEN Devices[a.outDev].outs ELSE 0
             ins == IF useIn THEN Devices[a.inDev].ins ELSE 0
  <2>1. outs \in Nat /\ ins \in Nat
    BY <1>6, DevicesAre
  <2>2. x = [a EXCEPT !.backend = "running", !.stream = g, !.outs = outs, !.ins = ins]
    BY <1>8
  <2> HIDE DEF outs, ins
  <2>3. x \in Hosts
    BY <1>6, <2>1, <2>2, ZenonT(60) DEF Hosts
  <2>4. /\ x.backend = "running" /\ x.stream = g /\ x.plugin = p /\ x.active /\ x.rate = g.rate
        /\ ~ x.stopped /\ ~ x.rateChanged
    BY <1>6, <1>8, <2>2 DEF Hosts
  <2> QED
    BY <1>3, <2>3, <2>4 DEF Sound, StreamFits
<1> QED
  BY <1>2, <1>7, <1>8

\* Whatever a stream is opened from, the host is sound then.
LEMMA StartImplIs ==
  ASSUME NEW h \in Hosts, plugged \in Listings, NEW in \in Ids, NEW out \in Ids,
         NEW useIn, NEW useOut, NEW rate,
         NEW x \in StartAudioThreadOnImpl(h, in, useIn, out, useOut, rate)
  PROVE  Sound(x)
<1> DEFINE k == Guaranteed(h)
           inUsed == useIn /\ Known(k, in)
           outUsed == useOut /\ Known(k, out)
           f == ForgetStopped(StopAudioThread(k))
           base == [f EXCEPT !.error = FALSE, !.ins = 0, !.outs = 0, !.stream = NoStream,
                             !.inDev = in, !.outDev = out, !.inUsed = inUsed, !.outUsed = outUsed]
           used == (IF base.outUsed THEN {out} ELSE {}) \cup (IF base.inUsed THEN {in} ELSE {})
           vetted == IF base.outUsed THEN RateOfferedBy(base, out, rate)
                     ELSE RateOfferedBy(base, in, rate)
           asked == IF vetted <= 0 THEN 48000 ELSE vetted
           size == IF base.buffer = 0 THEN DefaultSize ELSE base.buffer
           all == IF used = {} THEN {Failed(base)}
                  ELSE {Failed([base EXCEPT !.buffer = size])}
                       \cup UNION {Started(base, g, base.inUsed, base.outUsed) :
                                     g \in Grants(base, used, asked, size)}
<1>0. StartAudioThreadOnImpl(h, in, useIn, out, useOut, rate) = all
  BY DEF StartAudioThreadOnImpl
<1>1. x \in all
  <2> HIDE DEF all
  <2> QED
    BY <1>0
<1>2. k \in Hosts /\ k.backend # "none"
  BY GuaranteedIs
<1> HIDE DEF k
<1>3. StopAudioThread(k) \in Hosts /\ StopAudioThread(k).backend = "closed" /\ StopAudioThread(k).listed = k.listed
  <2>1. StopAudioThread(k).listed = k.listed
    BY <1>2 DEF StopAudioThread, Hosts
  <2> QED
    BY <1>2, <2>1, StopIs
<1>4. f \in Hosts /\ f.backend = "closed" /\ f.listed = k.listed /\ ~ f.stopped /\ ~ f.rateChanged
  <2> DEFINE s == StopAudioThread(k)
  <2>1. s \in Hosts /\ s.backend = "closed" /\ s.listed = k.listed
    BY <1>3
  <2> HIDE DEF s
  <2>2. f = [s EXCEPT !.reopen = FALSE, !.stopped = FALSE, !.rateChanged = FALSE]
    BY DEF ForgetStopped, s
  <2> HIDE DEF f
  <2> QED
    BY <2>1, <2>2, ZenonT(60) DEF Hosts
<1> HIDE DEF f
<1>5. inUsed \in BOOLEAN /\ outUsed \in BOOLEAN /\ NoStream \in Granted
  BY DEF NoStream, Granted, Known
<1>6. (inUsed => in \in DOMAIN k.listed) /\ (outUsed => out \in DOMAIN k.listed)
  BY DEF Known
<1> HIDE DEF inUsed, outUsed
<1>7. /\ base \in Hosts /\ base.backend = "closed" /\ base.listed = k.listed
      /\ ~ base.stopped /\ ~ base.rateChanged /\ base.inUsed = inUsed /\ base.outUsed = outUsed
      /\ base.inDev = in /\ base.outDev = out
  <2>1. base \in Hosts
    BY <1>4, <1>5, ZenonT(60) DEF Hosts
  <2>2. /\ base.backend = f.backend
        /\ base.listed = f.listed
        /\ base.stopped = f.stopped
        /\ base.rateChanged = f.rateChanged
    BY <1>4 DEF Hosts
  <2>3. base.inUsed = inUsed /\ base.outUsed = outUsed /\ base.inDev = in /\ base.outDev = out
    BY <1>4 DEF Hosts
  <2> QED
    BY <1>4, <2>1, <2>2, <2>3
<1> HIDE DEF base
<1>8. base.listed \in Listings /\ base.buffer \in Nat
  BY <1>7 DEF Hosts
<1>9. size \in Nat
  BY <1>8, SizesAre
<1>10. CASE used = {}
  <2>1. x = Failed(base)
    BY <1>1, <1>10
  <2>2. x \in Hosts /\ x.backend = "closed"
    BY <1>7, <2>1, ZenonT(60) DEF Failed, Hosts
  <2> QED
    BY <2>2 DEF Sound, StreamFits
<1>11. CASE used # {} /\ x = Failed([base EXCEPT !.buffer = size])
  <2> HIDE DEF size
  <2>1. x \in Hosts /\ x.backend = "closed"
    BY <1>7, <1>9, <1>11, ZenonT(60) DEF Failed, Hosts
  <2> QED
    BY <2>1 DEF Sound, StreamFits
<1>12. CASE used # {} /\ \E g \in Grants(base, used, asked, size) : x \in Started(base, g, base.inUsed, base.outUsed)
  <2>1. used \in SUBSET DOMAIN base.listed
    BY <1>6, <1>7
  <2>2. vetted \in Rate
    BY <1>6, <1>7, <1>8, <1>12, RateOfferedIs
  <2> HIDE DEF vetted
  <2>3. asked \in Rate
    BY <2>2 DEF Rate
  <2> HIDE DEF asked, size, used
  <2>4. PICK g \in Grants(base, used, asked, size) : x \in Started(base, g, base.inUsed, base.outUsed)
    BY <1>12
  <2>5. g \in Granted /\ g.rate \in Rate
    BY <1>7, <1>9, <2>1, <2>3, <2>4, GrantsAre
  <2>6. (inUsed => in \in DOMAIN Devices) /\ (outUsed => out \in DOMAIN Devices)
    BY <1>6, <1>7, <1>8, ListingsAre
  <2> QED
    BY <1>7, <2>4, <2>5, <2>6, StartedIs
<1> HIDE DEF used, asked, size
<1> QED
  BY <1>1, <1>10, <1>11, <1>12

\* startAudioThreadOn() leaves a host whose plugin fits its stream.
LEMMA StartOnIs ==
  ASSUME NEW h \in Hosts, plugged \in Listings, NEW in \in Ids, NEW out \in Ids,
         NEW useIn, NEW useOut, NEW rate,
         NEW x \in StartAudioThreadOn(h, in, useIn, out, useOut, rate)
  PROVE  Sound(x)
BY StartImplIs DEF StartAudioThreadOn

\* The settings of a file, with the devices there are in the place of ones that are not.
LEMMA ApplySettingsIs ==
  ASSUME NEW h \in Hosts, plugged \in Listings
  PROVE  ApplyAudioSettings(h) \in Hosts /\ ApplyAudioSettings(h).backend # "none"
<1> DEFINE s == h.settings
           k == SetAudioApi(h, s.api)
           out == Resolve(k, s.out, FALSE)
           in == Resolve(k, s.in, TRUE)
           picked == in # NoDevice /\ in = s.in
           outUsed == s.outUsed /\ Known(k, out)
           inUsed == s.inUsed /\ Known(k, in) /\ (in \in DOMAIN k.listed => (picked \/ ~Devices[in].mic))
           most == IF s.buffer > Largest(OfferedSizes) THEN Largest(OfferedSizes) ELSE s.buffer
<1>1. ApplyAudioSettings(h) =
        [k EXCEPT !.outDev = out, !.inDev = in, !.outUsed = outUsed, !.inUsed = inUsed,
                  !.rate = s.rate, !.buffer = most]
  BY DEF ApplyAudioSettings
<1>2. s \in SettingsFiles
  BY DEF Hosts
<1>3. k \in Hosts /\ k.backend # "none"
  BY SetApiIs
<1>4. s.rate \in Nat /\ s.buffer \in Nat
  BY <1>2 DEF SettingsFiles
<1> HIDE DEF s, k
<1>5. k.listed \in Listings
  BY <1>3 DEF Hosts
<1>6. out \in Ids /\ in \in Ids
  BY <1>5, ResolveIs
<1>7. outUsed \in BOOLEAN /\ inUsed \in BOOLEAN /\ most \in Nat
  BY <1>4, SizesAre
<1> DEFINE rate == s.rate
<1>8. rate \in Nat
  BY <1>4
<1> HIDE DEF out, in, outUsed, inUsed, most, rate
<1> DEFINE x == [k EXCEPT !.outDev = out, !.inDev = in, !.outUsed = outUsed, !.inUsed = inUsed,
                          !.rate = rate, !.buffer = most]
<1>9. x \in Hosts
  BY <1>3, <1>6, <1>7, <1>8, ZenonT(60) DEF Hosts
<1>10. x.backend = k.backend
  BY <1>3 DEF Hosts
<1>11. ApplyAudioSettings(h) = x
  BY <1>1 DEF rate
<1> HIDE DEF x
<1> QED
  BY <1>3, <1>9, <1>10, <1>11

\* So does opening the devices the system prefers.
LEMMA OpenDefaultsIs ==
  ASSUME NEW h \in Hosts, plugged \in Listings, NEW x \in OpenSystemDefaults(h)
  PROVE  Sound(x)
<1> DEFINE k == Guaranteed(h)
           in == DefaultInputToOpen(k)
           out == DefaultDevice(k, FALSE)
           rate == IF out = NoDevice THEN 0 ELSE RateOfferedBy(k, out, 0)
           j == [k EXCEPT !.rate = rate]
<1>1. x \in StartAudioThreadOn(j, in, Known(k, in) /\ HasInput, out, Known(k, out) /\ HasOutput, rate)
  BY DEF OpenSystemDefaults
<1>2. k \in Hosts
  BY GuaranteedIs
<1> HIDE DEF k
<1>3. k.listed \in Listings
  BY <1>2 DEF Hosts
<1>4. in \in Ids /\ out \in Ids
  BY <1>3, DefaultInputIs, DefaultDeviceIs
<1>5. out # NoDevice => out \in DOMAIN k.listed
  BY <1>3, DefaultDeviceIs
<1> HIDE DEF in, out
<1>6. rate \in Nat
  BY <1>3, <1>5, RateOfferedIs DEF Rate
<1> HIDE DEF rate
<1>7. j \in Hosts
  BY <1>2, <1>6 DEF Hosts
<1> HIDE DEF j
<1> QED
  BY <1>1, <1>4, <1>7, StartOnIs

\* The launch.
LEMMA StartIs ==
  ASSUME NEW h \in Hosts, plugged \in Listings, NEW conf \in Saved, NEW x \in StartAudioThread(h, conf)
  PROVE  Sound(x)
<1>1. CASE conf = NoFile
  BY <1>1, OpenDefaultsIs DEF StartAudioThread
<1>2. CASE conf # NoFile
  <2> DEFINE i == [h EXCEPT !.settings = conf]
             k == ApplyAudioSettings(i)
             tried == StartAudioThreadOn(k, k.inDev, k.inUsed /\ HasInput,
                                         k.outDev, k.outUsed /\ HasOutput, k.rate)
  <2>1. x \in tried \/ \E y \in tried : x \in OpenSystemDefaults(y)
    BY <1>2 DEF StartAudioThread
  <2>2. conf \in SettingsFiles
    <3>1. conf \in [api : {s.api : s \in Saved \ {NoFile}}, out : Ids, in : Ids, outUsed : BOOLEAN,
                    inUsed : BOOLEAN, rate : Nat, buffer : Nat]
      BY <1>2, StreamAssumption DEF StreamAssumption
    <3> QED
      BY <3>1 DEF SettingsFiles, ApiNames
  <2>3. i \in Hosts
    BY <2>2 DEF Hosts
  <2> HIDE DEF i
  <2>4. k \in Hosts
    BY <2>3, ApplySettingsIs
  <2> HIDE DEF k
  <2>5. k.inDev \in Ids /\ k.outDev \in Ids
    BY <2>4 DEF Hosts
  <2>6. \A y \in tried : Sound(y)
    BY <2>4, <2>5, StartOnIs
  <2> HIDE DEF tried
  <2> QED
    BY <2>1, <2>6, OpenDefaultsIs DEF Sound
<1> QED
  BY <1>1, <1>2
\* What a host is fit to run on with: its kinds, and the plugin on its stream.
Fit(h) == h \in Hosts /\ StreamFits(h)

\* What the fit of a host does not depend on.
LEMMA FitStays ==
  ASSUME NEW h, Fit(h), NEW k \in Hosts,
         k.backend = h.backend, k.active = h.active, k.plugin = h.plugin, k.stream = h.stream,
         k.rate = h.rate, k.stopped = h.stopped, k.rateChanged = h.rateChanged
  PROVE  Fit(k)
BY DEF Fit, StreamFits

\* A stream that is to be opened again, or was lost.
LEMMA NotedIs ==
  ASSUME NEW h, Fit(h), NEW a \in BOOLEAN, NEW b \in BOOLEAN
  PROVE  /\ Fit([h EXCEPT !.reopen = a, !.lost = b]) /\ Fit([h EXCEPT !.lost = b])
<1>1. h \in Hosts
  BY DEF Fit
<1> DEFINE j == [h EXCEPT !.reopen = a, !.lost = b]
           k == [h EXCEPT !.lost = b]
<1>2. j \in Hosts /\ k \in Hosts
  BY <1>1, ZenonT(60) DEF Hosts
<1>3. /\ j.backend = h.backend /\ j.active = h.active /\ j.plugin = h.plugin /\ j.stream = h.stream
      /\ j.rate = h.rate /\ j.stopped = h.stopped /\ j.rateChanged = h.rateChanged
  BY <1>1 DEF Hosts
<1>4. /\ k.backend = h.backend /\ k.active = h.active /\ k.plugin = h.plugin /\ k.stream = h.stream
      /\ k.rate = h.rate /\ k.stopped = h.stopped /\ k.rateChanged = h.rateChanged
  BY <1>1 DEF Hosts
<1> HIDE DEF j, k
<1>5. Fit(j) /\ Fit(k)
  BY <1>2, <1>3, <1>4, FitStays
<1> QED
  BY <1>5 DEF j, k

\* Nothing of a stream is asked of a host that has none.
LEMMA ClosedFits ==
  ASSUME NEW h \in Hosts, h.backend \in {"none", "closed", "open"}
  PROVE  Fit(h)
BY DEF Fit, StreamFits

\* So does opening the stream again, or leaving it.
LEMMA ReopenIs ==
  ASSUME NEW h, Fit(h), plugged \in Listings, NEW rate, NEW x \in ReopenStream(h, rate)
  PROVE  Fit(x)
<1>1. h \in Hosts /\ h.inDev \in Ids /\ h.outDev \in Ids
  BY DEF Fit, Hosts
<1>2. CASE x = h
  BY <1>2
<1>3. CASE x \in StartAudioThreadOn(h, h.inDev, h.inUsed /\ HasInput, h.outDev, h.outUsed /\ HasOutput, rate)
  BY <1>1, <1>3, StartOnIs DEF Sound, Fit
<1> QED
  BY <1>2, <1>3 DEF ReopenStream

\* A poll: what stopped is closed, or opened again at the rate it has now.
LEMMA HandleStoppedIs ==
  ASSUME NEW h, Fit(h), plugged \in Listings, NEW x \in HandleStopped(h)
  PROVE  Fit(x)
<1> DEFINE d == Down(h)
           down == [d EXCEPT !.stopped = FALSE, !.rateChanged = FALSE, !.ins = 0, !.outs = 0,
                             !.error = TRUE, !.reopen = h.active, !.tries = 0, !.due = FALSE,
                             !.lost = h.active]
           fresh == RefreshDeviceList(down)
<1>1. h \in Hosts /\ h.active \in BOOLEAN
  BY DEF Fit, Hosts
<1>2. \/ x = h
      \/ x = down
      \/ \E y \in ReopenStream(fresh, ForeignRate(fresh, h.rate)) :
           x = [y EXCEPT !.reopen = ~IsAudioRunning(y), !.lost = ~IsAudioRunning(y)]
  BY DEF HandleStopped, Down
<1>3. d \in Hosts /\ d.backend \in {"none", "closed"}
  BY <1>1, StopIs
<1> HIDE DEF d
<1>4. down \in Hosts
  <2> DEFINE on == h.active
  <2>1. on \in BOOLEAN /\ 0 \in 0 .. RetryLimit
    BY <1>1, StreamAssumption DEF StreamAssumption
  <2>2. down = [d EXCEPT !.stopped = FALSE, !.rateChanged = FALSE, !.ins = 0, !.outs = 0,
                         !.error = TRUE, !.reopen = on, !.tries = 0, !.due = FALSE, !.lost = on]
    OBVIOUS
  <2> DEFINE c == [d EXCEPT !.stopped = FALSE, !.rateChanged = FALSE, !.ins = 0, !.outs = 0]
             e == [c EXCEPT !.error = TRUE, !.reopen = on, !.tries = 0, !.due = FALSE, !.lost = on]
  <2>3. down = e
    BY <2>2
  <2> HIDE DEF on, down
  <2>4. c \in Hosts
    BY <1>3, ZenonT(60) DEF Hosts
  <2> HIDE DEF c
  <2>5. e \in Hosts
    BY <2>1, <2>4, ZenonT(60) DEF Hosts
  <2> QED
    BY <2>3, <2>5
<1>5. down.backend = d.backend
  BY <1>3 DEF Hosts
<1> HIDE DEF down
<1>6. Fit(down)
  BY <1>3, <1>4, <1>5, ClosedFits
<1>7. Fit(fresh)
  BY <1>6, RefreshIs DEF Fit
<1> HIDE DEF fresh
<1>8. ASSUME NEW y \in ReopenStream(fresh, ForeignRate(fresh, h.rate)),
             x = [y EXCEPT !.reopen = ~IsAudioRunning(y), !.lost = ~IsAudioRunning(y)]
      PROVE  Fit(x)
  <2> DEFINE off == ~IsAudioRunning(y)
  <2>1. Fit(y)
    BY <1>7, ReopenIs
  <2>2. off \in BOOLEAN
    OBVIOUS
  <2>3. x = [y EXCEPT !.reopen = off, !.lost = off]
    BY <1>8
  <2> HIDE DEF off
  <2> QED
    BY <2>1, <2>2, <2>3, NotedIs
<1> QED
  BY <1>2, <1>6, <1>8

\* A poll: the devices are listed again where they changed.
LEMMA HandleDevicesIs ==
  ASSUME NEW h, Fit(h), plugged \in Listings
  PROVE  Fit(HandleDevices(h))
BY RefreshIs DEF HandleDevices, Fit

\* A poll: a stream that was lost is tried again, no oftener than it may be.
LEMMA RetryReopenIs ==
  ASSUME NEW h, Fit(h), plugged \in Listings, NEW x \in RetryReopen(h)
  PROVE  Fit(x)
<1>1. CASE x = h
  BY <1>1
<1>2. CASE x # h
  <2> DEFINE tries == IF h.devicesChanged THEN h.tries ELSE h.tries + 1
             k == [h EXCEPT !.tries = tries, !.due = FALSE]
  <2>1. /\ h.devicesChanged \/ h.tries < RetryLimit
        /\ \E y \in ReopenStream(k, k.rate) :
             x = [y EXCEPT !.reopen = IF IsAudioRunning(y) THEN FALSE ELSE y.reopen,
                           !.lost = ~IsAudioRunning(y)]
    BY <1>2 DEF RetryReopen
  <2>2. h \in Hosts /\ h.tries \in 0 .. RetryLimit /\ RetryLimit \in Nat
    BY StreamAssumption DEF Fit, Hosts, StreamAssumption
  <2>3. tries \in 0 .. RetryLimit
    BY <2>1, <2>2
  <2> HIDE DEF tries
  <2>4. k \in Hosts
    BY <2>2, <2>3, ZenonT(60) DEF Hosts
  <2>5. /\ k.backend = h.backend /\ k.active = h.active /\ k.plugin = h.plugin /\ k.stream = h.stream
        /\ k.rate = h.rate /\ k.stopped = h.stopped /\ k.rateChanged = h.rateChanged
    BY <2>2 DEF Hosts
  <2> HIDE DEF k
  <2>6. Fit(k)
    BY <2>4, <2>5, FitStays
  <2>7. PICK y \in ReopenStream(k, k.rate) :
          x = [y EXCEPT !.reopen = IF IsAudioRunning(y) THEN FALSE ELSE y.reopen,
                        !.lost = ~IsAudioRunning(y)]
    BY <2>1
  <2>8. Fit(y)
    BY <2>6, ReopenIs
  <2> DEFINE a == IF IsAudioRunning(y) THEN FALSE ELSE y.reopen
             b == ~IsAudioRunning(y)
  <2>9. a \in BOOLEAN /\ b \in BOOLEAN
    BY <2>8 DEF Fit, Hosts
  <2>10. x = [y EXCEPT !.reopen = a, !.lost = b]
    BY <2>7
  <2> HIDE DEF a, b
  <2> QED
    BY <2>8, <2>9, <2>10, NotedIs
<1> QED
  BY <1>1, <1>2

\* The size a stream is asked for is noted before it opens.
LEMMA WithBufferIs ==
  ASSUME NEW h \in Hosts, NEW size \in Nat, NEW b \in BOOLEAN
  PROVE  [h EXCEPT !.buffer = size] \in Hosts /\ [h EXCEPT !.buffer = size, !.lost = b] \in Hosts
BY ZenonT(60) DEF Hosts

\* What is kept of a configuration that runs.
LEMMA KeptIs ==
  ASSUME NEW s \in SettingsFiles, NEW h, NEW x \in Hosts, NEW out \in Ids, NEW in \in Ids,
         NEW useOut \in BOOLEAN, NEW useIn \in BOOLEAN, NEW rate \in Nat
  PROVE  /\ [CaptureAudioSettings(SetChosenDevices(s, h, out, in), x) EXCEPT
               !.outUsed = useOut, !.inUsed = useIn, !.rate = rate] \in SettingsFiles
         /\ CaptureAudioSettings([SetChosenDevices(s, h, out, in) EXCEPT
              !.outUsed = useOut, !.inUsed = useIn, !.rate = rate], x) \in SettingsFiles
<1> DEFINE o == IF Known(h, out) THEN out ELSE s.out
           i == IF Known(h, in) THEN in ELSE s.in
           t == [s EXCEPT !.out = o, !.in = i]
<1>1. SetChosenDevices(s, h, out, in) = t
  BY DEF SetChosenDevices
<1>2. o \in Ids /\ i \in Ids
  BY DEF SettingsFiles
<1> HIDE DEF o, i
<1>3. t \in SettingsFiles
  BY <1>2 DEF SettingsFiles
<1> HIDE DEF t
<1>4. x.api \in ApiNames /\ x.buffer \in Nat
  BY DEF Hosts
<1> QED
  BY <1>1, <1>3, <1>4, ZenonT(60) DEF CaptureAudioSettings, SettingsFiles

\* The settings of a host are its own matter.
LEMMA WithSettingsIs ==
  ASSUME NEW h, Fit(h), NEW s \in SettingsFiles
  PROVE  Fit([h EXCEPT !.settings = s])
<1> DEFINE k == [h EXCEPT !.settings = s]
<1>1. h \in Hosts
  BY DEF Fit
<1>2. k \in Hosts
  BY <1>1 DEF Hosts
<1>3. /\ k.backend = h.backend /\ k.active = h.active /\ k.plugin = h.plugin /\ k.stream = h.stream
      /\ k.rate = h.rate /\ k.stopped = h.stopped /\ k.rateChanged = h.rateChanged
  BY <1>1 DEF Hosts
<1> HIDE DEF k
<1>4. Fit(k)
  BY <1>2, <1>3, FitStays
<1> QED
  BY <1>4 DEF k

\* And so is a request it has still to answer.
LEMMA WithRequestIs ==
  ASSUME NEW h, Fit(h), NEW r \in Requests \cup {NoRequest}
  PROVE  Fit([h EXCEPT !.request = r])
<1> DEFINE k == [h EXCEPT !.request = r]
<1>1. h \in Hosts
  BY DEF Fit
<1>2. k \in Hosts
  BY <1>1 DEF Hosts
<1>3. /\ k.backend = h.backend /\ k.active = h.active /\ k.plugin = h.plugin /\ k.stream = h.stream
      /\ k.rate = h.rate /\ k.stopped = h.stopped /\ k.rateChanged = h.rateChanged
  BY <1>1 DEF Hosts
<1> HIDE DEF k
<1>4. Fit(k)
  BY <1>2, <1>3, FitStays
<1> QED
  BY <1>4 DEF k
\* A poll: what the plugin asked for is opened, and kept; or what ran is opened again.
LEMMA RequestIs ==
  ASSUME NEW h, Fit(h), plugged \in Listings, NEW x \in ApplyAudioConfigRequest(h)
  PROVE  Fit(x)
<1>1. CASE h.request = NoRequest
  BY <1>1 DEF ApplyAudioConfigRequest
<1>2. CASE h.request # NoRequest
  <2> DEFINE r == h.request
             k == IF r.keepApi THEN h ELSE SetAudioApi(h, r.api)
             out == IF r.useOut THEN Resolve(k, r.out, FALSE) ELSE NoDevice
             in == IF r.useIn /\ HasInput THEN Resolve(k, r.in, TRUE) ELSE NoDevice
             size == IF r.buffer > 0 THEN r.buffer ELSE k.buffer
             tried == StartAudioThreadOn([k EXCEPT !.buffer = size, !.lost = FALSE],
                        in, Known(k, in), out, Known(k, out) /\ HasOutput, r.rate)
             Kept(y) == [y EXCEPT !.settings =
                           [CaptureAudioSettings(SetChosenDevices(y.settings, y, out, in), y) EXCEPT
                              !.outUsed = Known(k, out), !.inUsed = Known(k, in),
                              !.rate = r.rate]]
             Back(y) == IF ~r.keepApi /\ y.api # h.api THEN SetAudioApi(y, h.api) ELSE y
             Again(y) == IF ~IsAudioRunning(h) THEN {Back(y)}
                         ELSE StartAudioThreadOn([Back(y) EXCEPT !.buffer = h.buffer],
                                                 h.inDev, h.inUsed /\ HasInput,
                                                 h.outDev, h.outUsed /\ HasOutput, h.rate)
  <2>1. \E w \in {Kept(y) : y \in {z \in tried : IsAudioRunning(z)}}
                 \cup UNION {Again(y) : y \in {z \in tried : ~IsAudioRunning(z)}} :
          x = [w EXCEPT !.request = NoRequest]
    <3> DEFINE all == {[w EXCEPT !.request = NoRequest] :
                         w \in {Kept(y) : y \in {z \in tried : IsAudioRunning(z)}}
                               \cup UNION {Again(y) : y \in {z \in tried : ~IsAudioRunning(z)}}}
    <3>1. ApplyAudioConfigRequest(h) = IF r = NoRequest THEN {h} ELSE all
      BY Zenon DEF ApplyAudioConfigRequest
    <3>2. x \in all
      <4> HIDE DEF all
      <4> QED
        BY <1>2, <3>1
    <3> HIDE DEF Kept, Again, tried
    <3> QED
      BY <3>2, SMTT(40)
  <2>2. /\ h \in Hosts /\ r \in Requests /\ h.buffer \in Nat /\ h.inDev \in Ids /\ h.outDev \in Ids
    BY <1>2 DEF Fit, Hosts
  <2>3. r.buffer \in Nat /\ r.rate \in Nat
    BY <2>2, StreamAssumption DEF StreamAssumption
  <2>4. Fit(k)
    BY <2>2, SetApiIs DEF Fit
  <2> HIDE DEF r, k
  <2>5. k \in Hosts /\ k.listed \in Listings /\ k.buffer \in Nat
    BY <2>4 DEF Fit, Hosts
  <2>6. out \in Ids /\ in \in Ids
    BY <2>5, ResolveIs, DevicesAre
  <2>7. size \in Nat
    BY <2>3, <2>5
  <2> HIDE DEF out, in, size
  <2>8. \A y \in tried : Fit(y)
    <3> DEFINE j == [k EXCEPT !.buffer = size, !.lost = FALSE]
    <3>1. j \in Hosts
      BY <2>5, <2>7, WithBufferIs
    <3> HIDE DEF j
    <3>2. \A y \in StartAudioThreadOn(j, in, Known(k, in), out, Known(k, out) /\ HasOutput, r.rate) : Fit(y)
      BY <2>6, <3>1, StartOnIs DEF Sound, Fit
    <3> QED
      BY <3>2 DEF j
  <2> HIDE DEF tried
  <2>9. ASSUME NEW y \in tried PROVE Fit(Kept(y))
    <3>1. y \in Hosts /\ y.settings \in SettingsFiles
      BY <2>8 DEF Fit, Hosts
    <3> DEFINE useOut == Known(k, out)
               useIn == Known(k, in)
               s == [CaptureAudioSettings(SetChosenDevices(y.settings, y, out, in), y) EXCEPT
                       !.outUsed = useOut, !.inUsed = useIn, !.rate = r.rate]
    <3>2. useOut \in BOOLEAN /\ useIn \in BOOLEAN
      BY SMTT(40) DEF Known
    <3> HIDE DEF useOut, useIn
    <3>3. s \in SettingsFiles
      BY <2>3, <2>6, <3>1, <3>2, KeptIs, ZenonT(60)
    <3> HIDE DEF s
    <3>4. Fit([y EXCEPT !.settings = s])
      BY <2>8, <3>3, WithSettingsIs
    <3> QED
      BY <3>4 DEF s, useOut, useIn
  <2>10. ASSUME NEW y \in tried PROVE Fit(Back(y))
    BY <2>8, SetApiIs DEF Fit
  <2>11. ASSUME NEW y \in tried, NEW w \in Again(y) PROVE Fit(w)
    <3> DEFINE b == Back(y)
               j == [b EXCEPT !.buffer = h.buffer]
    <3>1. Fit(b)
      BY <2>10
    <3>2. \/ w = b
          \/ w \in StartAudioThreadOn(j, h.inDev, h.inUsed /\ HasInput,
                                      h.outDev, h.outUsed /\ HasOutput, h.rate)
      BY <2>11
    <3> HIDE DEF b
    <3>3. j \in Hosts
      BY <2>2, <3>1, WithBufferIs DEF Fit
    <3> HIDE DEF j
    <3> QED
      BY <2>2, <3>1, <3>2, <3>3, StartOnIs DEF Sound, Fit
  <2> HIDE DEF Kept, Again
  <2>12. PICK w : /\ x = [w EXCEPT !.request = NoRequest]
                  /\ \E z \in tried : w = Kept(z) \/ w \in Again(z)
    BY <2>1
  <2>13. Fit(w)
    BY <2>9, <2>11, <2>12
  <2> QED
    BY <2>12, <2>13, WithRequestIs
<1> QED
  BY <1>1, <1>2
-----------------------------------------------------------------------------
(* The settings window. *)

Setups ==
  [running : BOOLEAN, out : Ids, in : Ids, useOut : BOOLEAN, useIn : BOOLEAN, rate : Nat, frames : Nat]

OpenScreens ==
  [up : {TRUE}, out : Ids, in : Ids, rate : Nat, frames : Nat, okEnabled : BOOLEAN,
   apiChanged : BOOLEAN, openedHere : BOOLEAN, whenOpened : Setups, apiWhenOpened : ApiNames]

\* The menus hold devices, rates and sizes that there are.
LEMMA FillDevicesIs ==
  ASSUME NEW h, h.listed \in Listings, NEW sc \in OpenScreens, NEW out, NEW in
  PROVE  FillDevices(h, sc, out, in) \in OpenScreens
<1> DEFINE o == IF out \in OutDevices(h) THEN out
                ELSE IF OutDevices(h) = {} THEN NoDevice ELSE Smallest(OutDevices(h))
           i == IF in \in InDevices(h) THEN in ELSE NoDevice
<1>1. FillDevices(h, sc, out, in) = [sc EXCEPT !.out = o, !.in = i]
  BY DEF FillDevices
<1>2. OutDevices(h) \subseteq DOMAIN Devices /\ InDevices(h) \subseteq DOMAIN Devices
  BY ListingsAre DEF OutDevices, InDevices
<1>3. OutDevices(h) # {} => Smallest(OutDevices(h)) \in OutDevices(h)
  BY <1>2, DevicesAre, SmallestIs
<1>4. o \in Ids /\ i \in Ids
  BY <1>2, <1>3, DevicesAre
<1> HIDE DEF o, i
<1> QED
  BY <1>1, <1>4 DEF OpenScreens

\* The window offers rates that are of both devices.
LEMMA FillRatesIs ==
  ASSUME NEW sc \in OpenScreens, NEW preferred
  PROVE  FillRates(sc, preferred) \in OpenScreens
<1> DEFINE rates == CommonRates(sc.out, sc.in)
           rate == PreferredRate(rates, preferred)
           ok == rates # {}
<1>1. FillRates(sc, preferred) = [sc EXCEPT !.rate = rate, !.okEnabled = ok]
  BY DEF FillRates
<1>2. sc.out \in Ids
  BY DEF OpenScreens
<1>3. sc.out # NoDevice => sc.out \in DOMAIN Devices
  BY <1>2, StreamAssumption DEF StreamAssumption, Ids, NoDevice
<1>4. rates \in SUBSET Nat
  BY <1>3, DevicesAre DEF CommonRates, Rate
<1> HIDE DEF rates
<1>5. rates # {} => Smallest(rates) \in Nat
  BY <1>4, SmallestIs
<1>6. rate \in Nat
  <2>1. rate \in {0, 44100, 48000} \/ (rates # {} /\ rate = Smallest(rates)) \/ rate \in rates
    BY DEF PreferredRate
  <2> HIDE DEF rate
  <2>2. CASE rate \in {0, 44100, 48000}
    BY <2>2
  <2>3. CASE rate \in rates
    BY <1>4, <2>3
  <2> QED
    BY <1>5, <2>1, <2>2, <2>3
<1>7. ok \in BOOLEAN
  OBVIOUS
<1> HIDE DEF rate, ok
<1> QED
  BY <1>1, <1>6, <1>7 DEF OpenScreens

\* The window shows a buffer size that is a number.
LEMMA FillSizesIs ==
  ASSUME NEW h \in Hosts, NEW sc \in OpenScreens, NEW preferred \in Nat
  PROVE  FillBufferSizes(h, sc, preferred) \in OpenScreens
<1> DEFINE sizes == OfferedSizes \cup (IF h.buffer > 0 THEN {h.buffer} ELSE {})
           wanted == IF preferred = 0 THEN DefaultSize ELSE preferred
           fit == {s \in sizes : s <= wanted}
           frames == IF fit = {} THEN Smallest(sizes) ELSE Largest(fit)
<1>1. FillBufferSizes(h, sc, preferred) = [sc EXCEPT !.frames = frames]
  BY DEF FillBufferSizes
<1>2. OfferedSizes \in SUBSET Nat /\ OfferedSizes # {} /\ DefaultSize \in Nat
  BY StreamAssumption DEF StreamAssumption
<1>3. h.buffer \in Nat
  BY DEF Hosts
<1>4. sizes \in SUBSET Nat /\ sizes # {} /\ wanted \in Nat
  BY <1>2, <1>3
<1> HIDE DEF sizes, wanted
<1>5. fit \in SUBSET Nat /\ \A s \in fit : s <= wanted
  BY <1>4
<1> HIDE DEF fit
<1>6. Smallest(sizes) \in Nat
  BY <1>4, SmallestIs
<1>7. fit # {} => Largest(fit) \in Nat
  BY <1>4, <1>5, LargestIs
<1>8. frames \in Nat
  BY <1>6, <1>7
<1> HIDE DEF frames
<1> QED
  BY <1>1, <1>8 DEF OpenScreens

\* The window filled again is a window.
LEMMA FillIs ==
  ASSUME NEW h \in Hosts, NEW sc \in OpenScreens, NEW out, NEW in, NEW rate, NEW frames \in Nat
  PROVE  Fill(h, sc, out, in, rate, frames) \in OpenScreens
<1>1. h.listed \in Listings
  BY DEF Hosts
<1>2. FillDevices(h, sc, out, in) \in OpenScreens
  BY <1>1, FillDevicesIs
<1>3. FillRates(FillDevices(h, sc, out, in), rate) \in OpenScreens
  BY <1>2, FillRatesIs
<1> QED
  BY <1>3, FillSizesIs DEF Fill

\* So is one that shows the stream there is.
LEMMA ShowRunningIs ==
  ASSUME NEW h \in Hosts, NEW sc \in OpenScreens
  PROVE  ShowRunningSetup(h, sc) \in OpenScreens
<1>1. h.buffer \in Nat
  BY DEF Hosts
<1> QED
  BY <1>1, FillIs DEF ShowRunningSetup

\* The setups that are opened, run or shown.
LEMMA SetupsAre ==
  /\ \A h \in Hosts : RunningSetup(h) \in Setups
  /\ \A sc \in OpenScreens : ShownSetup(sc) \in Setups
<1>1. ASSUME NEW h \in Hosts PROVE RunningSetup(h) \in Setups
  <2>1. IsAudioRunning(h) \in BOOLEAN
    BY DEF IsAudioRunning
  <2> QED
    BY <2>1 DEF RunningSetup, Setups, Hosts
<1>2. ASSUME NEW sc \in OpenScreens PROVE ShownSetup(sc) \in Setups
  BY DEF ShownSetup, Setups, OpenScreens
<1> QED
  BY <1>1, <1>2

\* What a menu opens.
LEMMA OpenSetupIs ==
  ASSUME NEW h \in Hosts, plugged \in Listings, NEW s \in Setups, NEW x \in OpenSetup(h, s)
  PROVE  Fit(x)
<1> DEFINE size == IF s.frames > 0 THEN s.frames ELSE h.buffer
           j == [h EXCEPT !.buffer = size]
<1>1. PICK y \in StartAudioThreadOn(j, s.in, s.useIn, s.out, s.useOut, s.rate) : x = [y EXCEPT !.lost = FALSE]
  BY DEF OpenSetup
<1>2. s.in \in Ids /\ s.out \in Ids /\ s.frames \in Nat /\ h.buffer \in Nat
  BY DEF Setups, Hosts
<1>3. size \in Nat
  BY <1>2
<1> HIDE DEF size
<1>4. j \in Hosts
  BY <1>3, WithBufferIs
<1> HIDE DEF j
<1>5. Fit(y)
  BY <1>1, <1>2, <1>4, StartOnIs DEF Sound, Fit
<1> QED
  BY <1>1, <1>5, NotedIs

\* What became of a choice: a host, and the window over it.
Shown(r) == Fit(r.h) /\ r.sc \in OpenScreens

\* What was running before the setup shown was tried.
LEMMA PutBackIs ==
  ASSUME NEW h, Fit(h), plugged \in Listings, NEW sc \in OpenScreens, NEW before \in Setups,
         NEW r \in PutBack(h, sc, before)
  PROVE  Shown(r)
<1> DEFINE api == IF sc.apiChanged THEN SetAudioApi(h, sc.apiWhenOpened) ELSE h
           stream2 == IF sc.apiChanged THEN sc.whenOpened ELSE before
           again == IF stream2.running THEN OpenSetup(api, stream2) ELSE {api}
           there == [sc EXCEPT !.apiChanged = FALSE]
<1>1. PICK x \in again : r = [h |-> x, sc |-> ShowRunningSetup(x, there), ok |-> FALSE]
  BY DEF PutBack
<1>2. Fit(api)
  BY SetApiIs DEF Fit
<1>3. stream2 \in Setups
  BY DEF OpenScreens
<1>4. there \in OpenScreens
  BY DEF OpenScreens
<1> HIDE DEF api, stream2, there
<1>5. Fit(x)
  BY <1>1, <1>2, <1>3, OpenSetupIs DEF Fit
<1>6. ShowRunningSetup(x, there) \in OpenScreens
  BY <1>4, <1>5, ShowRunningIs DEF Fit
<1> QED
  BY <1>1, <1>5, <1>6 DEF Shown

\* Opening what the window shows, or putting back what ran.
LEMMA OpenShownIs ==
  ASSUME NEW h, Fit(h), plugged \in Listings, NEW sc \in OpenScreens, NEW r \in OpenShownAudio(h, sc)
  PROVE  Shown(r)
<1> DEFINE shown == ShownSetup(sc)
           tried == OpenSetup(h, shown)
           kept == [sc EXCEPT !.openedHere = TRUE, !.apiChanged = FALSE]
           Took(x) == [h |-> x, ok |-> TRUE,
                       sc |-> IF shown.frames # x.buffer THEN FillBufferSizes(x, kept, x.buffer) ELSE kept]
<1>1. \/ r.h = h /\ r.sc = sc
      \/ \E x \in tried : r = Took(x)
      \/ \E x \in tried : r \in PutBack(x, sc, RunningSetup(h))
  BY DEF OpenShownAudio
<1>2. shown \in Setups /\ RunningSetup(h) \in Setups
  BY SetupsAre DEF Fit
<1> HIDE DEF shown
<1>3. \A x \in tried : Fit(x)
  BY <1>2, OpenSetupIs DEF Fit
<1> HIDE DEF tried
<1>4. kept \in OpenScreens
  BY DEF OpenScreens
<1> HIDE DEF kept
<1>5. ASSUME NEW x \in tried PROVE Shown(Took(x))
  <2>1. Fit(x) /\ x \in Hosts /\ x.buffer \in Nat
    BY <1>3 DEF Fit, Hosts
  <2>2. FillBufferSizes(x, kept, x.buffer) \in OpenScreens
    BY <1>4, <2>1, FillSizesIs
  <2> QED
    BY <1>4, <2>1, <2>2 DEF Shown
<1>6. CASE r.h = h /\ r.sc = sc
  BY <1>6 DEF Shown
<1>7. CASE \E x \in tried : r = Took(x)
  <2> HIDE DEF Took
  <2> QED
    BY <1>5, <1>7
<1>8. CASE \E x \in tried : r \in PutBack(x, sc, RunningSetup(h))
  BY <1>2, <1>3, <1>8, PutBackIs
<1> QED
  BY <1>1, <1>6, <1>7, <1>8

\* What Cancel goes back to.
LEMMA RestoredIs ==
  ASSUME NEW h, Fit(h), plugged \in Listings, NEW sc \in OpenScreens, NEW x \in Restored(h, sc)
  PROVE  Fit(x)
<1> DEFINE api == IF h.api # sc.apiWhenOpened THEN SetAudioApi(h, sc.apiWhenOpened) ELSE h
           saved == ApplyAudioSettings(api)
           tried == StartAudioThreadOn(saved, saved.inDev, saved.inUsed /\ HasInput, saved.outDev,
                                       saved.outUsed /\ HasOutput, saved.rate)
<1>1. \/ x = h
      \/ x \in OpenSetup(api, sc.whenOpened)
      \/ \E y \in tried : x = [y EXCEPT !.lost = FALSE]
  BY DEF Restored
<1>2. api \in Hosts /\ sc.whenOpened \in Setups
  BY SetApiIs DEF Fit, OpenScreens
<1> HIDE DEF api
<1>3. saved \in Hosts
  BY <1>2, ApplySettingsIs
<1> HIDE DEF saved
<1>4. saved.inDev \in Ids /\ saved.outDev \in Ids
  BY <1>3 DEF Hosts
<1>5. \A y \in tried : Fit(y)
  BY <1>3, <1>4, StartOnIs DEF Sound, Fit
<1> HIDE DEF tried
<1>6. CASE x \in OpenSetup(api, sc.whenOpened)
  BY <1>2, <1>6, OpenSetupIs
<1>7. CASE \E y \in tried : x = [y EXCEPT !.lost = FALSE]
  BY <1>5, <1>7, NotedIs
<1> QED
  BY <1>1, <1>6, <1>7

Screens == OpenScreens \cup {NoScreen, ClosedWith("applied"), ClosedWith("cancelled")}

\* The host is one the plugin's stream fits, and the window over it shows what there is.
ScreenInv == Fit(host) /\ plugged \in Listings /\ screen \in Screens

\* What the first host is made of.
LEMMA FirstHostIs ==
  /\ <<>> \in Listings /\ NoStream \in Granted /\ "" \in ApiNames
  /\ NoDevice \in Ids /\ 0 \in 0 .. RetryLimit /\ DefaultSize \in Nat
  /\ [d \in DOMAIN Devices |-> Smallest(Devices[d].rates)] \in Listings
<1>1. <<>> \in Listings
  <2>1. <<>> \in Seq(Rate) /\ Len(<<>>) = 0
    OBVIOUS
  <2>2. <<>> \in [1 .. 0 -> Rate]
    BY <2>1
  <2>3. 1 .. 0 = {}
    OBVIOUS
  <2> QED
    BY <2>2, <2>3, IsListing
<1>2. [d \in DOMAIN Devices |-> Smallest(Devices[d].rates)] \in Listings
  <2> DEFINE all == [d \in DOMAIN Devices |-> Smallest(Devices[d].rates)]
             P == DOMAIN Devices
  <2>1. all \in [P -> Rate]
    BY DevicesAre
  <2> HIDE DEF all
  <2>2. all \in Listings
    BY <2>1, IsListing
  <2> QED
    BY <2>2 DEF all
<1>3. NoStream \in Granted
  BY DEF NoStream, Granted
<1>4. "" \in ApiNames
  BY DEF ApiNames
<1>5. 0 \in 0 .. RetryLimit
  BY StreamAssumption DEF StreamAssumption
<1> QED
  BY <1>1, <1>2, <1>3, <1>4, <1>5, SizesAre, DevicesAre

\* No stream and no window are there at first.
LEMMA ScreenBegins == ScreenInit => ScreenInv
<1> SUFFICES ASSUME ScreenInit PROVE ScreenInv
  OBVIOUS
<1>1. plugged \in Listings
  BY FirstHostIs DEF ScreenInit, StreamInit
<1> DEFINE empty == <<>>
           first == [api |-> "", out |-> NoDevice, in |-> NoDevice, outUsed |-> TRUE,
                     inUsed |-> TRUE, rate |-> 0, buffer |-> DefaultSize]
<1>2. host = [api |-> "", backend |-> "none", listed |-> empty, active |-> FALSE,
              plugin |-> NoStream, stream |-> NoStream, rate |-> 0, buffer |-> 0,
              inDev |-> NoDevice, outDev |-> NoDevice, inUsed |-> TRUE, outUsed |-> TRUE,
              ins |-> 0, outs |-> 0, stopped |-> FALSE, rateChanged |-> FALSE,
              devicesChanged |-> FALSE, reset |-> FALSE, reopen |-> FALSE, tries |-> 0,
              due |-> FALSE, lost |-> FALSE, request |-> NoRequest, error |-> FALSE,
              settings |-> first]
  BY Zenon DEF ScreenInit, StreamInit
<1>3. empty \in Listings
  BY FirstHostIs
<1>4. first \in SettingsFiles
  BY FirstHostIs DEF SettingsFiles
<1> HIDE DEF empty, first
<1>5. host \in Hosts
  BY <1>2, <1>3, <1>4, FirstHostIs DEF Hosts
<1>6. host.backend = "none"
  BY <1>2
<1>7. screen \in Screens
  BY Zenon DEF ScreenInit, Screens
<1> QED
  BY <1>1, <1>5, <1>6, <1>7, ClosedFits DEF ScreenInv

\* The launch, the polls and what the plugin asks for.
LEMMA HostSteps ==
  ASSUME ScreenInv, Launch \/ PollAudioEvents \/ TakeDriverReset \/ RequestAudioConfig \/ RetryDue
  PROVE  Fit(host') /\ plugged' \in Listings
<1>1. Fit(host) /\ host \in Hosts /\ plugged \in Listings
  BY DEF ScreenInv, Fit
<1>2. plugged' = plugged
  BY DEF Launch, PollAudioEvents, TakeDriverReset, RequestAudioConfig, RetryDue
<1>3. CASE Launch
  BY <1>1, <1>3, StartIs DEF Launch, Sound, Fit
<1>4. CASE PollAudioEvents
  <2>1. PICK a \in HandleStopped(host) : \E b \in RetryReopen(HandleDevices(a)) :
          host' \in ApplyAudioConfigRequest([b EXCEPT !.devicesChanged = FALSE])
    BY <1>4 DEF PollAudioEvents
  <2>9. PICK b \in RetryReopen(HandleDevices(a)) :
          host' \in ApplyAudioConfigRequest([b EXCEPT !.devicesChanged = FALSE])
    BY <2>1
  <2>2. Fit(a)
    BY <1>1, <2>1, HandleStoppedIs
  <2>3. Fit(HandleDevices(a))
    BY <1>1, <2>2, HandleDevicesIs
  <2>4. Fit(b) /\ b \in Hosts
    BY <1>1, <2>3, <2>9, RetryReopenIs DEF Fit
  <2> DEFINE k == [b EXCEPT !.devicesChanged = FALSE]
  <2>5. k \in Hosts
    BY <2>4 DEF Hosts
  <2>6. /\ k.backend = b.backend /\ k.active = b.active /\ k.plugin = b.plugin /\ k.stream = b.stream
        /\ k.rate = b.rate /\ k.stopped = b.stopped /\ k.rateChanged = b.rateChanged
    BY <2>4 DEF Hosts
  <2>7. host' \in ApplyAudioConfigRequest(k)
    BY <2>9
  <2> HIDE DEF k
  <2>8. Fit(k)
    BY <2>4, <2>5, <2>6, FitStays, SMTT(40)
  <2> QED
    BY <1>1, <1>2, <2>7, <2>8, RequestIs
<1>5. CASE TakeDriverReset
  <2> DEFINE k == [host EXCEPT !.reset = FALSE]
  <2>1. k \in Hosts
    BY <1>1, ZenonT(60) DEF Hosts
  <2>2. PICK x \in StartAudioThreadOn(k, host.inDev, host.inUsed /\ HasInput, host.outDev,
                                      host.outUsed /\ HasOutput, host.rate) :
          host' = [x EXCEPT !.lost = FALSE]
    BY <1>5 DEF TakeDriverReset
  <2> HIDE DEF k
  <2>3. host.inDev \in Ids /\ host.outDev \in Ids
    BY <1>1 DEF Hosts
  <2>4. Fit(x)
    BY <1>1, <2>1, <2>2, <2>3, StartOnIs DEF Sound, Fit
  <2> QED
    BY <1>1, <1>2, <2>2, <2>4, NotedIs
<1>6. CASE RequestAudioConfig
  BY <1>1, <1>2, <1>6, WithRequestIs DEF RequestAudioConfig
<1>7. CASE RetryDue
  <2>1. host' = [host EXCEPT !.due = TRUE]
    BY <1>7 DEF RetryDue
  <2>2. host' \in Hosts
    BY <1>1, <2>1, ZenonT(60) DEF Hosts
  <2>3. /\ host'.backend = host.backend /\ host'.active = host.active /\ host'.plugin = host.plugin
        /\ host'.stream = host.stream /\ host'.rate = host.rate /\ host'.stopped = host.stopped
        /\ host'.rateChanged = host.rateChanged
    BY <1>1, <2>1 DEF Hosts
  <2> QED
    BY <1>1, <1>2, <2>2, <2>3, FitStays
<1> QED
  BY <1>2, <1>3, <1>4, <1>5, <1>6, <1>7, <1>1

\* A stream that ran has died: the plugin is still on it.
LEMMA DiedFits ==
  ASSUME NEW h, Fit(h), h.backend = "running", NEW k \in Hosts, k.backend = "died",
         k.active = h.active, k.plugin = h.plugin, k.stream = h.stream, k.rate = h.rate
  PROVE  Fit(k)
BY DEF Fit, StreamFits

\* What the backend's own thread reports.
LEMMA EventSteps ==
  ASSUME ScreenInv, OnStreamStopped \/ OnRateChanged \/ OnResetRequested \/ OnDevicesChanged
  PROVE  Fit(host') /\ plugged' \in Listings
<1>1. Fit(host) /\ host \in Hosts /\ plugged \in Listings
  BY DEF ScreenInv, Fit
<1>2. DOMAIN plugged \subseteq DOMAIN Devices /\ \A d \in DOMAIN plugged : plugged[d] \in Rate
  BY <1>1, ListingsAre
<1>3. CASE OnStreamStopped
  <2>1. host' = [host EXCEPT !.backend = "died", !.stopped = TRUE] /\ host.backend = "running" /\ plugged' = plugged
    BY <1>3 DEF OnStreamStopped
  <2>2. host' \in Hosts
    BY <1>1, <2>1, ZenonT(60) DEF Hosts
  <2>3. /\ host'.backend = "died" /\ host'.active = host.active /\ host'.plugin = host.plugin
        /\ host'.stream = host.stream /\ host'.rate = host.rate
    BY <1>1, <2>1 DEF Hosts
  <2> QED
    BY <1>1, <2>1, <2>2, <2>3, DiedFits
<1>4. CASE OnRateChanged
  <2>1. PICK d \in DOMAIN plugged : \E r \in Devices[d].rates : plugged' = [plugged EXCEPT ![d] = r]
    BY <1>4 DEF OnRateChanged
  <2>2. PICK r \in Devices[d].rates : plugged' = [plugged EXCEPT ![d] = r]
    BY <2>1
  <2>3. r \in Rate
    BY <1>2, DevicesAre
  <2>4. plugged \in [DOMAIN plugged -> Rate]
    BY <1>1, <1>2 DEF Listings
  <2>5. plugged' \in [DOMAIN plugged -> Rate]
    BY <2>2, <2>3, <2>4
  <2>6. plugged' \in Listings
    BY <1>2, <2>5, IsListing
  <2>7. host' = [host EXCEPT !.backend = "died", !.rateChanged = TRUE] /\ host.backend = "running"
    BY <1>4 DEF OnRateChanged
  <2>8. host' \in Hosts
    BY <1>1, <2>7, ZenonT(60) DEF Hosts
  <2>9. /\ host'.backend = "died" /\ host'.active = host.active /\ host'.plugin = host.plugin
        /\ host'.stream = host.stream /\ host'.rate = host.rate
    BY <1>1, <2>7 DEF Hosts
  <2> QED
    BY <1>1, <2>6, <2>7, <2>8, <2>9, DiedFits
<1>5. CASE OnResetRequested
  <2>1. host' = [host EXCEPT !.backend = "closed", !.reset = TRUE] /\ plugged' = plugged
    BY <1>5 DEF OnResetRequested
  <2>2. host' \in Hosts /\ host'.backend = "closed"
    BY <1>1, <2>1, ZenonT(60) DEF Hosts
  <2> QED
    BY <1>1, <2>1, <2>2, ClosedFits
<1>6. CASE OnDevicesChanged
  <2>1. PICK d \in DOMAIN Devices :
          \/ /\ d \in DOMAIN plugged
             /\ plugged' = [x \in DOMAIN plugged \ {d} |-> plugged[x]]
             /\ host' = IF host.backend = "running" /\ d \in {host.inDev, host.outDev}
                        THEN [host EXCEPT !.backend = "died", !.stopped = TRUE,
                                          !.devicesChanged = TRUE]
                        ELSE [host EXCEPT !.devicesChanged = TRUE]
          \/ /\ d \notin DOMAIN plugged
             /\ plugged' = [x \in DOMAIN plugged \cup {d} |->
                              IF x = d THEN Smallest(Devices[d].rates) ELSE plugged[x]]
             /\ host' = [host EXCEPT !.devicesChanged = TRUE]
    BY <1>6 DEF OnDevicesChanged
  <2>2. plugged' \in Listings
    <3>1. CASE plugged' = [x \in DOMAIN plugged \ {d} |-> plugged[x]]
      <4> DEFINE P == DOMAIN plugged \ {d}
      <4>1. P \in SUBSET DOMAIN Devices /\ \A x \in P : plugged[x] \in Rate
        BY <1>2
      <4>2. plugged' = [x \in P |-> plugged[x]]
        BY <3>1
      <4> HIDE DEF P
      <4>3. plugged' \in [P -> Rate]
        BY <4>1, <4>2
      <4> QED
        BY <4>1, <4>3, IsListing
    <3>2. CASE plugged' = [x \in DOMAIN plugged \cup {d} |->
                             IF x = d THEN Smallest(Devices[d].rates) ELSE plugged[x]]
      <4> DEFINE P == DOMAIN plugged \cup {d}
                 at(x) == IF x = d THEN Smallest(Devices[d].rates) ELSE plugged[x]
      <4>1. P \in SUBSET DOMAIN Devices /\ \A x \in P : at(x) \in Rate
        BY <1>2, DevicesAre
      <4>2. plugged' = [x \in P |-> at(x)]
        BY <3>2
      <4> HIDE DEF P, at
      <4>3. plugged' \in [P -> Rate]
        BY <4>1, <4>2
      <4> QED
        BY <4>1, <4>3, IsListing
    <3> QED
      BY <2>1, <3>1, <3>2
  <2>3. CASE host' = [host EXCEPT !.devicesChanged = TRUE]
    <3>1. host' \in Hosts
      BY <1>1, <2>3, ZenonT(60) DEF Hosts
    <3>2. /\ host'.backend = host.backend /\ host'.active = host.active /\ host'.plugin = host.plugin
          /\ host'.stream = host.stream /\ host'.rate = host.rate /\ host'.stopped = host.stopped
          /\ host'.rateChanged = host.rateChanged
      BY <1>1, <2>3 DEF Hosts
    <3> QED
      BY <1>1, <2>2, <3>1, <3>2, FitStays
  <2>4. CASE /\ host.backend = "running"
             /\ host' = [host EXCEPT !.backend = "died", !.stopped = TRUE, !.devicesChanged = TRUE]
    <3>1. host' \in Hosts
      BY <1>1, <2>4, ZenonT(60) DEF Hosts
    <3>2. /\ host'.backend = "died" /\ host'.active = host.active /\ host'.plugin = host.plugin
          /\ host'.stream = host.stream /\ host'.rate = host.rate
      BY <1>1, <2>4 DEF Hosts
    <3> QED
      BY <1>1, <2>2, <2>4, <3>1, <3>2, DiedFits
  <2> QED
    BY <2>1, <2>3, <2>4
<1> QED
  BY <1>3, <1>4, <1>5, <1>6

\* What is chosen in the window.
LEMMA ApplyShownIs ==
  ASSUME ScreenInv, NEW h, Fit(h), NEW sc \in OpenScreens, ApplyShown(h, sc)
  PROVE  Fit(host') /\ screen' \in Screens
<1>1. PICK r \in OpenShownAudio(h, sc) : host' = r.h /\ screen' = r.sc
  BY DEF ApplyShown
<1>2. Shown(r)
  BY <1>1, OpenShownIs DEF ScreenInv
<1> QED
  BY <1>1, <1>2 DEF Shown, Screens

\* The steps of the window.
LEMMA WindowSteps ==
  ASSUME ScreenInv, OpenScreen \/ CloseMenu \/ OnDefaults \/ Ok \/ Cancel
  PROVE  ScreenInv'
<1>1. Fit(host) /\ host \in Hosts /\ plugged \in Listings /\ screen \in Screens
  BY SMTT(40) DEF ScreenInv, Fit
<1>2. plugged' = plugged
  BY DEF OpenScreen, CloseMenu, OnDefaults, Ok, Cancel
<1>3. screen.up => screen \in OpenScreens
  BY <1>1 DEF Screens, NoScreen, ClosedWith
<1>4. CASE OpenScreen
  <2> DEFINE sc == [up |-> TRUE, out |-> NoDevice, in |-> NoDevice, rate |-> 0, frames |-> 0,
                    okEnabled |-> FALSE, apiChanged |-> FALSE, openedHere |-> FALSE,
                    whenOpened |-> RunningSetup(host), apiWhenOpened |-> host.api]
  <2>1. RunningSetup(host) \in Setups /\ host.api \in ApiNames /\ NoDevice \in Ids
    BY <1>1, SetupsAre, DevicesAre DEF Hosts
  <2>2. sc \in OpenScreens
    BY <2>1 DEF OpenScreens
  <2>3. screen' = ShowRunningSetup(host, sc) /\ host' = host
    BY <1>4 DEF OpenScreen
  <2> HIDE DEF sc
  <2>4. screen' \in Screens
    BY <1>1, <2>2, <2>3, ShowRunningIs DEF Screens
  <2> QED
    BY <1>1, <1>2, <2>3, <2>4 DEF ScreenInv
<1>5. CASE CloseMenu
  <2>1. screen \in OpenScreens
    BY <1>3, <1>5 DEF CloseMenu
  <2>2. screen.in \in Ids /\ screen.out \in Ids /\ screen.rate \in Nat /\ screen.frames \in Nat
    BY <2>1 DEF OpenScreens
  <2>3. ASSUME NEW id, OnApiChanged(id) PROVE Fit(host') /\ screen' \in Screens
    <3> DEFINE there == SetAudioApi(host, id)
               in == IF screen.in = NoDevice THEN NoDevice ELSE DefaultInputToOpen(there)
               kept == [screen EXCEPT !.apiChanged = TRUE]
               sc == Fill(there, kept, DefaultDevice(there, FALSE), in, 0, screen.frames)
    <3>1. ApplyShown(there, sc)
      BY <2>3 DEF OnApiChanged
    <3>2. Fit(there) /\ there \in Hosts
      BY <1>1, SetApiIs DEF Fit
    <3>3. kept \in OpenScreens
      BY <2>1 DEF OpenScreens
    <3> HIDE DEF there, in, kept
    <3>4. sc \in OpenScreens
      BY <2>2, <3>2, <3>3, FillIs
    <3> HIDE DEF sc
    <3> QED
      BY <3>1, <3>2, <3>4, ApplyShownIs
  <2>4. ASSUME NEW sc \in OpenScreens, OnDeviceChanged(sc) PROVE Fit(host') /\ screen' \in Screens
    <3> DEFINE to == FillBufferSizes(host, FillRates(sc, sc.rate), sc.frames)
    <3>1. ApplyShown(host, to)
      BY <2>4 DEF OnDeviceChanged
    <3>2. sc.frames \in Nat
      BY DEF OpenScreens
    <3>3. to \in OpenScreens
      BY <1>1, <3>2, FillRatesIs, FillSizesIs
    <3> HIDE DEF to
    <3> QED
      BY <1>1, <3>1, <3>3, ApplyShownIs
  <2>5. \A d \in Ids : [screen EXCEPT !.out = d] \in OpenScreens /\ [screen EXCEPT !.in = d] \in OpenScreens
    BY <2>1 DEF OpenScreens
  <2>6. OutDevices(host) \subseteq Ids /\ InDevices(host) \subseteq Ids /\ NoDevice \in Ids
    <3>1. host.listed \in Listings
      BY <1>1 DEF Hosts
    <3> QED
      BY <3>1, ListingsAre, DevicesAre DEF OutDevices, InDevices
  <2>7. ASSUME NEW r \in CommonRates(screen.out, screen.in), ApplyShown(host, [screen EXCEPT !.rate = r])
        PROVE  Fit(host') /\ screen' \in Screens
    <3>1. screen.out # NoDevice => screen.out \in DOMAIN Devices
      BY <2>2, StreamAssumption DEF StreamAssumption, Ids, NoDevice
    <3>2. r \in Nat
      BY <3>1, DevicesAre DEF CommonRates, Rate
    <3> DEFINE sc == [screen EXCEPT !.rate = r]
    <3>3. sc \in OpenScreens
      BY <2>1, <3>2 DEF OpenScreens
    <3>4. ApplyShown(host, sc)
      BY <2>7
    <3> HIDE DEF sc
    <3> QED
      BY <1>1, <3>3, <3>4, ApplyShownIs
  <2>8. \/ \E i \in DOMAIN Apis : OnApiChanged(Apis[i])
        \/ \E d \in OutDevices(host) : OnDeviceChanged([screen EXCEPT !.out = d])
        \/ \E d \in InDevices(host) \cup {NoDevice} : OnDeviceChanged([screen EXCEPT !.in = d])
        \/ \E r \in CommonRates(screen.out, screen.in) : ApplyShown(host, [screen EXCEPT !.rate = r])
    BY <1>5 DEF CloseMenu
  <2>9. Fit(host') /\ screen' \in Screens
    BY <2>3, <2>4, <2>5, <2>6, <2>7, <2>8
  <2> QED
    BY <1>1, <1>2, <2>9 DEF ScreenInv, Fit, StreamFits
<1>6. CASE OnDefaults
  <2>1. screen \in OpenScreens
    BY <1>3, <1>6 DEF OnDefaults
  <2> DEFINE rate == IF DefaultDevice(host, FALSE) = NoDevice THEN 0
                     ELSE RateOfferedBy(host, DefaultDevice(host, FALSE), 0)
             sc == Fill(host, screen, DefaultDevice(host, FALSE), DefaultInputToOpen(host), rate, DefaultSize)
  <2>2. ApplyShown(host, sc)
    BY <1>6 DEF OnDefaults
  <2> HIDE DEF rate
  <2>3. sc \in OpenScreens
    BY <1>1, <2>1, SizesAre, FillIs
  <2> HIDE DEF sc
  <2>4. Fit(host') /\ screen' \in Screens
    BY <1>1, <2>2, <2>3, ApplyShownIs
  <2> QED
    BY <1>1, <1>2, <2>4 DEF ScreenInv, Fit, StreamFits
<1>7. CASE Ok
  <2>1. screen \in OpenScreens
    BY <1>3, <1>7, ZenonT(60) DEF Ok
  <2>2. PICK r \in OpenShownAudio(host, screen) :
          IF ~r.ok THEN host' = r.h /\ screen' = r.sc
          ELSE LET shown == ShownSetup(screen)
                   s == SetChosenDevices(host.settings, r.h, shown.out, shown.in)
               IN /\ host' = [r.h EXCEPT !.settings =
                                CaptureAudioSettings([s EXCEPT !.outUsed = shown.useOut,
                                                               !.inUsed = shown.useIn,
                                                               !.rate = shown.rate], r.h)]
                  /\ screen' = ClosedWith("applied")
    BY <1>7, Zenon DEF Ok
  <2>3. Fit(r.h) /\ r.sc \in OpenScreens
    BY <1>1, <2>1, OpenShownIs DEF Shown
  <2>4. CASE ~ r.ok
    BY <1>1, <1>2, <2>2, <2>3, <2>4 DEF ScreenInv, Screens, Fit, StreamFits
  <2>5. CASE r.ok
    <3> DEFINE shown == ShownSetup(screen)
               y == r.h
               out == shown.out
               in == shown.in
               useOut == shown.useOut
               useIn == shown.useIn
               rate == shown.rate
               s == CaptureAudioSettings([SetChosenDevices(host.settings, y, out, in) EXCEPT
                      !.outUsed = useOut, !.inUsed = useIn, !.rate = rate], y)
    <3>1. host' = [y EXCEPT !.settings = s] /\ screen' = ClosedWith("applied")
      BY <2>2, <2>5
    <3>2. shown \in Setups
      BY <2>1, SetupsAre
    <3> HIDE DEF shown
    <3>3. out \in Ids /\ in \in Ids /\ useOut \in BOOLEAN /\ useIn \in BOOLEAN /\ rate \in Nat
      BY <3>2 DEF Setups
    <3>4. y \in Hosts /\ Fit(y) /\ host.settings \in SettingsFiles
      BY <1>1, <2>3, SMTT(40) DEF Fit, Hosts
    <3> HIDE DEF y, out, in, useOut, useIn, rate
    <3>5. s \in SettingsFiles
      BY <3>3, <3>4, KeptIs, ZenonT(60)
    <3> HIDE DEF s
    <3>6. Fit(host')
      BY <3>1, <3>4, <3>5, WithSettingsIs
    <3> QED
      BY <1>1, <1>2, <3>1, <3>6 DEF ScreenInv, Screens, Fit, StreamFits
  <2> QED
    BY <2>4, <2>5, SMTT(40)
<1>8. CASE Cancel
  <2>1. screen \in OpenScreens /\ host' \in Restored(host, screen) /\ screen' = ClosedWith("cancelled")
    BY <1>3, <1>8 DEF Cancel
  <2>2. Fit(host')
    BY <1>1, <2>1, RestoredIs
  <2> QED
    BY <1>1, <1>2, <2>1, <2>2 DEF ScreenInv, Screens, Fit, StreamFits
<1> QED
  BY <1>4, <1>5, <1>6, <1>7, <1>8

\* Every step keeps the plugin activated for its stream.
LEMMA ScreenStep == ScreenInv /\ [ScreenNext]_screenVars => ScreenInv'
<1> SUFFICES ASSUME ScreenInv, [ScreenNext]_screenVars PROVE ScreenInv'
  OBVIOUS
<1>1. CASE UNCHANGED screenVars
  BY <1>1 DEF ScreenInv, screenVars, Fit, StreamFits
<1>2. CASE ScreenPoll
  <2>1. Fit(host') /\ plugged' \in Listings
    BY <1>2, HostSteps DEF ScreenPoll
  <2>2. screen' \in Screens
    <3>1. screen \in Screens
      BY DEF ScreenInv
    <3>2. CASE screen.up
      <4>1. screen \in OpenScreens
        BY <3>1, <3>2 DEF Screens, NoScreen, ClosedWith
      <4>2. screen.frames \in Nat
        BY <4>1 DEF OpenScreens
      <4>3. Fill(host', screen, screen.out, screen.in, screen.rate, screen.frames) \in OpenScreens
        BY <2>1, <4>1, <4>2, FillIs DEF Fit
      <4> QED
        BY <1>2, <3>1, <4>3 DEF ScreenPoll, Screens
    <3>3. CASE ~ screen.up
      BY <1>2, <3>1, <3>3 DEF ScreenPoll
    <3> QED
      BY <3>2, <3>3
  <2> QED
    BY <2>1, <2>2 DEF ScreenInv, Fit, StreamFits
<1>3. CASE /\ Launch \/ TakeDriverReset \/ RequestAudioConfig \/ RetryDue
           /\ UNCHANGED screen
  <2>1. Fit(host') /\ plugged' \in Listings
    BY <1>3, HostSteps
  <2> QED
    BY <1>3, <2>1 DEF ScreenInv, Fit, StreamFits
<1>4. CASE /\ OnStreamStopped \/ OnRateChanged \/ OnResetRequested \/ OnDevicesChanged
           /\ UNCHANGED screen
  <2>1. Fit(host') /\ plugged' \in Listings
    BY <1>4, EventSteps
  <2> QED
    BY <1>4, <2>1 DEF ScreenInv, Fit, StreamFits
<1>5. CASE OpenScreen \/ CloseMenu \/ OnDefaults \/ Ok \/ Cancel
  BY <1>5, WindowSteps
<1> QED
  BY <1>1, <1>2, <1>3, <1>4, <1>5 DEF ScreenNext

-----------------------------------------------------------------------------
(* The audio callback. *)

TakeDownSteps ==
  {"stopAudioThread", "quiesce", "acknowledged", "stop", "deactivatePlugin", "stop_processing",
   "deactivate", "new backend"}
MainSteps == TakeDownSteps \cup {"open", "activatePlugin", "activate", "start_processing", "let in", "start"}

\* The steps that can come next in a call of the main thread.
Follow ==
  {<<"stopAudioThread", "open">>, <<"stopAudioThread", "deactivatePlugin">>,
   <<"quiesce", "acknowledged">>, <<"acknowledged", "stop">>, <<"acknowledged", "stop_processing">>,
   <<"stop", "open">>, <<"stop", "deactivatePlugin">>, <<"open", "activatePlugin">>,
   <<"activatePlugin", "start">>, <<"deactivatePlugin", "activate">>, <<"deactivatePlugin", "stop">>,
   <<"deactivatePlugin", "new backend">>, <<"stop_processing", "deactivate">>,
   <<"deactivate", "activate">>, <<"deactivate", "stop">>, <<"deactivate", "new backend">>,
   <<"activate", "start">>, <<"start_processing", "start">>, <<"let in", "start">>}

\* A call's steps, each one that can come after the one before.
Chained(t) == t \in Seq(MainSteps) /\ \A i \in 1 .. Len(t) - 1 : <<t[i], t[i + 1]>> \in Follow

StepsOf(t) == {t[i] : i \in 1 .. Len(t)}

\* A new backend comes only once the stream is down, and what is left to do does not open one.
NewBackendLast ==
  "new backend" \in StepsOf(todo) =>
    /\ StepsOf(todo) \subseteq TakeDownSteps
    /\ stream = "closed" \/ "stop" \in StepsOf(todo) \/ "stopAudioThread" \in StepsOf(todo)

\* What the step about to be made relies on.
Ready(step) ==
  /\ step \in {"acknowledged", "stop_processing"} => ~ running /\ pass # "processing"
  /\ step = "deactivate" => ~ isProcessing
  /\ step = "activate" => ~ isActive
  /\ step = "start_processing" => isActive /\ ~ isProcessing
  /\ step = "let in" => isActive /\ isProcessing
  /\ step = "start" => (running => isActive /\ isProcessing)

\* Who may be in the plugin.
CallInPlugin ==
  /\ pass # "out" => stream \in {"running", "stopped"}
  /\ pass = "processing" => isActive /\ isProcessing
  /\ isProcessing => isActive
  /\ running /\ stream \in {"running", "stopped"} => isActive /\ isProcessing

CallbackInv ==
  /\ CallbackTypeOK /\ CallInPlugin
  /\ Chained(todo) /\ NewBackendLast /\ (todo # <<>> => Ready(Head(todo)))

\* The rest of a call.
LEMMA RestIs ==
  ASSUME NEW t, Chained(t), t # <<>>
  PROVE  /\ Chained(Tail(t)) /\ Head(t) \in MainSteps /\ StepsOf(t) = {Head(t)} \cup StepsOf(Tail(t))
         /\ Tail(t) # <<>> => <<Head(t), Head(Tail(t))>> \in Follow
         /\ Head(t) \in {"start", "new backend"} => Tail(t) = <<>>
<1> DEFINE r == Tail(t)
<1>1. t \in Seq(MainSteps) /\ Len(t) \in Nat \ {0} /\ Head(t) = t[1]
  BY DEF Chained
<1>2. r \in Seq(MainSteps) /\ Len(r) = Len(t) - 1 /\ \A i \in 1 .. Len(r) : r[i] = t[i + 1]
  BY <1>1
<1> HIDE DEF r
<1>3. \A i \in 1 .. Len(t) - 1 : <<t[i], t[i + 1]>> \in Follow
  BY DEF Chained
<1>4. ASSUME NEW i \in 1 .. Len(r) - 1 PROVE <<r[i], r[i + 1]>> \in Follow
  <2>1. i + 1 \in 1 .. Len(t) - 1 /\ i \in 1 .. Len(r) /\ i + 1 \in 1 .. Len(r)
    BY <1>1, <1>2
  <2>2. r[i] = t[i + 1] /\ r[i + 1] = t[(i + 1) + 1]
    BY <1>2, <2>1
  <2> QED
    BY <1>3, <2>1, <2>2
<1>5. Chained(r)
  BY <1>2, <1>4 DEF Chained
<1>6. StepsOf(t) = {Head(t)} \cup StepsOf(r)
  <2>1. ASSUME NEW i \in 1 .. Len(t) PROVE t[i] \in {Head(t)} \cup StepsOf(r)
    <3>1. CASE i = 1
      BY <1>1, <3>1
    <3>2. CASE i # 1
      <4>1. i - 1 \in 1 .. Len(r) /\ (i - 1) + 1 = i
        BY <1>1, <1>2, <3>2
      <4>2. r[i - 1] = t[i]
        BY <1>2, <4>1
      <4> QED
        BY <4>1, <4>2 DEF StepsOf
    <3> QED
      BY <3>1, <3>2
  <2>2. ASSUME NEW i \in 1 .. Len(r) PROVE r[i] \in StepsOf(t)
    <3>1. i + 1 \in 1 .. Len(t) /\ r[i] = t[i + 1]
      BY <1>1, <1>2
    <3> QED
      BY <3>1 DEF StepsOf
  <2>3. Head(t) \in StepsOf(t)
    <3>1. 1 \in 1 .. Len(t)
      BY <1>1
    <3> QED
      BY <1>1, <3>1 DEF StepsOf
  <2> QED
    BY <2>1, <2>2, <2>3 DEF StepsOf
<1>7. r # <<>> => <<Head(t), Head(r)>> \in Follow
  <2> SUFFICES ASSUME r # <<>> PROVE <<Head(t), Head(r)>> \in Follow
    OBVIOUS
  <2>1. Len(r) # 0 /\ Head(r) = r[1]
    BY <1>2
  <2>2. 1 \in 1 .. Len(r) /\ 1 \in 1 .. Len(t) - 1
    BY <1>1, <1>2, <2>1
  <2>3. r[1] = t[1 + 1]
    BY <1>2, <2>2
  <2> QED
    BY <1>1, <1>3, <2>1, <2>2, <2>3
<1>8. Head(t) \in MainSteps
  BY <1>1
<1>9. Head(t) \in {"start", "new backend"} => r = <<>>
  BY <1>7 DEF Follow
<1> QED
  BY <1>5, <1>6, <1>7, <1>8, <1>9 DEF r

\* Steps put in front of others.
LEMMA JoinIs ==
  ASSUME NEW s, Chained(s), s # <<>>, NEW r, Chained(r),
         r # <<>> => <<s[Len(s)], Head(r)>> \in Follow
  PROVE  /\ Chained(s \o r) /\ s \o r # <<>> /\ Head(s \o r) = Head(s)
         /\ StepsOf(s \o r) = StepsOf(s) \cup StepsOf(r)
<1> DEFINE q == s \o r
<1>1. /\ s \in Seq(MainSteps) /\ Len(s) \in Nat \ {0} /\ Head(s) = s[1]
      /\ r \in Seq(MainSteps) /\ Len(r) \in Nat
  BY DEF Chained
<1>2. /\ q \in Seq(MainSteps) /\ Len(q) = Len(s) + Len(r)
      /\ \A i \in 1 .. Len(s) : q[i] = s[i]
      /\ \A i \in 1 .. Len(r) : q[i + Len(s)] = r[i]
  BY <1>1
<1> HIDE DEF q
<1>3. Len(q) \in Nat \ {0} /\ q # <<>> /\ Head(q) = q[1]
  BY <1>1, <1>2
<1>4. Head(q) = Head(s)
  BY <1>1, <1>2, <1>3
<1>5. ASSUME NEW i \in 1 .. Len(q) - 1 PROVE <<q[i], q[i + 1]>> \in Follow
  <2>1. CASE i + 1 <= Len(s)
    <3>1. i \in 1 .. Len(s) - 1 /\ i \in 1 .. Len(s) /\ i + 1 \in 1 .. Len(s)
      BY <1>1, <1>2, <2>1
    <3>2. q[i] = s[i] /\ q[i + 1] = s[i + 1]
      BY <1>2, <3>1
    <3> QED
      BY <3>1, <3>2 DEF Chained
  <2>2. CASE i = Len(s)
    <3>1. Len(r) # 0 /\ 1 \in 1 .. Len(r) /\ i \in 1 .. Len(s) /\ i + 1 = 1 + Len(s)
      BY <1>1, <1>2, <2>2
    <3>2. q[i] = s[i] /\ q[i + 1] = r[1] /\ Head(r) = r[1] /\ r # <<>>
      BY <1>1, <1>2, <3>1
    <3> QED
      BY <2>2, <3>2
  <2>3. CASE i > Len(s)
    <3> DEFINE j == i - Len(s)
    <3>1. /\ j \in 1 .. Len(r) - 1
          /\ j \in 1 .. Len(r)
          /\ j + 1 \in 1 .. Len(r)
          /\ j + Len(s) = i
          /\ (j + 1) + Len(s) = i + 1
      BY <1>1, <1>2, <2>3
    <3> HIDE DEF j
    <3>2. q[j + Len(s)] = r[j] /\ q[(j + 1) + Len(s)] = r[j + 1]
      BY <1>2, <3>1
    <3>3. q[i] = r[j] /\ q[i + 1] = r[j + 1]
      BY <3>1, <3>2
    <3> QED
      BY <3>1, <3>3 DEF Chained
  <2> QED
    BY <1>1, <1>2, <2>1, <2>2, <2>3
<1>6. StepsOf(q) = StepsOf(s) \cup StepsOf(r)
  <2>1. ASSUME NEW i \in 1 .. Len(q) PROVE q[i] \in StepsOf(s) \cup StepsOf(r)
    <3>1. CASE i <= Len(s)
      <4>1. i \in 1 .. Len(s)
        BY <1>1, <3>1
      <4> QED
        BY <1>2, <4>1 DEF StepsOf
    <3>2. CASE ~ (i <= Len(s))
      <4>1. i - Len(s) \in 1 .. Len(r) /\ (i - Len(s)) + Len(s) = i
        BY <1>1, <1>2, <3>2
      <4>2. q[(i - Len(s)) + Len(s)] = r[i - Len(s)]
        BY <1>2, <4>1
      <4> QED
        BY <4>1, <4>2 DEF StepsOf
    <3> QED
      BY <3>1, <3>2
  <2>2. ASSUME NEW i \in 1 .. Len(s) PROVE s[i] \in StepsOf(q)
    <3>1. i \in 1 .. Len(q) /\ q[i] = s[i]
      BY <1>1, <1>2
    <3> QED
      BY <3>1 DEF StepsOf
  <2>3. ASSUME NEW i \in 1 .. Len(r) PROVE r[i] \in StepsOf(q)
    <3>1. i + Len(s) \in 1 .. Len(q) /\ q[i + Len(s)] = r[i]
      BY <1>1, <1>2
    <3> QED
      BY <3>1 DEF StepsOf
  <2> QED
    BY <2>1, <2>2, <2>3 DEF StepsOf
<1> QED
  BY <1>2, <1>3, <1>4, <1>5, <1>6 DEF Chained, q

\* Calls of up to four steps.
LEMMA ShortCalls ==
  /\ Chained(<<>>) /\ StepsOf(<<>>) = {}
  /\ \A a \in MainSteps : Chained(<<a>>) /\ StepsOf(<<a>>) = {a}
  /\ \A a, b \in MainSteps : <<a, b>> \in Follow => Chained(<<a, b>>) /\ StepsOf(<<a, b>>) = {a, b}
  /\ \A a, b, c \in MainSteps :
       <<a, b>> \in Follow /\ <<b, c>> \in Follow => Chained(<<a, b, c>>) /\ StepsOf(<<a, b, c>>) = {a, b, c}
  /\ \A a, b, c, d \in MainSteps :
       <<a, b>> \in Follow /\ <<b, c>> \in Follow /\ <<c, d>> \in Follow =>
         Chained(<<a, b, c, d>>) /\ StepsOf(<<a, b, c, d>>) = {a, b, c, d}
<1> HIDE DEF Follow, MainSteps
<1>1. Chained(<<>>) /\ StepsOf(<<>>) = {}
  BY DEF Chained, StepsOf
<1>2. ASSUME NEW a \in MainSteps PROVE Chained(<<a>>) /\ StepsOf(<<a>>) = {a}
  BY DEF Chained, StepsOf
<1>3. ASSUME NEW a \in MainSteps, NEW b \in MainSteps, <<a, b>> \in Follow
      PROVE  Chained(<<a, b>>) /\ StepsOf(<<a, b>>) = {a, b}
  <2> DEFINE t == <<a, b>>
  <2>1. t \in Seq(MainSteps) /\ Len(t) = 2 /\ t[1] = a /\ t[2] = b
    OBVIOUS
  <2> HIDE DEF t
  <2>2. 1 .. Len(t) - 1 = {1} /\ 1 .. Len(t) = {1, 2}
    BY <2>1
  <2>3. StepsOf(t) = {a, b}
    BY <2>1, <2>2 DEF StepsOf
  <2>4. Chained(t)
    BY <1>3, <2>1, <2>2 DEF Chained, t
  <2> QED
    BY <2>3, <2>4 DEF t
<1>4. ASSUME NEW a \in MainSteps, NEW b \in MainSteps, NEW c \in MainSteps,
             <<a, b>> \in Follow, <<b, c>> \in Follow
      PROVE  Chained(<<a, b, c>>) /\ StepsOf(<<a, b, c>>) = {a, b, c}
  <2> DEFINE t == <<a, b, c>>
  <2>1. t \in Seq(MainSteps) /\ Len(t) = 3 /\ t[1] = a /\ t[2] = b /\ t[3] = c
    OBVIOUS
  <2> HIDE DEF t
  <2>2. 1 .. Len(t) - 1 = {1, 2} /\ 1 .. Len(t) = {1, 2, 3}
    BY <2>1
  <2>3. StepsOf(t) = {a, b, c}
    BY <2>1, <2>2 DEF StepsOf
  <2>4. Chained(t)
    BY <1>4, <2>1, <2>2 DEF Chained
  <2> QED
    BY <2>3, <2>4 DEF t
<1>5. ASSUME NEW a \in MainSteps, NEW b \in MainSteps, NEW c \in MainSteps, NEW d \in MainSteps,
             <<a, b>> \in Follow, <<b, c>> \in Follow, <<c, d>> \in Follow
      PROVE  Chained(<<a, b, c, d>>) /\ StepsOf(<<a, b, c, d>>) = {a, b, c, d}
  <2> DEFINE t == <<a, b, c, d>>
  <2>1. t \in Seq(MainSteps) /\ Len(t) = 4 /\ t[1] = a /\ t[2] = b /\ t[3] = c /\ t[4] = d
    OBVIOUS
  <2> HIDE DEF t
  <2>2. 1 .. Len(t) - 1 = {1, 2, 3} /\ 1 .. Len(t) = {1, 2, 3, 4}
    BY <2>1
  <2>3. StepsOf(t) = {a, b, c, d}
    BY <2>1, <2>2 DEF StepsOf
  <2>4. Chained(t)
    BY <1>5, <2>1, <2>2, SMTT(40) DEF Chained
  <2> QED
    BY <2>3, <2>4 DEF t
<1> QED
  BY <1>1, <1>2, <1>3, <1>4, <1>5

\* The calls of the main thread, and the parts of them that go in front of others.
LEMMA CallsAre ==
  /\ Chained(<<"stopAudioThread", "open", "activatePlugin", "start">>)
  /\ StepsOf(<<"stopAudioThread", "open", "activatePlugin", "start">>) =
       {"stopAudioThread", "open", "activatePlugin", "start"}
  /\ Chained(<<"stopAudioThread", "deactivatePlugin", "new backend">>)
  /\ StepsOf(<<"stopAudioThread", "deactivatePlugin", "new backend">>) =
       {"stopAudioThread", "deactivatePlugin", "new backend"}
  /\ Chained(<<"quiesce", "acknowledged", "stop">>)
  /\ StepsOf(<<"quiesce", "acknowledged", "stop">>) = {"quiesce", "acknowledged", "stop"}
  /\ Chained(<<"quiesce", "acknowledged", "stop_processing", "deactivate">>)
  /\ StepsOf(<<"quiesce", "acknowledged", "stop_processing", "deactivate">>) =
       {"quiesce", "acknowledged", "stop_processing", "deactivate"}
  /\ Chained(<<"deactivatePlugin", "stop">>)
  /\ StepsOf(<<"deactivatePlugin", "stop">>) = {"deactivatePlugin", "stop"}
  /\ \A a \in MainSteps : Chained(<<a>>) /\ StepsOf(<<a>>) = {a}
<1>1. /\ "stopAudioThread" \in MainSteps /\ "open" \in MainSteps /\ "activatePlugin" \in MainSteps
      /\ "start" \in MainSteps /\ "deactivatePlugin" \in MainSteps /\ "new backend" \in MainSteps
      /\ "quiesce" \in MainSteps /\ "acknowledged" \in MainSteps /\ "stop" \in MainSteps
      /\ "stop_processing" \in MainSteps /\ "deactivate" \in MainSteps
  BY DEF MainSteps, TakeDownSteps
<1>2. /\ <<"stopAudioThread", "open">> \in Follow /\ <<"open", "activatePlugin">> \in Follow
      /\ <<"activatePlugin", "start">> \in Follow
      /\ <<"stopAudioThread", "deactivatePlugin">> \in Follow
      /\ <<"deactivatePlugin", "new backend">> \in Follow
      /\ <<"quiesce", "acknowledged">> \in Follow /\ <<"acknowledged", "stop">> \in Follow
      /\ <<"acknowledged", "stop_processing">> \in Follow
      /\ <<"stop_processing", "deactivate">> \in Follow /\ <<"deactivatePlugin", "stop">> \in Follow
  BY Zenon DEF Follow
<1>3. /\ Chained(<<"stopAudioThread", "open", "activatePlugin", "start">>)
      /\ StepsOf(<<"stopAudioThread", "open", "activatePlugin", "start">>) =
           {"stopAudioThread", "open", "activatePlugin", "start"}
  <2> DEFINE a == "stopAudioThread"
             b == "open"
             c == "activatePlugin"
             d == "start"
  <2>1. a \in MainSteps /\ b \in MainSteps /\ c \in MainSteps /\ d \in MainSteps
    BY <1>1
  <2>2. <<a, b>> \in Follow /\ <<b, c>> \in Follow /\ <<c, d>> \in Follow
    BY <1>2
  <2> HIDE DEF a, b, c, d
  <2>3. Chained(<<a, b, c, d>>) /\ StepsOf(<<a, b, c, d>>) = {a, b, c, d}
    BY <2>1, <2>2, ShortCalls
  <2> QED
    BY <2>3 DEF a, b, c, d
<1>4. /\ Chained(<<"stopAudioThread", "deactivatePlugin", "new backend">>)
      /\ StepsOf(<<"stopAudioThread", "deactivatePlugin", "new backend">>) =
           {"stopAudioThread", "deactivatePlugin", "new backend"}
  <2> DEFINE a == "stopAudioThread"
             b == "deactivatePlugin"
             c == "new backend"
  <2>1. a \in MainSteps /\ b \in MainSteps /\ c \in MainSteps
    BY <1>1
  <2>2. <<a, b>> \in Follow /\ <<b, c>> \in Follow
    BY <1>2
  <2> HIDE DEF a, b, c
  <2>3. Chained(<<a, b, c>>) /\ StepsOf(<<a, b, c>>) = {a, b, c}
    BY <2>1, <2>2, ShortCalls
  <2> QED
    BY <2>3 DEF a, b, c
<1>5. /\ Chained(<<"quiesce", "acknowledged", "stop">>)
      /\ StepsOf(<<"quiesce", "acknowledged", "stop">>) = {"quiesce", "acknowledged", "stop"}
  <2> DEFINE a == "quiesce"
             b == "acknowledged"
             c == "stop"
  <2>1. a \in MainSteps /\ b \in MainSteps /\ c \in MainSteps
    BY <1>1
  <2>2. <<a, b>> \in Follow /\ <<b, c>> \in Follow
    BY <1>2
  <2> HIDE DEF a, b, c
  <2>3. Chained(<<a, b, c>>) /\ StepsOf(<<a, b, c>>) = {a, b, c}
    BY <2>1, <2>2, ShortCalls
  <2> QED
    BY <2>3 DEF a, b, c
<1>6. /\ Chained(<<"quiesce", "acknowledged", "stop_processing", "deactivate">>)
      /\ StepsOf(<<"quiesce", "acknowledged", "stop_processing", "deactivate">>) =
           {"quiesce", "acknowledged", "stop_processing", "deactivate"}
  <2> DEFINE a == "quiesce"
             b == "acknowledged"
             c == "stop_processing"
             d == "deactivate"
  <2>1. a \in MainSteps /\ b \in MainSteps /\ c \in MainSteps /\ d \in MainSteps
    BY <1>1
  <2>2. <<a, b>> \in Follow /\ <<b, c>> \in Follow /\ <<c, d>> \in Follow
    BY <1>2
  <2> HIDE DEF a, b, c, d
  <2>3. Chained(<<a, b, c, d>>) /\ StepsOf(<<a, b, c, d>>) = {a, b, c, d}
    BY <2>1, <2>2, ShortCalls
  <2> QED
    BY <2>3 DEF a, b, c, d
<1>7. /\ Chained(<<"deactivatePlugin", "stop">>)
      /\ StepsOf(<<"deactivatePlugin", "stop">>) = {"deactivatePlugin", "stop"}
  <2> DEFINE a == "deactivatePlugin"
             b == "stop"
  <2>1. a \in MainSteps /\ b \in MainSteps
    BY <1>1
  <2>2. <<a, b>> \in Follow
    BY <1>2
  <2> HIDE DEF a, b
  <2>3. Chained(<<a, b>>) /\ StepsOf(<<a, b>>) = {a, b}
    BY <2>1, <2>2, ShortCalls
  <2> QED
    BY <2>3 DEF a, b
<1>8. \A a \in MainSteps : Chained(<<a>>) /\ StepsOf(<<a>>) = {a}
  BY ShortCalls
<1> QED
  BY <1>3, <1>4, <1>5, <1>6, <1>7, <1>8

\* Two calls of one or two steps made one.
LEMMA PairsJoin ==
  ASSUME NEW a, NEW b, NEW c
  PROVE  <<a, b>> \o <<c>> = <<a, b, c>> /\ <<a>> \o <<b>> = <<a, b>>
<1>1. <<a, b>> \o <<c>> = <<a, b, c>>
  <2> DEFINE q == <<a, b>> \o <<c>>
             t == <<a, b, c>>
  <2>1. q \in Seq({a, b, c}) /\ Len(q) = 3 /\ q[1] = a /\ q[2] = b /\ q[3] = c
    OBVIOUS
  <2>2. t \in Seq({a, b, c}) /\ Len(t) = 3 /\ t[1] = a /\ t[2] = b /\ t[3] = c
    OBVIOUS
  <2> HIDE DEF q, t
  <2>3. 1 .. 3 = {1, 2, 3}
    OBVIOUS
  <2>4. q = t
    BY <2>1, <2>2, <2>3
  <2> QED
    BY <2>4 DEF q, t
<1>2. <<a>> \o <<b>> = <<a, b>>
  <2> DEFINE q == <<a>> \o <<b>>
             t == <<a, b>>
  <2>1. q \in Seq({a, b}) /\ Len(q) = 2 /\ q[1] = a /\ q[2] = b
    OBVIOUS
  <2>2. t \in Seq({a, b}) /\ Len(t) = 2 /\ t[1] = a /\ t[2] = b
    OBVIOUS
  <2> HIDE DEF q, t
  <2>3. 1 .. 2 = {1, 2}
    OBVIOUS
  <2>4. q = t
    BY <2>1, <2>2, <2>3
  <2> QED
    BY <2>4 DEF q, t
<1> QED
  BY <1>1, <1>2

\* The step made was the first of the call, and the rest is left.
LEMMA ContinueIs ==
  ASSUME CallbackInv, NEW step, AtStep(step)
  PROVE  /\ Chained(Tail(todo)) /\ step \in MainSteps /\ StepsOf(todo) = {step} \cup StepsOf(Tail(todo))
         /\ Tail(todo) # <<>> => <<step, Head(Tail(todo))>> \in Follow
         /\ step \in {"start", "new backend"} => Tail(todo) = <<>>
         /\ Ready(step)
BY RestIs DEF CallbackInv, AtStep

\* A step that neither stops a stream nor makes one leaves what a new backend waits for.
LEMMA BackendLastStays ==
  ASSUME NewBackendLast, UNCHANGED stream,
         "new backend" \in StepsOf(todo') =>
           /\ "new backend" \in StepsOf(todo)
           /\ StepsOf(todo') \subseteq StepsOf(todo) \cup TakeDownSteps
           /\ ("stop" \in StepsOf(todo) \/ "stopAudioThread" \in StepsOf(todo)) =>
                ("stop" \in StepsOf(todo') \/ "stopAudioThread" \in StepsOf(todo'))
  PROVE  NewBackendLast'
BY Zenon DEF NewBackendLast

\* The steps of the main thread that touch neither the plugin nor a stream.
LEMMA CallsBegin ==
  ASSUME CallbackInv, StartingStream \/ TakeDown \/ RestartPlugin
  PROVE  CallbackInv'
<1>1. todo' \in {<<"stopAudioThread", "open", "activatePlugin", "start">>,
                 <<"stopAudioThread", "deactivatePlugin">>,
                 <<"stopAudioThread", "deactivatePlugin", "new backend">>, <<"activatePlugin">>}
  BY DEF StartingStream, TakeDown, RestartPlugin
<1>2. UNCHANGED <<stream, calling, pass, flagVars, pluginVars>>
  BY DEF StartingStream, TakeDown, RestartPlugin
<1>3. /\ Chained(todo') /\ todo' # <<>> /\ Head(todo') \in {"stopAudioThread", "activatePlugin"}
      /\ "new backend" \in StepsOf(todo') =>
           StepsOf(todo') \subseteq TakeDownSteps /\ "stopAudioThread" \in StepsOf(todo')
  <2>1. CASE todo' = <<"stopAudioThread", "open", "activatePlugin", "start">>
    <3>1. /\ Chained(<<"stopAudioThread", "open", "activatePlugin", "start">>)
          /\ StepsOf(<<"stopAudioThread", "open", "activatePlugin", "start">>) =
               {"stopAudioThread", "open", "activatePlugin", "start"}
      BY CallsAre
    <3>2. /\ <<"stopAudioThread", "open", "activatePlugin", "start">> # <<>>
          /\ Head(<<"stopAudioThread", "open", "activatePlugin", "start">>) = "stopAudioThread"
      OBVIOUS
    <3> DEFINE t == <<"stopAudioThread", "open", "activatePlugin", "start">>
    <3>3. Chained(t) /\ t # <<>> /\ Head(t) = "stopAudioThread" /\ todo' = t
      BY <2>1, <3>1, <3>2
    <3>4. "new backend" \in StepsOf(t) => StepsOf(t) \subseteq TakeDownSteps /\ "stopAudioThread" \in StepsOf(t)
      BY <3>1, ZenonT(60) DEF TakeDownSteps
    <3> HIDE DEF t
    <3> QED
      BY <3>3, <3>4
  <2>2. CASE todo' = <<"stopAudioThread", "deactivatePlugin">>
    <3>1. /\ Chained(<<"stopAudioThread", "deactivatePlugin">>)
          /\ StepsOf(<<"stopAudioThread", "deactivatePlugin">>) = {"stopAudioThread", "deactivatePlugin"}
      BY ShortCalls, Zenon DEF MainSteps, TakeDownSteps, Follow
    <3>2. /\ <<"stopAudioThread", "deactivatePlugin">> # <<>>
          /\ Head(<<"stopAudioThread", "deactivatePlugin">>) = "stopAudioThread"
      OBVIOUS
    <3> DEFINE t == <<"stopAudioThread", "deactivatePlugin">>
    <3>3. Chained(t) /\ t # <<>> /\ Head(t) = "stopAudioThread" /\ todo' = t
      BY <2>2, <3>1, <3>2
    <3>4. "new backend" \in StepsOf(t) => StepsOf(t) \subseteq TakeDownSteps /\ "stopAudioThread" \in StepsOf(t)
      BY <3>1, ZenonT(60) DEF TakeDownSteps
    <3> HIDE DEF t
    <3> QED
      BY <3>3, <3>4
  <2>3. CASE todo' = <<"stopAudioThread", "deactivatePlugin", "new backend">>
    <3>1. /\ Chained(<<"stopAudioThread", "deactivatePlugin", "new backend">>)
          /\ StepsOf(<<"stopAudioThread", "deactivatePlugin", "new backend">>) =
               {"stopAudioThread", "deactivatePlugin", "new backend"}
      BY CallsAre
    <3>2. /\ <<"stopAudioThread", "deactivatePlugin", "new backend">> # <<>>
          /\ Head(<<"stopAudioThread", "deactivatePlugin", "new backend">>) = "stopAudioThread"
      OBVIOUS
    <3> DEFINE t == <<"stopAudioThread", "deactivatePlugin", "new backend">>
    <3>3. Chained(t) /\ t # <<>> /\ Head(t) = "stopAudioThread" /\ todo' = t
      BY <2>3, <3>1, <3>2
    <3>4. "new backend" \in StepsOf(t) => StepsOf(t) \subseteq TakeDownSteps /\ "stopAudioThread" \in StepsOf(t)
      BY <3>1 DEF TakeDownSteps
    <3> HIDE DEF t
    <3> QED
      BY <3>3, <3>4
  <2>4. CASE todo' = <<"activatePlugin">>
    <3> DEFINE t == <<"activatePlugin">>
    <3>1. Chained(t) /\ StepsOf(t) = {"activatePlugin"}
      BY ShortCalls, Zenon DEF MainSteps, TakeDownSteps
    <3>2. t # <<>> /\ Head(t) = "activatePlugin" /\ todo' = t
      BY <2>4
    <3> HIDE DEF t
    <3> QED
      BY <3>1, <3>2, ZenonT(60)
  <2> QED
    BY <1>1, <2>1, <2>2, <2>3, <2>4
<1>4. CallbackTypeOK' /\ CallInPlugin'
  BY <1>2 DEF CallbackInv, CallbackTypeOK, CallInPlugin, flagVars, pluginVars
<1>5. NewBackendLast'
  BY <1>3, Zenon DEF NewBackendLast
<1>6. Ready(Head(todo))'
  BY <1>3 DEF Ready
<1> QED
  BY <1>3, <1>4, <1>5, <1>6 DEF CallbackInv

\* The steps that put others in front of what is left.
LEMMA CallsGoIn ==
  ASSUME CallbackInv, StoppingStream \/ DeactivatingPlugin \/ ActivatingPlugin
  PROVE  CallbackInv'
<1> DEFINE r == Tail(todo)
<1>1. UNCHANGED <<stream, calling, pass, flagVars, pluginVars>>
  BY DEF StoppingStream, DeactivatingPlugin, ActivatingPlugin
<1>2. CallbackTypeOK' /\ CallInPlugin'
  BY <1>1 DEF CallbackInv, CallbackTypeOK, CallInPlugin, flagVars, pluginVars
<1>3. CASE StoppingStream
  <2>1. AtStep("stopAudioThread") /\ todo' \in {<<"quiesce", "acknowledged", "stop">> \o r, <<"stop">> \o r}
    <3>1. <<"quiesce", "acknowledged">> \o <<"stop">> = <<"quiesce", "acknowledged", "stop">>
      BY PairsJoin
    <3>2. <<>> \o <<"stop">> = <<"stop">>
      OBVIOUS
    <3>4. todo' = ((IF IsRunning THEN <<"quiesce", "acknowledged">> ELSE <<>>) \o <<"stop">>) \o r
      BY <1>3 DEF StoppingStream, Steps
    <3> QED
      BY <1>3, <3>1, <3>2, <3>4 DEF StoppingStream
  <2>2. /\ Chained(r) /\ StepsOf(todo) = {"stopAudioThread"} \cup StepsOf(r)
        /\ r # <<>> => <<"stopAudioThread", Head(r)>> \in Follow
    BY <2>1, ContinueIs
  <2>3. r # <<>> => <<"stop", Head(r)>> \in Follow
    BY <2>2 DEF Follow
  <2>4. /\ Chained(<<"quiesce", "acknowledged", "stop">>) /\ Chained(<<"stop">>)
        /\ StepsOf(<<"quiesce", "acknowledged", "stop">>) = {"quiesce", "acknowledged", "stop"}
        /\ StepsOf(<<"stop">>) = {"stop"}
    <3>1. "stop" \in MainSteps
      BY DEF MainSteps, TakeDownSteps
    <3> QED
      BY <3>1, CallsAre
  <2> HIDE DEF r
  <2>5. /\ Chained(todo') /\ todo' # <<>> /\ Head(todo') \in {"quiesce", "stop"}
        /\ StepsOf(todo') \subseteq {"quiesce", "acknowledged", "stop"} \cup StepsOf(r)
        /\ "stop" \in StepsOf(todo') /\ StepsOf(r) \subseteq StepsOf(todo')
    <3>1. CASE todo' = <<"quiesce", "acknowledged", "stop">> \o r
      <4> DEFINE s == <<"quiesce", "acknowledged", "stop">>
      <4>1. s # <<>> /\ Head(s) = "quiesce" /\ s[Len(s)] = "stop"
        OBVIOUS
      <4>2. Chained(s) /\ StepsOf(s) = {"quiesce", "acknowledged", "stop"} /\ todo' = s \o r
        BY <2>4, <3>1
      <4> HIDE DEF s
      <4>3. /\ Chained(s \o r) /\ s \o r # <<>>
            /\ Head(s \o r) = Head(s) /\ StepsOf(s \o r) = StepsOf(s) \cup StepsOf(r)
        BY <2>2, <2>3, <4>1, <4>2, JoinIs
      <4> QED
        BY <4>1, <4>2, <4>3
    <3>2. CASE todo' = <<"stop">> \o r
      <4> DEFINE s == <<"stop">>
      <4>1. s # <<>> /\ Head(s) = "stop" /\ s[Len(s)] = "stop"
        OBVIOUS
      <4>2. Chained(s) /\ StepsOf(s) = {"stop"} /\ todo' = s \o r
        BY <2>4, <3>2
      <4> HIDE DEF s
      <4>3. /\ Chained(s \o r) /\ s \o r # <<>>
            /\ Head(s \o r) = Head(s) /\ StepsOf(s \o r) = StepsOf(s) \cup StepsOf(r)
        BY <2>2, <2>3, <4>1, <4>2, JoinIs
      <4> QED
        BY <4>1, <4>2, <4>3
    <3> QED
      BY <2>1, <3>1, <3>2
  <2>6. Ready(Head(todo))'
    BY <2>5 DEF Ready
  <2>7. NewBackendLast'
    <3>1. "new backend" \in StepsOf(todo') =>
            "new backend" \in StepsOf(todo) /\ StepsOf(todo') \subseteq StepsOf(todo) \cup TakeDownSteps
      BY <2>2, <2>5 DEF TakeDownSteps
    <3> QED
      BY <1>1, <2>5, <3>1, BackendLastStays DEF CallbackInv
  <2> QED
    BY <1>2, <2>5, <2>6, <2>7 DEF CallbackInv
<1>4. CASE DeactivatingPlugin /\ isActive
  <2>1. AtStep("deactivatePlugin") /\ todo' = <<"quiesce", "acknowledged", "stop_processing", "deactivate">> \o r
    BY <1>4 DEF DeactivatingPlugin, Steps
  <2>2. /\ Chained(r) /\ StepsOf(todo) = {"deactivatePlugin"} \cup StepsOf(r)
        /\ r # <<>> => <<"deactivatePlugin", Head(r)>> \in Follow
    BY <2>1, ContinueIs
  <2>3. r # <<>> => <<"deactivate", Head(r)>> \in Follow
    BY <2>2 DEF Follow
  <2> DEFINE s == <<"quiesce", "acknowledged", "stop_processing", "deactivate">>
  <2>4. Chained(s) /\ StepsOf(s) = {"quiesce", "acknowledged", "stop_processing", "deactivate"}
    BY CallsAre
  <2>5. s # <<>> /\ Head(s) = "quiesce" /\ s[Len(s)] = "deactivate"
    OBVIOUS
  <2>6. todo' = s \o r
    BY <2>1
  <2> HIDE DEF r, s
  <2>7. /\ Chained(s \o r) /\ s \o r # <<>>
        /\ Head(s \o r) = Head(s) /\ StepsOf(s \o r) = StepsOf(s) \cup StepsOf(r)
    BY <2>2, <2>3, <2>4, <2>5, JoinIs
  <2>8. Chained(todo') /\ todo' # <<>> /\ Head(todo') = "quiesce"
    BY <2>5, <2>6, <2>7
  <2>9. Ready(Head(todo))'
    BY <2>8 DEF Ready
  <2>10. NewBackendLast'
    <3>1. /\ "new backend" \in StepsOf(todo') => "new backend" \in StepsOf(todo)
          /\ StepsOf(todo') \subseteq StepsOf(todo) \cup TakeDownSteps
          /\ "stop" \in StepsOf(todo) => "stop" \in StepsOf(todo')
          /\ "stopAudioThread" \in StepsOf(todo) => "stopAudioThread" \in StepsOf(todo')
      BY <2>2, <2>4, <2>6, <2>7 DEF TakeDownSteps
    <3> QED
      BY <1>1, <3>1, BackendLastStays DEF CallbackInv
  <2> QED
    BY <1>2, <2>8, <2>9, <2>10 DEF CallbackInv
<1>5. CASE DeactivatingPlugin /\ ~ isActive
  <2>1. AtStep("deactivatePlugin") /\ todo' = <<>> \o r
    BY <1>5 DEF DeactivatingPlugin, Steps
  <2>2. /\ Chained(r) /\ StepsOf(todo) = {"deactivatePlugin"} \cup StepsOf(r)
        /\ r # <<>> => <<"deactivatePlugin", Head(r)>> \in Follow
    BY <2>1, ContinueIs
  <2> HIDE DEF r
  <2>3. todo' = r
    BY <2>1, <2>2 DEF Chained
  <2>4. todo' # <<>> => Ready(Head(todo))'
    BY <1>1, <1>5, <2>2, <2>3 DEF Follow, Ready, pluginVars
  <2>5. NewBackendLast'
    <3>1. /\ StepsOf(todo') \subseteq StepsOf(todo)
          /\ "stop" \in StepsOf(todo) => "stop" \in StepsOf(todo')
          /\ "stopAudioThread" \in StepsOf(todo) => "stopAudioThread" \in StepsOf(todo')
      BY <2>2, <2>3
    <3> QED
      BY <1>1, <3>1, BackendLastStays DEF CallbackInv
  <2> QED
    BY <1>2, <2>2, <2>3, <2>4, <2>5 DEF CallbackInv
<1>6. CASE ActivatingPlugin
  <2>1. AtStep("activatePlugin") /\ todo' = <<"deactivatePlugin", "activate">> \o r
    BY <1>6 DEF ActivatingPlugin, Steps
  <2>2. /\ Chained(r) /\ StepsOf(todo) = {"activatePlugin"} \cup StepsOf(r)
        /\ r # <<>> => <<"activatePlugin", Head(r)>> \in Follow
    BY <2>1, ContinueIs
  <2>3. r # <<>> => <<"activate", Head(r)>> \in Follow
    BY <2>2, SMTT(40) DEF Follow
  <2> DEFINE s == <<"deactivatePlugin", "activate">>
  <2>4. Chained(s) /\ StepsOf(s) = {"deactivatePlugin", "activate"}
    BY ShortCalls, Zenon DEF MainSteps, TakeDownSteps, Follow
  <2>5. s # <<>> /\ Head(s) = "deactivatePlugin" /\ s[Len(s)] = "activate"
    OBVIOUS
  <2>6. todo' = s \o r
    BY <2>1
  <2> HIDE DEF r, s
  <2>7. /\ Chained(s \o r) /\ s \o r # <<>>
        /\ Head(s \o r) = Head(s) /\ StepsOf(s \o r) = StepsOf(s) \cup StepsOf(r)
    BY <2>2, <2>3, <2>4, <2>5, JoinIs
  <2>8. Chained(todo') /\ todo' # <<>> /\ Head(todo') = "deactivatePlugin"
    BY <2>5, <2>6, <2>7
  <2>9. Ready(Head(todo))'
    BY <2>8 DEF Ready
  <2>10. NewBackendLast'
    <3>1. "new backend" \in StepsOf(todo') => "new backend" \in StepsOf(todo)
      BY <2>2, <2>4, <2>6, <2>7
    <3>2. "new backend" \in StepsOf(todo) => FALSE
      <4>1. NewBackendLast
        BY DEF CallbackInv
      <4>2. "activatePlugin" \in StepsOf(todo) /\ "activatePlugin" \notin TakeDownSteps
        BY <2>2 DEF TakeDownSteps
      <4> QED
        BY <4>1, <4>2 DEF NewBackendLast
    <3> QED
      BY <3>1, <3>2 DEF NewBackendLast
  <2> QED
    BY <1>2, <2>8, <2>9, <2>10 DEF CallbackInv
<1> QED
  BY <1>3, <1>4, <1>5, <1>6

\* The steps that quiesce the callback, take the plugin off and let the callback in again.
LEMMA PluginSteps ==
  ASSUME CallbackInv,
         QuiesceProcessing \/ Acknowledged \/ StopProcessing \/ Deactivate \/ LetIn \/ NewBackend
  PROVE  CallbackInv'
<1> DEFINE r == Tail(todo)
<1>1. PICK step \in {"quiesce", "acknowledged", "stop_processing", "deactivate", "let in", "new backend"} :
        AtStep(step)
  BY DEF QuiesceProcessing, Acknowledged, StopProcessing, Deactivate, LetIn, NewBackend
<1>2. todo' = r /\ UNCHANGED <<stream, calling, pass, lockedBy>>
  BY DEF QuiesceProcessing, Acknowledged, StopProcessing, Deactivate, LetIn, NewBackend, Continue, flagVars
<1>3. /\ Chained(r) /\ StepsOf(todo) = {step} \cup StepsOf(r) /\ Ready(step)
      /\ r # <<>> => <<step, Head(r)>> \in Follow
      /\ step \in {"start", "new backend"} => r = <<>>
  BY <1>1, ContinueIs
<1> HIDE DEF r
<1>4. NewBackendLast'
  <2>1. /\ StepsOf(todo') \subseteq StepsOf(todo)
        /\ "stop" \in StepsOf(todo) => "stop" \in StepsOf(todo')
        /\ "stopAudioThread" \in StepsOf(todo) => "stopAudioThread" \in StepsOf(todo')
    BY <1>2, <1>3
  <2> QED
    BY <1>2, <2>1, BackendLastStays DEF CallbackInv
<1> USE DEF CallbackInv, CallbackTypeOK, CallInPlugin, flagVars, pluginVars, AtStep
<1>5. CASE QuiesceProcessing
  <2>1. step = "quiesce" /\ lockedBy = "nobody" /\ running' = FALSE
    BY <1>1, <1>5 DEF QuiesceProcessing
  <2>2. todo' # <<>> => Ready(Head(todo))'
    BY <1>2, <1>3, <1>5, <2>1 DEF Follow, Ready, QuiesceProcessing
  <2>3. CallbackTypeOK' /\ CallInPlugin'
    BY <1>2, <1>5, <2>1 DEF QuiesceProcessing
  <2> QED
    BY <1>2, <1>3, <1>4, <2>2, <2>3
<1>6. CASE Acknowledged
  <2>1. step = "acknowledged"
    BY <1>1, <1>6 DEF Acknowledged
  <2>2. todo' # <<>> => Ready(Head(todo))'
    BY <1>2, <1>3, <1>6, <2>1 DEF Follow, Ready, Acknowledged
  <2>3. CallbackTypeOK' /\ CallInPlugin'
    BY <1>2, <1>6, ZenonT(60) DEF Acknowledged
  <2> QED
    BY <1>2, <1>3, <1>4, <2>2, <2>3
<1>7. CASE StopProcessing
  <2>1. step = "stop_processing" /\ ~ running /\ pass # "processing"
    BY <1>1, <1>3, <1>7 DEF StopProcessing, Ready
  <2>2. todo' # <<>> => Ready(Head(todo))'
    BY <1>2, <1>3, <1>7, <2>1 DEF Follow, Ready, StopProcessing
  <2>3. CallbackTypeOK' /\ CallInPlugin'
    BY <1>2, <1>7, <2>1 DEF StopProcessing
  <2> QED
    BY <1>2, <1>3, <1>4, <2>2, <2>3
<1>8. CASE Deactivate
  <2>1. step = "deactivate" /\ ~ isProcessing
    BY <1>1, <1>3, <1>8 DEF Deactivate, Ready
  <2>2. todo' # <<>> => Ready(Head(todo))'
    BY <1>2, <1>3, <1>8, <2>1 DEF Follow, Ready, Deactivate
  <2>3. CallbackTypeOK' /\ CallInPlugin'
    BY <1>2, <1>8, <2>1 DEF Deactivate
  <2> QED
    BY <1>2, <1>3, <1>4, <2>2, <2>3
<1>9. CASE LetIn
  <2>1. step = "let in" /\ isActive /\ isProcessing
    BY <1>1, <1>3, <1>9 DEF LetIn, Ready
  <2>2. todo' # <<>> => Ready(Head(todo))'
    BY <1>2, <1>3, <1>9, <2>1 DEF Follow, Ready, LetIn
  <2>3. CallbackTypeOK' /\ CallInPlugin'
    BY <1>2, <1>9, <2>1 DEF LetIn
  <2> QED
    BY <1>2, <1>3, <1>4, <2>2, <2>3
<1>10. CASE NewBackend
  <2>1. step = "new backend"
    BY <1>1, <1>10 DEF NewBackend
  <2>2. r = <<>> /\ StepsOf(todo) = {"new backend"}
    BY <1>3, <2>1, ShortCalls
  <2>3. stream = "closed"
    BY <2>2 DEF NewBackendLast
  <2>4. CallbackTypeOK' /\ CallInPlugin'
    BY <1>2, <1>10, <2>3 DEF NewBackend
  <2> QED
    BY <1>2, <1>3, <1>4, <2>2, <2>4
<1> QED
  BY <1>5, <1>6, <1>7, <1>8, <1>9, <1>10

\* The steps a plugin may refuse.
LEMMA PluginAnswers ==
  ASSUME CallbackInv, Activate \/ StartProcessing
  PROVE  CallbackInv'
<1> DEFINE r == Tail(todo)
<1>1. PICK step \in {"activate", "start_processing"} : AtStep(step)
  BY DEF Activate, StartProcessing
<1>2. /\ Chained(r) /\ StepsOf(todo) = {step} \cup StepsOf(r) /\ Ready(step)
      /\ r # <<>> => <<step, Head(r)>> \in Follow
  BY <1>1, ContinueIs
<1>3. "new backend" \notin StepsOf(r) /\ (r # <<>> => Head(r) = "start")
  <2>1. "new backend" \in StepsOf(r) => FALSE
    BY <1>2 DEF CallbackInv, NewBackendLast, TakeDownSteps
  <2>2. r # <<>> => Head(r) = "start"
    BY <1>2 DEF Follow
  <2> QED
    BY <2>1, <2>2
<1>4. /\ Chained(<<"start_processing">> \o r) /\ <<"start_processing">> \o r # <<>>
      /\ Head(<<"start_processing">> \o r) = "start_processing"
      /\ "new backend" \notin StepsOf(<<"start_processing">> \o r)
  <2> DEFINE s == <<"start_processing">>
  <2>1. Chained(s) /\ StepsOf(s) = {"start_processing"}
    BY ShortCalls, Zenon DEF MainSteps, TakeDownSteps
  <2>2. s # <<>> /\ Head(s) = "start_processing" /\ s[Len(s)] = "start_processing"
    OBVIOUS
  <2>3. r # <<>> => <<"start_processing", Head(r)>> \in Follow
    BY <1>3 DEF Follow
  <2> HIDE DEF r, s
  <2>4. /\ Chained(s \o r) /\ s \o r # <<>>
        /\ Head(s \o r) = Head(s) /\ StepsOf(s \o r) = StepsOf(s) \cup StepsOf(r)
    BY <1>2, <2>1, <2>2, <2>3, JoinIs
  <2>5. /\ Chained(s \o r) /\ s \o r # <<>>
        /\ Head(s \o r) = "start_processing" /\ "new backend" \notin StepsOf(s \o r)
    BY <1>3, <2>1, <2>2, <2>4
  <2> QED
    BY <2>5, ZenonT(60) DEF s
<1>5. /\ Chained(<<"let in">> \o r) /\ <<"let in">> \o r # <<>> /\ Head(<<"let in">> \o r) = "let in"
      /\ "new backend" \notin StepsOf(<<"let in">> \o r)
  <2> DEFINE s == <<"let in">>
  <2>1. Chained(s) /\ StepsOf(s) = {"let in"}
    BY ShortCalls, Zenon DEF MainSteps, TakeDownSteps
  <2>2. s # <<>> /\ Head(s) = "let in" /\ s[Len(s)] = "let in"
    OBVIOUS
  <2>3. r # <<>> => <<"let in", Head(r)>> \in Follow
    BY <1>3 DEF Follow
  <2> HIDE DEF r, s
  <2>4. /\ Chained(s \o r) /\ s \o r # <<>>
        /\ Head(s \o r) = Head(s) /\ StepsOf(s \o r) = StepsOf(s) \cup StepsOf(r)
    BY <1>2, <2>1, <2>2, <2>3, JoinIs
  <2>5. /\ Chained(s \o r) /\ s \o r # <<>>
        /\ Head(s \o r) = "let in" /\ "new backend" \notin StepsOf(s \o r)
    BY <1>3, <2>1, <2>2, <2>4
  <2> QED
    BY <2>5, ZenonT(60) DEF s
<1>6. ASSUME NEW t \in {<<>>, <<"stop">>, <<"deactivatePlugin">>, <<"deactivatePlugin", "stop">>}
      PROVE  /\ Chained(t) /\ "new backend" \notin StepsOf(t)
             /\ t # <<>> => Head(t) \in {"stop", "deactivatePlugin"}
  <2>1. CASE t = <<>>
    BY <2>1, ShortCalls
  <2>2. CASE t \in {<<"stop">>, <<"deactivatePlugin">>}
    <3>1. PICK a \in {"stop", "deactivatePlugin"} : t = <<a>>
      BY <2>2
    <3>2. a \in MainSteps
      BY DEF MainSteps, TakeDownSteps
    <3>3. Chained(<<a>>) /\ StepsOf(<<a>>) = {a}
      BY <3>2, CallsAre
    <3>4. Head(<<a>>) = a
      OBVIOUS
    <3> QED
      BY <3>1, <3>3, <3>4
  <2>3. CASE t = <<"deactivatePlugin", "stop">>
    <3>1. /\ Chained(<<"deactivatePlugin", "stop">>)
          /\ StepsOf(<<"deactivatePlugin", "stop">>) = {"deactivatePlugin", "stop"}
      BY CallsAre
    <3>2. Head(t) = "deactivatePlugin"
      BY <2>3
    <3>3. Chained(t) /\ StepsOf(t) = {"deactivatePlugin", "stop"}
      BY <2>3, <3>1
    <3> QED
      BY <3>2, <3>3
  <2> QED
    BY <2>1, <2>2, <2>3
<1>7. CASE Activate
  <2>1. step = "activate" /\ ~ isActive
    BY <1>1, <1>2, <1>7 DEF Activate, AtStep, Ready
  <2>2. ~ isProcessing /\ pass # "processing" /\ ~ (running /\ stream \in {"running", "stopped"})
    BY <2>1 DEF CallbackInv, CallInPlugin
  <2>3. \/ isActive' = TRUE /\ todo' = <<"start_processing">> \o r
        \/ isActive' = FALSE /\ todo' \in {<<>>, <<"stop">>}
    BY <1>7 DEF Activate, Steps
  <2>4. UNCHANGED <<stream, calling, pass, running, finishedRunning, lockedBy, isProcessing>>
    BY <1>7 DEF Activate, flagVars
  <2>5. CallbackTypeOK' /\ CallInPlugin'
    BY <2>2, <2>3, <2>4 DEF CallbackInv, CallbackTypeOK, CallInPlugin
  <2>6. Chained(todo') /\ "new backend" \notin StepsOf(todo')
    BY <1>4, <1>6, <2>3
  <2>7. todo' # <<>> => Ready(Head(todo))'
    BY <1>4, <1>6, <2>2, <2>3, <2>4, ZenonT(60) DEF Ready
  <2> QED
    BY <2>5, <2>6, <2>7 DEF CallbackInv, NewBackendLast
<1>8. CASE StartProcessing
  <2>1. step = "start_processing" /\ isActive /\ ~ isProcessing
    BY <1>1, <1>2, <1>8 DEF StartProcessing, AtStep, Ready
  <2>2. pass # "processing" /\ ~ (running /\ stream \in {"running", "stopped"})
    BY <2>1 DEF CallbackInv, CallInPlugin
  <2>3. \/ isProcessing' = TRUE /\ todo' = <<"let in">> \o r
        \/ isProcessing' = FALSE /\ todo' \in {<<"deactivatePlugin">>, <<"deactivatePlugin", "stop">>}
    <3>1. <<"deactivatePlugin">> \o <<"stop">> = <<"deactivatePlugin", "stop">>
      BY PairsJoin
    <3>2. <<"deactivatePlugin">> \o <<>> = <<"deactivatePlugin">>
      OBVIOUS
    <3> QED
      BY <1>8, <3>1, <3>2 DEF StartProcessing, Steps
  <2>4. UNCHANGED <<stream, calling, pass, running, finishedRunning, lockedBy, isActive>>
    BY <1>8 DEF StartProcessing, flagVars
  <2>5. CallbackTypeOK' /\ CallInPlugin'
    BY <2>1, <2>2, <2>3, <2>4 DEF CallbackInv, CallbackTypeOK, CallInPlugin
  <2>6. Chained(todo') /\ "new backend" \notin StepsOf(todo')
    BY <1>5, <1>6, <2>3
  <2>7. todo' # <<>> => Ready(Head(todo))'
    BY <1>5, <1>6, <2>1, <2>3, <2>4 DEF Ready
  <2> QED
    BY <2>5, <2>6, <2>7 DEF CallbackInv, NewBackendLast
<1> QED
  BY <1>7, <1>8

\* The steps into the backend.
LEMMA BackendSteps ==
  ASSUME CallbackInv, OpenBackend \/ StartBackend \/ StopBackend
  PROVE  CallbackInv'
<1> DEFINE r == Tail(todo)
<1>1. PICK step \in {"open", "start", "stop"} : AtStep(step)
  BY DEF OpenBackend, StartBackend, StopBackend
<1>2. /\ Chained(r) /\ StepsOf(todo) = {step} \cup StepsOf(r) /\ Ready(step)
      /\ r # <<>> => <<step, Head(r)>> \in Follow
  BY <1>1, ContinueIs
<1>3. UNCHANGED <<calling, pass, running, finishedRunning, lockedBy, isActive, isProcessing>>
  BY DEF OpenBackend, StartBackend, StopBackend, OpenStream, StartStream, StopStream, flagVars, pluginVars
<1> HIDE DEF r
<1> USE DEF CallbackInv, CallbackTypeOK, CallInPlugin
<1>4. CASE OpenBackend
  <2>1. step = "open" /\ ~ calling /\ stream' \in {"open", "closed"} /\ todo' \in {r, <<>>}
    BY <1>1, <1>4 DEF OpenBackend, OpenStream, AtStep, Continue, Abandon, r
  <2>2. "new backend" \notin StepsOf(r)
    BY <1>2, <2>1 DEF NewBackendLast, TakeDownSteps
  <2>3. Chained(todo') /\ NewBackendLast'
    BY <1>2, <2>1, <2>2, ShortCalls DEF NewBackendLast
  <2>4. todo' # <<>> => Ready(Head(todo))'
    BY <1>2, <2>1 DEF Follow, Ready
  <2>5. CallbackTypeOK' /\ CallInPlugin'
    BY <1>3, <2>1
  <2> QED
    BY <2>3, <2>4, <2>5
<1>5. CASE StartBackend
  <2>1. /\ step = "start" /\ stream = "open" /\ stream' \in {"running", "stopped", "closed"}
        /\ todo' \in {<<"deactivatePlugin">>, <<>>}
    BY <1>1, <1>5 DEF StartBackend, StartStream, AtStep
  <2>2. Chained(todo') /\ "new backend" \notin StepsOf(todo') /\ (todo' # <<>> => Head(todo') = "deactivatePlugin")
    <3>1. "deactivatePlugin" \in MainSteps
      BY DEF MainSteps, TakeDownSteps
    <3>2. CASE todo' = <<>>
      BY <3>2, ShortCalls
    <3>3. CASE todo' = <<"deactivatePlugin">>
      <4> DEFINE t == <<"deactivatePlugin">>
      <4>1. Chained(t) /\ StepsOf(t) = {"deactivatePlugin"}
        BY <3>1, CallsAre
      <4>2. Head(t) = "deactivatePlugin" /\ todo' = t
        BY <3>3
      <4> HIDE DEF t
      <4> QED
        BY <4>1, <4>2
    <3> QED
      BY <2>1, <3>2, <3>3
  <2>3. todo' # <<>> => Ready(Head(todo))'
    BY <2>2 DEF Ready
  <2>4. running => isActive /\ isProcessing
    BY <1>2, <2>1 DEF Ready
  <2>5. CallbackTypeOK' /\ CallInPlugin'
    BY <1>3, <2>1, <2>4
  <2> QED
    BY <2>2, <2>3, <2>5 DEF NewBackendLast
<1>6. CASE StopBackend
  <2>1. step = "stop" /\ stream' = "closed" /\ todo' = r /\ (~ calling \/ stream = "closed")
    BY <1>1, <1>6 DEF StopBackend, StopStream, AtStep, Continue, r
  <2>2. NewBackendLast'
    BY <1>2, <2>1 DEF NewBackendLast
  <2>3. todo' # <<>> => Ready(Head(todo))'
    BY <1>2, <2>1 DEF Follow, Ready
  <2>4. CallbackTypeOK' /\ CallInPlugin'
    BY <1>3, <2>1
  <2> QED
    BY <1>2, <2>1, <2>2, <2>3, <2>4
<1> QED
  BY <1>4, <1>5, <1>6

\* The audio thread's steps, and a stream that stops on its own.
LEMMA AudioSteps ==
  ASSUME CallbackInv,
         \/ Callback \/ Process \/ Processed
         \/ StreamStops /\ UNCHANGED <<todo, pass, flagVars, pluginVars>>
  PROVE  CallbackInv'
<1> USE DEF CallbackInv, CallbackTypeOK, CallInPlugin, flagVars, pluginVars
<1>1. /\ todo' = todo /\ UNCHANGED <<running, isActive, isProcessing>>
      /\ (stream' = stream \/ (stream = "running" /\ stream' = "stopped"))
  BY DEF Callback, Process, Processed, CallBegins, CallEnds, StreamStops
<1>2. pass' = "processing" => pass = "processing" \/ running
  BY DEF Callback, Process, Processed
<1>3. Chained(todo')
  BY <1>1
<1>4. NewBackendLast'
  BY <1>1 DEF NewBackendLast
<1>5. todo # <<>> => Ready(Head(todo))'
  BY <1>1, <1>2 DEF Ready
<1>6. CallbackTypeOK' /\ CallInPlugin'
  <2>1. CASE Callback
    BY <2>1 DEF Callback, CallBegins
  <2>2. CASE Process
    BY <2>2 DEF Process
  <2>3. CASE Processed
    BY <2>3 DEF Processed, CallEnds
  <2>4. CASE StreamStops /\ UNCHANGED <<todo, pass, flagVars, pluginVars>>
    BY <2>4 DEF StreamStops
  <2> QED
    BY <2>1, <2>2, <2>3, <2>4
<1> QED
  BY <1>1, <1>3, <1>4, <1>5, <1>6

\* Every step keeps a call in flight in a plugin that is activated and processing.
LEMMA CallbackStep == CallbackInv /\ [CallbackNext]_callbackVars => CallbackInv'
<1> SUFFICES ASSUME CallbackInv, [CallbackNext]_callbackVars PROVE CallbackInv'
  OBVIOUS
<1>1. CASE UNCHANGED callbackVars
  BY <1>1, ZenonT(60) DEF CallbackInv, CallbackTypeOK, CallInPlugin, NewBackendLast, Ready, callbackVars
<1>2. CASE CallbackNext
  BY <1>2, CallsBegin, CallsGoIn, PluginSteps, PluginAnswers, BackendSteps, AudioSteps DEF CallbackNext
<1> QED
  BY <1>1, <1>2

\* No call of either thread is under way at first.
LEMMA CallbackBegins == CallbackInit => CallbackInv
<1> SUFFICES ASSUME CallbackInit PROVE CallbackInv
  OBVIOUS
<1>1. todo = <<>> /\ StepsOf(<<>>) = {} /\ Chained(<<>>)
  BY ShortCalls DEF CallbackInit
<1>2. CallbackTypeOK /\ CallInPlugin
  BY DEF CallbackInit, BackendInit, CallbackTypeOK, CallInPlugin
<1> QED
  BY <1>1, <1>2 DEF CallbackInv, NewBackendLast

-----------------------------------------------------------------------------
(* The saved MIDI choice. *)

\* No port is open at first.
LEMMA SettingsBegin == SettingsInit => SettingsTypeOK
BY DEF SettingsInit, SettingsTypeOK

\* What is open, of a selection, is of the ports there are.
LEMMA OpenPortsAre ==
  ASSUME NEW ps, NEW references, NEW all
  PROVE  OpenMidiPorts(ps, references, all) \subseteq ps
BY DEF OpenMidiPorts, PortsWithId

\* Every step opens ports there are.
LEMMA SettingsStep == SettingsTypeOK /\ [SettingsNext]_settingsVars => SettingsTypeOK'
<1> SUFFICES ASSUME SettingsTypeOK, [SettingsNext]_settingsVars PROVE SettingsTypeOK'
  OBVIOUS
<1>1. opened \subseteq Ports /\ connected \subseteq Ports /\ indexed \in BOOLEAN /\ up \in BOOLEAN
  BY DEF SettingsTypeOK
<1>2. CASE LaunchWithSettings
  <2>1. opened' \subseteq connected
    BY <1>2, OpenPortsAre DEF LaunchWithSettings
  <2> QED
    BY <1>1, <1>2, <2>1 DEF LaunchWithSettings, SettingsTypeOK
<1>3. CASE PortsChanged
  BY <1>1, <1>3 DEF PortsChanged, SettingsTypeOK
<1>4. CASE OkWithPorts
  <2>1. opened' \subseteq connected
    BY <1>4, OpenPortsAre DEF OkWithPorts
  <2> QED
    BY <1>1, <1>4, <2>1 DEF OkWithPorts, SettingsTypeOK
<1>5. CASE RequestMidiBindings
  <2>1. opened' \subseteq connected
    BY <1>5 DEF RequestMidiBindings
  <2> QED
    BY <1>1, <1>5, <2>1 DEF RequestMidiBindings, SettingsTypeOK
<1>6. CASE SaveStandaloneSettings
  BY <1>1, <1>6 DEF SaveStandaloneSettings, SettingsTypeOK
<1>7. CASE Exit
  BY <1>1, <1>7 DEF Exit, SettingsTypeOK
<1>8. CASE OlderBuildSaves
  BY <1>1, <1>8 DEF OlderBuildSaves, SettingsTypeOK
<1>9. CASE UNCHANGED settingsVars
  BY <1>1, <1>9 DEF settingsVars, SettingsTypeOK
<1> QED
  BY <1>2, <1>3, <1>4, <1>5, <1>6, <1>7, <1>8, <1>9 DEF SettingsNext
=============================================================================
