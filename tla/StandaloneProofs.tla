-------------------------- MODULE StandaloneProofs --------------------------
(***************************************************************************)
(* Proofs about the standalone application, for any devices, requests,     *)
(* saved settings and MIDI ports, and any sizes of a WASAPI ring: each     *)
(* audio backend keeps what AudioBackend promises of it, and says how it   *)
(* is; and, with StreamProofs, the plugin is activated for the stream that *)
(* runs and no call is in it while it is taken down.  The invariant of     *)
(* each backend stands before its steps.                                   *)
(***************************************************************************)
EXTENDS StreamProofs
-----------------------------------------------------------------------------
(* JACK. *)

JackMains == {"idle", "stopping", "reopening", "opening", "letting go"}
JackAudios == {"out", "entered", "holding", "calling"}

JackRecords ==
  [up : BOOLEAN, rate : {1, 2}, device : BOOLEAN, dead : BOOLEAN, graphChanged : BOOLEAN,
   client : BOOLEAN, deadReported : BOOLEAN, found : BOOLEAN, signature : BOOLEAN,
   lastRate : {1, 2}, streamRate : {1, 2}, streamOpen : BOOLEAN, stopped : BOOLEAN,
   main : JackMains, list : BOOLEAN, news : BOOLEAN,
   current : BOOLEAN, active : BOOLEAN, callback : BOOLEAN,
   audio : JackAudios, reports : SUBSET {"stopped", "rate", "devices"}, past : BOOLEAN]

\* The stream of a record, and who may be in it.
JackStream(j) ==
  /\ j.streamOpen = j.current
  /\ (j.active \/ j.callback \/ j.stopped) => j.current
  /\ j.audio \in {"holding", "calling"} => j.current
  /\ j.audio = "calling" => j.callback
  /\ j.main = "opening" => ~ j.current
  /\ j.main \in {"stopping", "reopening", "letting go"} => j.current /\ ~ j.active

JackInv == jack \in JackRecords /\ JackStream(jack)

\* What the records' stream does not depend on.
SameStream(j, k) ==
  /\ k.main = j.main /\ k.audio = j.audio /\ k.callback = j.callback
  /\ k.current = j.current /\ k.active = j.active
  /\ k.streamOpen = j.streamOpen /\ k.stopped = j.stopped

\* connect() leaves the stream as it is, and so does what devices() lists.
LEMMA LetGoKeeps ==
  ASSUME NEW j \in JackRecords
  PROVE  Jack!LetGo(j) \in JackRecords /\ SameStream(j, Jack!LetGo(j))
<1>1. CASE j.client /\ j.dead
  <2>1. Jack!LetGo(j) = [j EXCEPT !.client = FALSE]
    BY <1>1 DEF Jack!LetGo
  <2> QED
    BY <2>1 DEF JackRecords, SameStream
<1>2. CASE ~ (j.client /\ j.dead)
  BY <1>2 DEF Jack!LetGo, SameStream
<1> QED
  BY <1>1, <1>2

\* connect() leaves the stream as it is.
LEMMA ConnectsKeeps ==
  ASSUME NEW j \in JackRecords, NEW made \in BOOLEAN
  PROVE  Jack!Connects(j, made) \in JackRecords /\ SameStream(j, Jack!Connects(j, made))
<1> DEFINE left == Jack!LetGo(j)
           made2 == [left EXCEPT !.client = TRUE, !.dead = FALSE, !.deadReported = FALSE,
                                 !.lastRate = left.rate]
           lost == [left EXCEPT !.found = FALSE]
<1>1. left \in JackRecords /\ SameStream(j, left)
  BY LetGoKeeps
<1>2. Jack!Connects(j, made) \in {left, made2, lost}
  BY DEF Jack!Connects
<1> HIDE DEF left
<1>3. made2 \in JackRecords /\ SameStream(left, made2)
  BY <1>1, ZenonT(60) DEF JackRecords, SameStream
<1>4. lost \in JackRecords /\ SameStream(left, lost)
  BY <1>1 DEF JackRecords, SameStream
<1> HIDE DEF made2, lost
<1> QED
  BY <1>1, <1>2, <1>3, <1>4 DEF SameStream

\* And so does a listing.
LEMMA ListingKeeps ==
  ASSUME NEW j \in JackRecords
  PROVE  Jack!Listing(j) \in JackRecords /\ SameStream(j, Jack!Listing(j))
<1> DEFINE full == [j EXCEPT !.list = j.device, !.signature = j.device]
           empty == [j EXCEPT !.list = FALSE]
<1>1. Jack!Listing(j) \in {full, empty}
  BY DEF Jack!Listing
<1>2. full \in JackRecords /\ SameStream(j, full)
  BY DEF JackRecords, SameStream
<1>3. empty \in JackRecords /\ SameStream(j, empty)
  BY DEF JackRecords, SameStream
<1> HIDE DEF full, empty
<1> QED
  BY <1>1, <1>2, <1>3

\* A report, and the end of an open stream.
LEMMA TellingKeeps ==
  ASSUME NEW j \in JackRecords
  PROVE  Jack!DevicesChange(j) \in JackRecords /\ SameStream(j, Jack!DevicesChange(j))
BY DEF JackRecords, SameStream, Jack!DevicesChange

\* A stream is ended where it is, and only if it is open.
EndedStream(j, k) ==
  /\ k.main = j.main /\ k.audio = j.audio /\ k.callback = j.callback
  /\ k.current = j.current /\ k.active = j.active /\ k.streamOpen = j.streamOpen
  /\ k.stopped = j.stopped \/ (j.streamOpen /\ ~ j.stopped /\ k.stopped)

\* A stopped stream stays the one it is.
LEMMA EndsKeeps ==
  ASSUME NEW j \in JackRecords, NEW event \in {"stopped", "rate"}
  PROVE  Jack!Ends(j, event) \in JackRecords /\ EndedStream(j, Jack!Ends(j, event))
<1>1. CASE j.streamOpen /\ ~ j.stopped
  <2>1. Jack!Ends(j, event) = [j EXCEPT !.stopped = TRUE, !.reports = @ \cup {event}, !.past = FALSE]
    BY <1>1 DEF Jack!Ends
  <2>2. [j EXCEPT !.stopped = TRUE, !.reports = @ \cup {event}, !.past = FALSE] \in JackRecords
    BY DEF JackRecords
  <2>3. EndedStream(j, [j EXCEPT !.stopped = TRUE, !.reports = @ \cup {event}, !.past = FALSE])
    BY <1>1 DEF JackRecords, EndedStream
  <2> QED
    BY <2>1, <2>2, <2>3
<1>2. CASE ~ (j.streamOpen /\ ~ j.stopped)
  BY <1>2 DEF Jack!Ends, EndedStream
<1> QED
  BY <1>1, <1>2

\* A look at the rate ends the stream or leaves it.
LEMMA CheckRateKeeps ==
  ASSUME NEW j \in JackRecords
  PROVE  Jack!CheckRate(j) \in JackRecords /\ EndedStream(j, Jack!CheckRate(j))
<1> DEFINE ended == IF j.rate = j.streamRate THEN j ELSE Jack!Ends(j, "rate")
           looked == [ended EXCEPT !.lastRate = j.rate]
<1>1. ended \in JackRecords /\ EndedStream(j, ended)
  BY EndsKeeps DEF EndedStream
<1>2. Jack!CheckRate(j) \in {j, Jack!DevicesChange(looked)}
  BY DEF Jack!CheckRate
<1> HIDE DEF ended
<1>3. looked \in JackRecords /\ SameStream(ended, looked)
  BY <1>1 DEF JackRecords, SameStream
<1> HIDE DEF looked
<1>4. Jack!DevicesChange(looked) \in JackRecords /\ SameStream(looked, Jack!DevicesChange(looked))
  BY <1>3, TellingKeeps
<1> QED
  BY <1>1, <1>2, <1>3, <1>4 DEF SameStream, EndedStream

\* And so does a look at the ports.
LEMMA CheckGraphKeeps ==
  ASSUME NEW j \in JackRecords
  PROVE  Jack!CheckGraph(j) \in JackRecords /\ EndedStream(j, Jack!CheckGraph(j))
<1> DEFINE told == IF j.device = j.signature THEN j ELSE Jack!DevicesChange(j)
           ended == IF j.device THEN told ELSE Jack!Ends(told, "stopped")
           looked == [ended EXCEPT !.graphChanged = FALSE, !.signature = j.device]
<1>1. told \in JackRecords /\ SameStream(j, told)
  BY TellingKeeps DEF SameStream
<1>2. ended \in JackRecords /\ EndedStream(told, ended)
  <2> HIDE DEF told
  <2> QED
    BY <1>1, EndsKeeps DEF EndedStream
<1>3. Jack!CheckGraph(j) \in {j, looked}
  BY DEF Jack!CheckGraph
<1> HIDE DEF told, ended
<1>4. looked \in JackRecords /\ SameStream(ended, looked)
  BY <1>2, ZenonT(60) DEF JackRecords, SameStream
<1> HIDE DEF looked
<1> QED
  BY <1>1, <1>2, <1>3, <1>4 DEF SameStream, EndedStream

\* A step of the backend is one of AudioBackend, or nothing there.
JackMaps ==
  \/ Jack!JackPromise!BackendNext
  \/ UNCHANGED Jack!JackPromise!backendVars

\* The stream is left as it is.
LEMMA JackStutters ==
  ASSUME JackInv, jack' \in JackRecords, SameStream(jack, jack')
  PROVE  JackInv' /\ JackMaps
<1>1. JackInv'
  BY DEF JackInv, JackStream, SameStream
<1>2. UNCHANGED Jack!JackPromise!backendVars
  BY DEF SameStream, Jack!JackPromise!backendVars
<1> QED
  BY <1>1, <1>2 DEF JackMaps

\* To AudioBackend, a look of the watcher is the end of the stream, or nothing.
LEMMA JackEnds ==
  ASSUME JackInv, jack' \in JackRecords, EndedStream(jack, jack')
  PROVE  JackInv' /\ JackMaps
<1>1. JackInv'
  BY DEF JackInv, JackStream, EndedStream
<1>2. JackMaps
  BY DEF EndedStream, JackMaps, Jack!JackPromise!backendVars, Jack!JackPromise!BackendNext,
         Jack!JackPromise!StreamStops
<1> QED
  BY <1>1, <1>2

\* The server's steps, the notifications and the reports do nothing to the stream.
LEMMA JackServerSteps ==
  ASSUME JackInv, \/ Jack!Shutdown \/ Jack!ServerStarts \/ Jack!SampleRateCallback
                  \/ Jack!PortCallback \/ Jack!Probe \/ Jack!Report
  PROVE  jack' \in JackRecords /\ SameStream(jack, jack')
<1> USE DEF JackInv
<1>1. CASE Jack!Shutdown
  <2>1. PICK dead \in BOOLEAN :
          jack' = [jack EXCEPT !.up = FALSE, !.rate = 1, !.device = FALSE, !.dead = dead]
    BY <1>1 DEF Jack!Shutdown
  <2> QED
    BY <2>1 DEF JackRecords, SameStream
<1>2. CASE Jack!ServerStarts
  <2>1. PICK r \in {1, 2}, d \in BOOLEAN : jack' = [jack EXCEPT !.up = TRUE, !.rate = r, !.device = d]
    BY <1>2 DEF Jack!ServerStarts, Jack!Rates
  <2> QED
    BY <2>1 DEF JackRecords, SameStream
<1>3. CASE Jack!SampleRateCallback
  <2>1. PICK r \in {1, 2} : jack' = [jack EXCEPT !.rate = r]
    BY <1>3 DEF Jack!SampleRateCallback, Jack!Rates
  <2> QED
    BY <2>1 DEF JackRecords, SameStream
<1>4. CASE Jack!PortCallback
  <2>1. PICK d \in BOOLEAN, g \in BOOLEAN : jack' = [jack EXCEPT !.device = d, !.graphChanged = g]
    BY <1>4 DEF Jack!PortCallback
  <2> QED
    BY <2>1, ZenonT(60) DEF JackRecords, SameStream
<1>5. CASE Jack!Probe
  <2> DEFINE j == [jack EXCEPT !.found = TRUE]
  <2>1. j \in JackRecords /\ SameStream(jack, j)
    BY DEF JackRecords, SameStream
  <2>2. jack' = Jack!DevicesChange(j)
    BY <1>5 DEF Jack!Probe
  <2> HIDE DEF j
  <2> QED
    BY <2>1, <2>2, TellingKeeps DEF SameStream
<1>6. CASE Jack!Report
  <2>1. PICK event \in jack.reports, n \in BOOLEAN, p \in BOOLEAN :
          jack' = [jack EXCEPT !.reports = @ \ {event}, !.news = n, !.past = p]
    BY <1>6 DEF Jack!Report
  <2>2. [jack EXCEPT !.reports = @ \ {event}, !.news = n, !.past = p] \in JackRecords
    BY DEF JackRecords
  <2> QED
    BY <2>1, <2>2 DEF JackRecords, SameStream
<1> QED
  BY <1>1, <1>2, <1>3, <1>4, <1>5, <1>6

\* The watcher ends the stream or leaves it.
LEMMA JackWatcherSteps ==
  ASSUME JackInv, Jack!CheckDead \/ Jack!CheckGoing
  PROVE  jack' \in JackRecords /\ EndedStream(jack, jack')
<1> USE DEF JackInv
<1>1. CASE Jack!CheckDead
  <2> DEFINE j == [jack EXCEPT !.deadReported = TRUE, !.found = FALSE]
             k == Jack!Ends(j, "stopped")
  <2>1. j \in JackRecords /\ SameStream(jack, j)
    BY DEF JackRecords, SameStream
  <2>2. jack' = Jack!DevicesChange(k)
    BY <1>1 DEF Jack!CheckDead
  <2> HIDE DEF j
  <2>3. k \in JackRecords /\ EndedStream(j, k)
    BY <2>1, EndsKeeps
  <2> HIDE DEF k
  <2>4. jack' \in JackRecords /\ SameStream(k, jack')
    BY <2>2, <2>3, TellingKeeps
  <2> QED
    BY <2>1, <2>3, <2>4 DEF SameStream, EndedStream
<1>2. CASE Jack!CheckGoing
  <2> DEFINE j == Jack!CheckRate(jack)
  <2>1. jack' = Jack!CheckGraph(j)
    BY <1>2 DEF Jack!CheckGoing
  <2>2. j \in JackRecords /\ EndedStream(jack, j)
    BY CheckRateKeeps
  <2> HIDE DEF j
  <2>3. jack' \in JackRecords /\ EndedStream(j, jack')
    BY <2>1, <2>2, CheckGraphKeeps
  <2> QED
    BY <2>2, <2>3 DEF EndedStream
<1> QED
  BY <1>1, <1>2

\* devices(), and connect() in it.
LEMMA JackListSteps ==
  ASSUME JackInv, Jack!RefreshDevices \/ Jack!LetGoWaited
  PROVE  JackInv' /\ JackMaps
<1> USE DEF JackInv
<1>1. CASE Jack!RefreshDevices
  <2>1. CASE jack.client /\ jack.dead /\ jack.current
    <3>1. jack' = [jack EXCEPT !.news = FALSE, !.main = "letting go", !.active = FALSE]
      BY <1>1, <2>1 DEF Jack!RefreshDevices
    <3>2. jack' \in JackRecords
      BY <3>1 DEF JackRecords, JackMains
    <3>3. /\ jack'.main = "letting go" /\ jack'.active = FALSE /\ jack'.audio = jack.audio
          /\ jack'.callback = jack.callback /\ jack'.current = jack.current
          /\ jack'.streamOpen = jack.streamOpen /\ jack'.stopped = jack.stopped
      BY <3>1 DEF JackRecords
    <3>4. JackStream(jack)'
      BY <2>1, <3>3 DEF JackStream
    <3>5. JackMaps
      BY <3>3 DEF JackMaps, Jack!JackPromise!backendVars
    <3> QED
      BY <3>2, <3>4, <3>5
  <2>2. CASE ~ (jack.client /\ jack.dead /\ jack.current)
    <3> DEFINE j == [jack EXCEPT !.news = FALSE]
    <3>1. PICK made \in {FALSE, jack.up} : jack' = Jack!Listing(Jack!Connects(j, made))
      BY <1>1, <2>2 DEF Jack!RefreshDevices
    <3>2. made \in BOOLEAN
      BY DEF JackRecords
    <3>3. j \in JackRecords /\ SameStream(jack, j)
      BY DEF JackRecords, SameStream
    <3> DEFINE k == Jack!Connects(j, made)
    <3> HIDE DEF j
    <3>4. k \in JackRecords /\ SameStream(j, k)
      BY <3>2, <3>3, ConnectsKeeps
    <3> HIDE DEF k
    <3>5. jack' \in JackRecords /\ SameStream(k, jack')
      BY <3>1, <3>4, ListingKeeps DEF k
    <3>6. SameStream(jack, jack')
      BY <3>3, <3>4, <3>5 DEF SameStream
    <3> QED
      BY <3>5, <3>6, JackStutters
  <2> QED
    BY <2>1, <2>2
<1>2. CASE Jack!LetGoWaited
  <2> DEFINE j == [jack EXCEPT !.main = "idle"]
  <2>1. PICK made \in {FALSE, jack.up} : jack' = Jack!Listing(Jack!Connects(j, made))
    BY <1>2 DEF Jack!LetGoWaited
  <2>2. made \in BOOLEAN
    BY DEF JackRecords
  <2>3. /\ j \in JackRecords /\ j.main = "idle" /\ j.audio = jack.audio
        /\ j.callback = jack.callback /\ j.current = jack.current /\ j.active = jack.active
        /\ j.streamOpen = jack.streamOpen /\ j.stopped = jack.stopped
    BY DEF JackRecords, JackMains
  <2> DEFINE k == Jack!Connects(j, made)
  <2> HIDE DEF j
  <2>4. k \in JackRecords /\ SameStream(j, k)
    BY <2>2, <2>3, ConnectsKeeps
  <2>5. jack' \in JackRecords /\ SameStream(k, jack')
    BY <2>1, <2>4, ListingKeeps
  <2> HIDE DEF k
  <2>6. JackStream(jack)'
    BY <2>3, <2>4, <2>5 DEF JackStream, SameStream
  <2>7. JackMaps
    BY <2>3, <2>4, <2>5 DEF JackMaps, SameStream, Jack!JackPromise!backendVars
  <2> QED
    BY <2>5, <2>6, <2>7
<1> QED
  BY <1>1, <1>2

\* stop(), open(), start() and the process callback.
LEMMA JackStreamSteps ==
  ASSUME JackInv, \/ Jack!Stop \/ Jack!Stopped \/ Jack!OpenBegins \/ Jack!Start
                  \/ Jack!Process \/ Jack!LoadActive \/ Jack!ChooseCallback \/ Jack!ProcessEnds
  PROVE  JackInv' /\ JackMaps
<1> USE DEF JackInv
<1>1. CASE Jack!Stop
  <2>1. PICK next \in {"stopping", "reopening"} : jack' = [jack EXCEPT !.active = FALSE, !.main = next]
    BY <1>1 DEF Jack!Stop
  <2>2. jack' \in JackRecords
    BY <2>1 DEF JackRecords, JackMains
  <2>3. /\ jack'.main = next /\ jack'.active = FALSE /\ jack'.audio = jack.audio
        /\ jack'.callback = jack.callback /\ jack'.current = jack.current
        /\ jack'.streamOpen = jack.streamOpen /\ jack'.stopped = jack.stopped
    BY <2>1 DEF JackRecords
  <2>4. JackStream(jack)'
    BY <1>1, <2>3 DEF JackStream, Jack!Stop
  <2>5. JackMaps
    BY <2>3 DEF JackMaps, Jack!JackPromise!backendVars
  <2> QED
    BY <2>2, <2>4, <2>5
<1>2. CASE Jack!Stopped
  <2> DEFINE j == Jack!Closed(jack)
  <2>1. PICK m \in {"opening", "idle"} : jack' = [j EXCEPT !.main = m]
    BY <1>2 DEF Jack!Stopped
  <2>2. /\ j \in JackRecords /\ j.active = jack.active /\ j.audio = jack.audio
        /\ j.callback = FALSE /\ j.current = FALSE /\ j.streamOpen = FALSE /\ j.stopped = FALSE
    <3>1. PICK past \in BOOLEAN :
            j = [jack EXCEPT !.current = FALSE, !.callback = FALSE, !.streamOpen = FALSE, !.streamRate = 1,
                             !.stopped = FALSE, !.past = past]
      BY DEF Jack!Closed
    <3> HIDE DEF j
    <3> QED
      BY <3>1 DEF JackRecords
  <2> HIDE DEF j
  <2>3. /\ jack' \in JackRecords /\ jack'.active = j.active /\ jack'.audio = j.audio
        /\ jack'.callback = FALSE /\ jack'.current = FALSE /\ jack'.streamOpen = FALSE /\ jack'.stopped = FALSE
    BY <2>1, <2>2 DEF JackRecords, JackMains
  <2>4. jack.audio = "out" /\ jack.main \in {"stopping", "reopening"}
    BY <1>2 DEF Jack!Stopped, Jack!CallbackIsOut, Jack!InProcess
  <2>a. jack'.main = m
    BY <2>1, <2>2 DEF JackRecords
  <2>5. JackStream(jack)'
    BY <2>2, <2>3, <2>4, <2>a DEF JackStream
  <2>6. JackMaps
    BY <2>2, <2>3, <2>4 DEF JackStream, JackMaps, Jack!JackPromise!BackendNext, Jack!JackPromise!StopStream
  <2> QED
    BY <2>3, <2>5, <2>6
<1>3. CASE Jack!OpenBegins
  <2>1. jack' = [jack EXCEPT !.main = "opening"] /\ ~ jack.current
    BY <1>3 DEF Jack!OpenBegins
  <2>2. jack' \in JackRecords
    BY <2>1 DEF JackRecords, JackMains
  <2>3. /\ jack'.main = "opening" /\ jack'.active = jack.active /\ jack'.audio = jack.audio
        /\ jack'.callback = jack.callback /\ jack'.current = jack.current
        /\ jack'.streamOpen = jack.streamOpen /\ jack'.stopped = jack.stopped
    BY <2>1 DEF JackRecords
  <2>4. JackStream(jack)'
    BY <2>1, <2>3 DEF JackStream
  <2>5. JackMaps
    BY <2>3 DEF JackMaps, Jack!JackPromise!backendVars
  <2> QED
    BY <2>2, <2>4, <2>5
<1>4. CASE Jack!Start
  <2>1. jack' = [jack EXCEPT !.callback = TRUE] /\ jack.current /\ ~ jack.callback
    BY <1>4 DEF Jack!Start
  <2>2. jack' \in JackRecords
    BY <2>1 DEF JackRecords
  <2>3. /\ jack'.main = jack.main /\ jack'.active = jack.active /\ jack'.audio = jack.audio
        /\ jack'.callback /\ jack'.current = jack.current
        /\ jack'.streamOpen = jack.streamOpen /\ jack'.stopped = jack.stopped
    BY <2>1 DEF JackRecords
  <2>4. JackStream(jack)'
    BY <2>1, <2>3 DEF JackStream
  <2>5. JackMaps
    BY <2>1, <2>3 DEF JackStream, JackMaps, Jack!JackPromise!BackendNext, Jack!JackPromise!StartStream
  <2> QED
    BY <2>2, <2>4, <2>5
<1>5. ASSUME NEW a \in JackAudios, jack' = [jack EXCEPT !.audio = a],
             a \in {"holding", "calling"} => jack.current,
             a = "calling" => jack.callback /\ jack.audio = "holding"
      PROVE  JackInv' /\ JackMaps
  <2>1. jack' \in JackRecords
    BY <1>5 DEF JackRecords
  <2>2. /\ jack'.main = jack.main /\ jack'.active = jack.active /\ jack'.audio = a
        /\ jack'.callback = jack.callback /\ jack'.current = jack.current
        /\ jack'.streamOpen = jack.streamOpen /\ jack'.stopped = jack.stopped
    BY <1>5 DEF JackRecords
  <2>3. JackStream(jack)'
    BY <1>5, <2>2 DEF JackStream
  <2>4. JackMaps
    BY <1>5, <2>2 DEF JackStream, JackMaps, JackAudios, Jack!JackPromise!BackendNext,
                      Jack!JackPromise!backendVars, Jack!JackPromise!CallBegins, Jack!JackPromise!CallEnds
  <2> QED
    BY <2>1, <2>3, <2>4
<1>6. CASE Jack!Process
  BY <1>5, <1>6 DEF Jack!Process, JackAudios
<1>7. CASE Jack!LoadActive
  BY <1>5, <1>7 DEF Jack!LoadActive, JackAudios, JackStream
<1>8. CASE Jack!ChooseCallback
  BY <1>5, <1>8 DEF Jack!ChooseCallback, JackAudios, JackStream
<1>9. CASE Jack!ProcessEnds
  BY <1>5, <1>9 DEF Jack!ProcessEnds, JackAudios
<1> QED
  BY <1>1, <1>2, <1>3, <1>4, <1>6, <1>7, <1>8, <1>9

\* What open() makes is a stream.
LEMMA OpensTypes ==
  ASSUME NEW j \in JackRecords
  PROVE  Jack!Opens(j) \in JackRecords
<1>1. j.rate \in {1, 2}
  BY DEF JackRecords
<1>2. PICK r \in {1, 2} : j.rate = r
  BY <1>1
<1>3. [j EXCEPT !.streamRate = r, !.streamOpen = TRUE, !.stopped = FALSE,
                !.current = TRUE, !.active = TRUE] \in JackRecords
  BY DEF JackRecords
<1> QED
  BY <1>2, <1>3 DEF Jack!Opens

\* open() after its stop(): what connect() leaves, and the stream made on it.
LEMMA JackOpens == JackInv /\ Jack!Open => JackInv' /\ JackMaps
<1> SUFFICES ASSUME JackInv, Jack!Open PROVE JackInv' /\ JackMaps
  OBVIOUS
<1> USE DEF JackInv
<1> DEFINE c(made) == Jack!Connects(jack, made)
           linked(made) == [c(made) EXCEPT !.main = "idle"]
<1>1. PICK made \in {FALSE, jack.up} : jack' \in {linked(made), Jack!Opens(linked(made))}
  BY DEF Jack!Open
<1> DEFINE k == c(made)
           j == [k EXCEPT !.main = "idle"]
<1>2. k \in JackRecords /\ SameStream(jack, k)
  <2>1. made \in BOOLEAN
    BY DEF JackRecords
  <2> QED
    BY <2>1, ConnectsKeeps
<1>3. jack' \in {j, Jack!Opens(j)} /\ jack.main = "opening"
  BY <1>1 DEF Jack!Open
<1> HIDE DEF k
<1>4. /\ j \in JackRecords /\ j.main = "idle" /\ j.audio = k.audio /\ j.callback = k.callback
      /\ j.current = k.current /\ j.active = k.active /\ j.streamOpen = k.streamOpen /\ j.stopped = k.stopped
  BY <1>2 DEF JackRecords, JackMains
<1> HIDE DEF j
<1>5. ~ jack.current /\ ~ j.current /\ ~ j.callback /\ ~ j.stopped /\ ~ j.streamOpen
      /\ ~ j.active /\ j.audio \notin {"holding", "calling"} /\ jack.audio = j.audio
      /\ j.streamOpen = j.current
  BY <1>2, <1>3, <1>4 DEF JackStream, SameStream
<1>6. CASE jack' = j
  <2>1. JackStream(jack)'
    BY <1>4, <1>5, <1>6 DEF JackStream
  <2>2. JackMaps
    BY <1>4, <1>5, <1>6 DEF JackMaps, Jack!JackPromise!backendVars
  <2> QED
    BY <1>4, <1>6, <2>1, <2>2
<1>7. CASE jack' = Jack!Opens(j)
  <2>1. jack' \in JackRecords
    BY <1>4, <1>7, OpensTypes
  <2>2. /\ jack'.main = "idle" /\ jack'.active /\ jack'.audio = j.audio
        /\ jack'.callback = j.callback /\ jack'.current /\ jack'.streamOpen /\ ~ jack'.stopped
    BY <1>4, <1>7 DEF JackRecords, Jack!Opens
  <2>3. JackStream(jack)'
    BY <1>5, <2>2 DEF JackStream
  <2>4. JackMaps
    BY <1>5, <2>2 DEF JackMaps, Jack!JackPromise!BackendNext, Jack!JackPromise!OpenStream
  <2> QED
    BY <2>1, <2>3, <2>4
<1> QED
  BY <1>3, <1>6, <1>7

\* The step of JACK's invariant, each an AudioBackend step or a stutter.
LEMMA JackStep == JackInv /\ [Jack!JackNext]_jack => JackInv' /\ JackMaps
<1> SUFFICES ASSUME JackInv, [Jack!JackNext]_jack PROVE JackInv' /\ JackMaps
  OBVIOUS
<1>1. CASE UNCHANGED jack
  BY <1>1 DEF JackInv, JackStream, JackMaps, Jack!JackPromise!backendVars
<1>2. CASE \/ Jack!Shutdown \/ Jack!ServerStarts \/ Jack!SampleRateCallback
           \/ Jack!PortCallback \/ Jack!Probe \/ Jack!Report
  BY <1>2, JackServerSteps, JackStutters
<1>3. CASE Jack!CheckDead \/ Jack!CheckGoing
  BY <1>3, JackWatcherSteps, JackEnds
<1>4. CASE Jack!RefreshDevices \/ Jack!LetGoWaited
  BY <1>4, JackListSteps
<1>5. CASE \/ Jack!Stop \/ Jack!Stopped \/ Jack!OpenBegins \/ Jack!Start
           \/ Jack!Process \/ Jack!LoadActive \/ Jack!ChooseCallback \/ Jack!ProcessEnds
  BY <1>5, JackStreamSteps
<1>6. CASE Jack!Open
  BY <1>6, JackOpens
<1> QED
  BY <1>1, <1>2, <1>3, <1>4, <1>5, <1>6 DEF Jack!JackNext
\* The host will list the devices again.
JackToList(j) == j.news \/ "devices" \in j.reports \/ j.main = "letting go"

\* What the watcher and the listings keep of the server: JackEndIsSeen, JackListIsTrue, and what
\* they rest on.
JackSees(j) ==
  /\ j.client /\ ~ j.dead => j.up
  /\ j.deadReported => j.dead
  /\ j.main = "letting go" => j.client /\ j.deadReported
  /\ j.main \in {"reopening", "opening"} => j.list
  /\ j.client /\ j.deadReported => JackToList(j)
  /\ j.list /\ ~ j.client => JackToList(j)
  /\ j.client => j.signature = j.list \/ JackToList(j)
  /\ j.client /\ ~ j.dead => j.list = j.device \/ j.graphChanged \/ JackToList(j)
  /\ ~ j.client => ~ j.found \/ JackToList(j)
  /\ j.streamOpen /\ ~ j.stopped =>
       /\ j.client /\ ~ j.deadReported /\ j.lastRate = j.streamRate
       /\ ~ j.dead /\ ~ j.device => j.graphChanged

\* What connect() leaves: the client as it was, a new one, or none.
StaysConnected(j, k) ==
  /\ j.client /\ ~ j.dead /\ k.client /\ ~ k.dead
  /\ k.deadReported = j.deadReported /\ k.lastRate = j.lastRate /\ k.found = j.found

IsConnected(j, made, k) ==
  /\ ~ (j.client /\ ~ j.dead) /\ made /\ k.client /\ ~ k.dead
  /\ ~ k.deadReported /\ k.lastRate = j.rate

IsNotConnected(j, made, k) ==
  /\ ~ (j.client /\ ~ j.dead) /\ ~ made /\ ~ k.client /\ ~ k.found
  /\ k.dead = j.dead /\ k.deadReported = j.deadReported /\ k.lastRate = j.lastRate

ServerSame(j, k) ==
  /\ k.up = j.up /\ k.rate = j.rate /\ k.device = j.device
  /\ k.graphChanged = j.graphChanged /\ k.signature = j.signature
  /\ k.streamRate = j.streamRate /\ k.list = j.list /\ k.news = j.news /\ k.reports = j.reports

Connected(j, made, k) ==
  /\ ServerSame(j, k)
  /\ StaysConnected(j, k) \/ IsConnected(j, made, k) \/ IsNotConnected(j, made, k)

\* A client that is there stays; a dead one is let go, and there is a new one or none.
LEMMA ConnectsIs ==
  ASSUME NEW j \in JackRecords, NEW made \in BOOLEAN
  PROVE  Connected(j, made, Jack!Connects(j, made))
<1> DEFINE left == Jack!LetGo(j)
           k == Jack!Connects(j, made)
<1>1. CASE j.client /\ ~ j.dead
  <2>1. left = j
    BY <1>1 DEF Jack!LetGo
  <2>2. k = j
    BY <1>1, <2>1 DEF Jack!Connects
  <2> HIDE DEF k
  <2>3. StaysConnected(j, k) /\ ServerSame(j, k)
    BY <1>1, <2>2 DEF StaysConnected, ServerSame
  <2> QED
    BY <2>3 DEF Connected, k
<1>2. CASE ~ (j.client /\ ~ j.dead)
  <2>1. PICK c \in {FALSE} : left = [j EXCEPT !.client = c]
    <3>1. CASE j.client
      BY <1>2, <3>1 DEF Jack!LetGo
    <3>2. CASE ~ j.client
      <4>1. j = [j EXCEPT !.client = FALSE]
        BY <3>2 DEF JackRecords
      <4> QED
        BY <3>2, <4>1 DEF Jack!LetGo
    <3> QED
      BY <3>1, <3>2
  <2>2. left \in JackRecords /\ left.client = FALSE
    BY <2>1 DEF JackRecords
  <2>3. ServerSame(j, left)
    BY <2>1 DEF JackRecords, ServerSame
  <2>4. left.dead = j.dead /\ left.deadReported = j.deadReported /\ left.lastRate = j.lastRate
    BY <2>1 DEF JackRecords
  <2>5. CASE made
    <3>1. k = [left EXCEPT !.client = TRUE, !.dead = FALSE, !.deadReported = FALSE, !.lastRate = left.rate]
      BY <2>2, <2>5 DEF Jack!Connects
    <3> HIDE DEF left, k
    <3>2. /\ k.client = TRUE /\ k.dead = FALSE /\ k.deadReported = FALSE /\ k.lastRate = left.rate
          /\ k.up = left.up /\ k.rate = left.rate /\ k.device = left.device
          /\ k.graphChanged = left.graphChanged /\ k.signature = left.signature
          /\ k.streamRate = left.streamRate /\ k.list = left.list /\ k.news = left.news
          /\ k.reports = left.reports
      BY <2>2, <3>1 DEF JackRecords
    <3>3. ServerSame(j, k) /\ IsConnected(j, made, k)
      BY <1>2, <2>3, <2>5, <3>2 DEF ServerSame, IsConnected
    <3> QED
      BY <3>3 DEF Connected, k
  <2>6. CASE ~ made
    <3>1. k = [left EXCEPT !.found = FALSE]
      BY <2>2, <2>6 DEF Jack!Connects
    <3> HIDE DEF left, k
    <3>2. /\ k.client = FALSE /\ k.found = FALSE
          /\ k.dead = left.dead /\ k.deadReported = left.deadReported /\ k.lastRate = left.lastRate
          /\ k.up = left.up /\ k.rate = left.rate /\ k.device = left.device
          /\ k.graphChanged = left.graphChanged /\ k.signature = left.signature
          /\ k.streamRate = left.streamRate /\ k.list = left.list /\ k.news = left.news
          /\ k.reports = left.reports
      BY <2>2, <3>1 DEF JackRecords
    <3>3. ServerSame(j, k) /\ IsNotConnected(j, made, k)
      BY <1>2, <2>3, <2>4, <2>6, <3>2 DEF ServerSame, IsNotConnected
    <3> QED
      BY <3>3 DEF Connected, k
  <2> QED
    BY <2>5, <2>6
<1> QED
  BY <1>1, <1>2

\* What a listing leaves.
Listed(j, k) ==
  /\ k.up = j.up /\ k.rate = j.rate /\ k.device = j.device /\ k.client = j.client
  /\ k.dead = j.dead /\ k.deadReported = j.deadReported /\ k.found = j.found
  /\ k.graphChanged = j.graphChanged /\ k.lastRate = j.lastRate
  /\ k.streamRate = j.streamRate /\ k.news = j.news /\ k.reports = j.reports
  /\ \/ j.client /\ k.list = j.device /\ k.signature = j.device
     \/ ~ j.client /\ k.list = FALSE /\ k.signature = j.signature

\* The list is the server's devices where there is a client, and none where there is not.
LEMMA ListingIs ==
  ASSUME NEW j \in JackRecords
  PROVE  Listed(j, Jack!Listing(j))
BY DEF Listed, Jack!Listing, JackRecords

\* What a listing keeps of what the watcher rests on.
LEMMA ListingSees ==
  ASSUME NEW i \in JackRecords, NEW j \in JackRecords, NEW k \in JackRecords, NEW m \in JackRecords,
         NEW made \in BOOLEAN,
         JackSees(i), i.streamOpen /\ ~ i.stopped => i.client /\ ~ i.dead, made => i.up,
         j.up = i.up, j.rate = i.rate, j.device = i.device, j.graphChanged = i.graphChanged,
         j.signature = i.signature, j.streamRate = i.streamRate, j.list = i.list,
         j.reports = i.reports, j.client = i.client, j.dead = i.dead,
         j.deadReported = i.deadReported, j.lastRate = i.lastRate, j.found = i.found,
         Connected(j, made, k), Listed(k, m),
         m.main = "idle", m.streamOpen = i.streamOpen, m.stopped = i.stopped
  PROVE  JackSees(m)
<1>1. ServerSame(j, k)
  BY DEF Connected
<1>2. CASE StaysConnected(j, k)
  <2>1. /\ m.up = i.up /\ m.device = i.device /\ m.client /\ ~ m.dead /\ m.list = m.device
        /\ m.graphChanged = i.graphChanged /\ m.lastRate = i.lastRate
        /\ m.deadReported = i.deadReported
        /\ m.signature = m.list /\ m.streamRate = i.streamRate /\ i.client /\ ~ i.dead
    BY <1>1, <1>2 DEF StaysConnected, ServerSame, Listed
  <2>2. m.up /\ ~ m.deadReported /\ ~ i.deadReported
    BY <2>1 DEF JackSees
  <2>3. m.streamOpen /\ ~ m.stopped => m.lastRate = m.streamRate /\ (~ m.device => m.graphChanged)
    BY <2>1 DEF JackSees
  <2> QED
    BY <2>1, <2>2, <2>3 DEF JackSees
<1>3. CASE IsConnected(j, made, k)
  BY <1>1, <1>3, ZenonT(60) DEF IsConnected, ServerSame, Listed, JackSees, JackToList, JackRecords
<1>4. CASE IsNotConnected(j, made, k)
  <2>1. /\ ~ m.client /\ ~ m.found /\ m.list = FALSE /\ ~ (m.streamOpen /\ ~ m.stopped)
        /\ m.dead = i.dead /\ m.deadReported = i.deadReported
    BY <1>1, <1>4 DEF IsNotConnected, ServerSame, Listed
  <2>2. m.deadReported => m.dead
    BY <2>1 DEF JackSees
  <2> QED
    BY <2>1, <2>2 DEF JackSees
<1> QED
  BY <1>2, <1>3, <1>4 DEF Connected

JackHears == JackInv /\ JackSees(jack)

\* The server's steps, the notifications, and the reports they lead to.
LEMMA JackServerHears ==
  ASSUME JackHears, \/ Jack!Shutdown \/ Jack!ServerStarts \/ Jack!SampleRateCallback
                    \/ Jack!PortCallback \/ Jack!Probe \/ Jack!Report
  PROVE  JackSees(jack)'
<1> USE DEF JackHears, JackInv
<1>1. CASE Jack!Shutdown
  <2>1. PICK dead \in BOOLEAN :
          /\ jack' = [jack EXCEPT !.up = FALSE, !.rate = 1, !.device = FALSE, !.dead = dead]
          /\ dead <=> jack.dead \/ jack.client
    BY <1>1 DEF Jack!Shutdown, JackRecords
  <2> QED
    BY <2>1 DEF JackRecords, JackSees, JackToList
<1>2. CASE Jack!ServerStarts
  <2>1. PICK r \in {1, 2}, d \in BOOLEAN :
          jack' = [jack EXCEPT !.up = TRUE, !.rate = r, !.device = d] /\ ~ jack.up
    BY <1>2 DEF Jack!ServerStarts, Jack!Rates
  <2> QED
    BY <2>1 DEF JackRecords, JackSees, JackToList
<1>3. CASE Jack!SampleRateCallback
  <2>1. PICK r \in {1, 2} : jack' = [jack EXCEPT !.rate = r]
    BY <1>3 DEF Jack!SampleRateCallback, Jack!Rates
  <2> QED
    BY <2>1 DEF JackRecords, JackSees, JackToList
<1>4. CASE Jack!PortCallback
  <2>1. PICK d \in BOOLEAN, g \in BOOLEAN :
          /\ jack' = [jack EXCEPT !.device = d, !.graphChanged = g]
          /\ g <=> jack.graphChanged \/ (jack.client /\ ~ jack.dead)
    BY <1>4 DEF Jack!PortCallback, Jack!ServerThere, JackRecords
  <2> QED
    BY <2>1 DEF JackRecords, JackSees, JackToList
<1>5. CASE Jack!Probe
  <2>1. jack' = [jack EXCEPT !.found = TRUE, !.reports = jack.reports \cup {"devices"}]
    BY <1>5 DEF Jack!Probe, Jack!DevicesChange, JackRecords
  <2> QED
    BY <2>1 DEF JackRecords, JackSees, JackToList
<1>6. CASE Jack!Report
  <2>1. PICK event \in jack.reports, n \in BOOLEAN, p \in BOOLEAN :
          /\ jack' = [jack EXCEPT !.reports = jack.reports \ {event}, !.news = n, !.past = p]
          /\ n <=> jack.news \/ event = "devices"
    BY <1>6 DEF Jack!Report, JackRecords
  <2> QED
    BY <2>1 DEF JackRecords, JackSees, JackToList
<1> QED
  BY <1>1, <1>2, <1>3, <1>4, <1>5, <1>6

\* The main thread's stop() and start(), and the process callback.
LEMMA JackStreamHears ==
  ASSUME JackHears,
         \/ Jack!Stop \/ Jack!Stopped \/ Jack!OpenBegins \/ Jack!Start
         \/ Jack!Process \/ Jack!LoadActive \/ Jack!ChooseCallback \/ Jack!ProcessEnds
  PROVE  JackSees(jack)'
<1> USE DEF JackHears, JackInv
<1>1. CASE Jack!Stop
  <2>1. PICK n \in {"stopping", "reopening"} :
          jack' = [jack EXCEPT !.active = FALSE, !.main = n] /\ (n = "reopening" => jack.list)
          /\ jack.main = "idle"
    BY <1>1 DEF Jack!Stop
  <2> QED
    BY <2>1 DEF JackRecords, JackSees, JackToList
<1>2. CASE Jack!Stopped
  <2>1. PICK n \in {"opening", "idle"}, p \in BOOLEAN :
          /\ jack' = [[jack EXCEPT !.current = FALSE, !.callback = FALSE, !.streamOpen = FALSE,
                                   !.streamRate = 1, !.stopped = FALSE, !.past = p]
                        EXCEPT !.main = n]
          /\ n = "opening" => jack.main = "reopening"
          /\ jack.main \in {"stopping", "reopening"}
    BY <1>2 DEF Jack!Stopped, Jack!Closed
  <2> QED
    BY <2>1, ZenonT(60) DEF JackRecords, JackSees, JackToList
<1>3. CASE Jack!OpenBegins
  BY <1>3 DEF Jack!OpenBegins, JackRecords, JackSees, JackToList
<1>4. CASE Jack!Start
  BY <1>4 DEF Jack!Start, JackRecords, JackSees, JackToList
<1>5. CASE Jack!Process \/ Jack!LoadActive \/ Jack!ChooseCallback \/ Jack!ProcessEnds
  <2>1. PICK a \in JackAudios : jack' = [jack EXCEPT !.audio = a]
    BY <1>5 DEF Jack!Process, Jack!LoadActive, Jack!ChooseCallback, Jack!ProcessEnds, JackAudios
  <2> QED
    BY <2>1 DEF JackRecords, JackSees, JackToList
<1> QED
  BY <1>1, <1>2, <1>3, <1>4, <1>5

\* devices() and open(), and connect() in them.
LEMMA JackListHears ==
  ASSUME JackHears, Jack!RefreshDevices \/ Jack!LetGoWaited
  PROVE  JackSees(jack)'
<1> USE DEF JackHears, JackInv
<1>1. CASE Jack!RefreshDevices /\ jack.client /\ jack.dead /\ jack.current
  <2>1. jack' = [jack EXCEPT !.news = FALSE, !.main = "letting go", !.active = FALSE]
    BY <1>1 DEF Jack!RefreshDevices
  <2>2. jack.deadReported
    BY <1>1 DEF Jack!RefreshDevices, Jack!Looked
  <2> QED
    BY <1>1, <2>1, <2>2 DEF JackRecords, JackSees, JackToList
<1>2. CASE \/ Jack!RefreshDevices /\ ~ (jack.client /\ jack.dead /\ jack.current)
           \/ Jack!LetGoWaited
  <2>1. PICK j \in JackRecords, made \in BOOLEAN :
          /\ jack' = Jack!Listing(Jack!Connects(j, made))
          /\ j.main = "idle"
          /\ j.up = jack.up /\ j.rate = jack.rate /\ j.device = jack.device
          /\ j.graphChanged = jack.graphChanged /\ j.signature = jack.signature
          /\ j.streamRate = jack.streamRate /\ j.list = jack.list /\ j.reports = jack.reports
          /\ j.client = jack.client /\ j.dead = jack.dead /\ j.deadReported = jack.deadReported
          /\ j.lastRate = jack.lastRate /\ j.found = jack.found
          /\ j.streamOpen = jack.streamOpen /\ j.stopped = jack.stopped
          /\ made => jack.up
    <3>1. CASE Jack!RefreshDevices /\ ~ (jack.client /\ jack.dead /\ jack.current)
      <4> DEFINE j == [jack EXCEPT !.news = FALSE]
      <4>1. PICK made \in {FALSE, jack.up} : jack' = Jack!Listing(Jack!Connects(j, made))
        BY <3>1 DEF Jack!RefreshDevices
      <4>2. made \in BOOLEAN /\ (made => jack.up) /\ jack.main = "idle"
        BY <3>1 DEF JackRecords, Jack!RefreshDevices
      <4>3. j \in JackRecords
        BY DEF JackRecords
      <4>4. /\ j.main = "idle"
            /\ j.up = jack.up /\ j.rate = jack.rate /\ j.device = jack.device
            /\ j.graphChanged = jack.graphChanged /\ j.signature = jack.signature
            /\ j.streamRate = jack.streamRate /\ j.list = jack.list /\ j.reports = jack.reports
            /\ j.client = jack.client /\ j.dead = jack.dead /\ j.deadReported = jack.deadReported
            /\ j.lastRate = jack.lastRate /\ j.found = jack.found
            /\ j.streamOpen = jack.streamOpen /\ j.stopped = jack.stopped
        BY <4>2 DEF JackRecords
      <4> HIDE DEF j
      <4> QED
        BY <4>1, <4>2, <4>3, <4>4
    <3>2. CASE Jack!LetGoWaited
      <4> DEFINE j == [jack EXCEPT !.main = "idle"]
      <4>1. PICK made \in {FALSE, jack.up} : jack' = Jack!Listing(Jack!Connects(j, made))
        BY <3>2 DEF Jack!LetGoWaited
      <4>2. made \in BOOLEAN /\ (made => jack.up)
        BY DEF JackRecords
      <4>3. j \in JackRecords
        BY DEF JackRecords, JackMains
      <4>4. /\ j.main = "idle"
            /\ j.up = jack.up /\ j.rate = jack.rate /\ j.device = jack.device
            /\ j.graphChanged = jack.graphChanged /\ j.signature = jack.signature
            /\ j.streamRate = jack.streamRate /\ j.list = jack.list /\ j.reports = jack.reports
            /\ j.client = jack.client /\ j.dead = jack.dead /\ j.deadReported = jack.deadReported
            /\ j.lastRate = jack.lastRate /\ j.found = jack.found
            /\ j.streamOpen = jack.streamOpen /\ j.stopped = jack.stopped
        BY DEF JackRecords
      <4> HIDE DEF j
      <4> QED
        BY <4>1, <4>2, <4>3, <4>4
    <3> QED
      BY <1>2, <3>1, <3>2
  <2>2. jack.streamOpen /\ ~ jack.stopped => jack.client /\ ~ jack.dead
    BY <1>2 DEF JackSees, JackStream, Jack!RefreshDevices, Jack!Looked, Jack!LetGoWaited
  <2> DEFINE k == Jack!Connects(j, made)
  <2>3. k \in JackRecords /\ SameStream(j, k)
    BY <2>1, ConnectsKeeps
  <2>4. Connected(j, made, k)
    BY <2>1, ConnectsIs
  <2>5. jack' = Jack!Listing(k)
    BY <2>1
  <2> HIDE DEF k
  <2>6. jack' \in JackRecords /\ SameStream(k, jack')
    BY <2>3, <2>5, ListingKeeps
  <2>7. Listed(k, jack')
    BY <2>3, <2>5, ListingIs
  <2>8. jack'.main = "idle" /\ jack'.streamOpen = jack.streamOpen /\ jack'.stopped = jack.stopped
    BY <2>1, <2>3, <2>6 DEF SameStream
  <2> QED
    BY <2>1, <2>2, <2>3, <2>4, <2>6, <2>7, <2>8, ListingSees
<1> QED
  BY <1>1, <1>2

\* open(), and connect() in it.
LEMMA JackOpenHears ==
  ASSUME JackHears, Jack!Open
  PROVE  JackSees(jack)'
<1> USE DEF JackHears, JackInv
<1> DEFINE c(made) == Jack!Connects(jack, made)
           linked(made) == [c(made) EXCEPT !.main = "idle"]
<1>1. PICK made \in {FALSE, jack.up} :
        \/ jack' = linked(made)
        \/ /\ jack' = Jack!Opens(linked(made))
           /\ linked(made).client /\ jack.device
  BY DEF Jack!Open
<1>2. made \in BOOLEAN /\ (made => jack.up)
  BY DEF JackRecords
<1>3. /\ jack.main = "opening" /\ jack.list /\ ~ jack.streamOpen
      /\ jack.client => IF jack.dead THEN jack.deadReported ELSE jack.rate = jack.lastRate
  BY DEF Jack!Open, Jack!Looked, JackSees, JackStream
<1> DEFINE k == c(made)
           j == [k EXCEPT !.main = "idle"]
<1>4. k \in JackRecords /\ SameStream(jack, k)
  BY <1>2, ConnectsKeeps
<1>5. Connected(jack, made, k)
  BY <1>2, ConnectsIs
<1>6. jack' = j \/ (jack' = Jack!Opens(j) /\ j.client /\ jack.device)
  BY <1>1
<1> HIDE DEF k
<1>7. /\ j \in JackRecords /\ j.main = "idle"
      /\ j.up = k.up /\ j.rate = k.rate /\ j.device = k.device
      /\ j.graphChanged = k.graphChanged /\ j.signature = k.signature
      /\ j.streamRate = k.streamRate /\ j.list = k.list /\ j.news = k.news
      /\ j.reports = k.reports /\ j.client = k.client /\ j.dead = k.dead
      /\ j.deadReported = k.deadReported /\ j.lastRate = k.lastRate /\ j.found = k.found
      /\ j.streamOpen = k.streamOpen /\ j.stopped = k.stopped
  BY <1>4 DEF JackRecords, JackMains
<1>8. JackSees(j)
  <2>1. ServerSame(jack, k)
    BY <1>5 DEF Connected
  <2>2. CASE StaysConnected(jack, k)
    BY <1>2, <1>3, <1>4, <1>7, <2>1, <2>2, ZenonT(60)
       DEF StaysConnected, ServerSame, JackSees, JackToList, SameStream, JackRecords
  <2>3. CASE IsConnected(jack, made, k)
    BY <1>2, <1>3, <1>4, <1>7, <2>1, <2>3
       DEF IsConnected, ServerSame, JackSees, JackToList, SameStream, JackRecords
  <2>4. CASE IsNotConnected(jack, made, k)
    BY <1>2, <1>3, <1>4, <1>7, <2>1, <2>4
       DEF IsNotConnected, ServerSame, JackSees, JackToList, SameStream, JackRecords
  <2> QED
    BY <1>5, <2>2, <2>3, <2>4 DEF Connected
<1> HIDE DEF j
<1>9. CASE jack' = j
  BY <1>8, <1>9
<1>10. CASE jack' = Jack!Opens(j) /\ j.client /\ jack.device
  <2>1. jack' = [j EXCEPT !.streamRate = j.rate, !.streamOpen = TRUE, !.stopped = FALSE,
                          !.current = TRUE, !.active = TRUE]
    BY <1>10 DEF Jack!Opens
  <2>2. /\ jack'.main = "idle" /\ jack'.up = j.up /\ jack'.device = j.device
        /\ jack'.graphChanged = j.graphChanged /\ jack'.signature = j.signature
        /\ jack'.streamRate = j.rate /\ jack'.list = j.list /\ jack'.news = j.news
        /\ jack'.reports = j.reports /\ jack'.client = j.client /\ jack'.dead = j.dead
        /\ jack'.deadReported = j.deadReported /\ jack'.lastRate = j.lastRate /\ jack'.found = j.found
    BY <1>7, <2>1 DEF JackRecords
  <2>3. j.client /\ ~ j.dead /\ j.lastRate = j.rate /\ j.device
    BY <1>3, <1>5, <1>7, <1>10
       DEF Connected, ServerSame, StaysConnected, IsConnected, IsNotConnected
  <2> QED
    BY <1>7, <1>8, <2>2, <2>3 DEF JackSees, JackToList
<1> QED
  BY <1>6, <1>9, <1>10

\* What a look of the watcher leaves alone.
Watched(j, k) ==
  /\ k.main = j.main /\ k.up = j.up /\ k.rate = j.rate /\ k.device = j.device
  /\ k.client = j.client /\ k.dead = j.dead /\ k.streamRate = j.streamRate
  /\ k.list = j.list /\ k.news = j.news /\ k.streamOpen = j.streamOpen
  /\ j.reports \subseteq k.reports /\ (j.stopped => k.stopped)

\* What it notes of the server.
Noted(j, k) ==
  /\ k.deadReported = j.deadReported /\ k.found = j.found
  /\ k.lastRate = j.lastRate /\ k.graphChanged = j.graphChanged /\ k.signature = j.signature

\* A stream that is ended is stopped, if one is open.
LEMMA EndsIs ==
  ASSUME NEW j \in JackRecords, NEW event \in {"stopped", "rate"}
  PROVE  /\ Watched(j, Jack!Ends(j, event)) /\ Noted(j, Jack!Ends(j, event))
         /\ j.streamOpen => Jack!Ends(j, event).stopped
<1> DEFINE k == Jack!Ends(j, event)
<1>1. CASE j.streamOpen /\ ~ j.stopped
  <2>1. k = [j EXCEPT !.stopped = TRUE, !.reports = j.reports \cup {event}, !.past = FALSE]
    BY <1>1 DEF Jack!Ends
  <2> HIDE DEF k
  <2>2. Watched(j, k) /\ Noted(j, k) /\ k.stopped
    BY <2>1 DEF JackRecords, Watched, Noted
  <2> QED
    BY <2>2 DEF k
<1>2. CASE ~ (j.streamOpen /\ ~ j.stopped)
  <2>1. k = j
    BY <1>2 DEF Jack!Ends
  <2> HIDE DEF k
  <2>2. Watched(j, k) /\ Noted(j, k) /\ (j.streamOpen => k.stopped)
    BY <1>2, <2>1 DEF Watched, Noted
  <2> QED
    BY <2>2 DEF k
<1> QED
  BY <1>1, <1>2

\* The host is told that the devices are others.
LEMMA TellingIs ==
  ASSUME NEW j \in JackRecords
  PROVE  /\ Watched(j, Jack!DevicesChange(j)) /\ Noted(j, Jack!DevicesChange(j))
         /\ "devices" \in Jack!DevicesChange(j).reports
<1> DEFINE k == Jack!DevicesChange(j)
<1>1. k = [j EXCEPT !.reports = j.reports \cup {"devices"}]
  BY DEF Jack!DevicesChange
<1> HIDE DEF k
<1>2. Watched(j, k) /\ Noted(j, k) /\ "devices" \in k.reports
  BY <1>1 DEF JackRecords, Watched, Noted
<1> QED
  BY <1>2 DEF k

\* A look at the rate: as it was told before, or another and told of, and then the stream is
\* ended unless it runs at it.
RateSeen(j, k) ==
  /\ Watched(j, k) /\ k.deadReported = j.deadReported /\ k.found = j.found
  /\ k.graphChanged = j.graphChanged /\ k.signature = j.signature /\ k.lastRate = j.rate
  /\ j.rate # j.lastRate =>
       "devices" \in k.reports /\ (j.streamOpen /\ j.rate # j.streamRate => k.stopped)

\* CheckRate() does so.
LEMMA CheckRateIs ==
  ASSUME NEW j \in JackRecords
  PROVE  RateSeen(j, Jack!CheckRate(j))
<1> DEFINE ended == IF j.rate = j.streamRate THEN j ELSE Jack!Ends(j, "rate")
           looked == [ended EXCEPT !.lastRate = j.rate]
           k == Jack!CheckRate(j)
<1>1. CASE j.rate = j.lastRate
  <2>1. k = j
    BY <1>1 DEF Jack!CheckRate
  <2> HIDE DEF k
  <2>2. RateSeen(j, k)
    BY <1>1, <2>1 DEF RateSeen, Watched
  <2> QED
    BY <2>2 DEF k
<1>2. CASE j.rate # j.lastRate
  <2>1. Watched(j, j) /\ Noted(j, j)
    BY DEF Watched, Noted
  <2>2. ended \in JackRecords
    BY EndsKeeps
  <2>3. Watched(j, ended) /\ Noted(j, ended) /\ (j.streamOpen /\ j.rate # j.streamRate => ended.stopped)
    BY <2>1, EndsIs
  <2>4. k = Jack!DevicesChange(looked)
    BY <1>2 DEF Jack!CheckRate
  <2> HIDE DEF ended, k
  <2>5. looked \in JackRecords
    BY <2>2 DEF JackRecords
  <2>6. /\ looked.main = ended.main /\ looked.up = ended.up /\ looked.rate = ended.rate
        /\ looked.device = ended.device /\ looked.client = ended.client /\ looked.dead = ended.dead
        /\ looked.streamRate = ended.streamRate /\ looked.list = ended.list
        /\ looked.news = ended.news /\ looked.streamOpen = ended.streamOpen
        /\ looked.reports = ended.reports /\ looked.stopped = ended.stopped
        /\ looked.deadReported = ended.deadReported /\ looked.found = ended.found
        /\ looked.graphChanged = ended.graphChanged /\ looked.signature = ended.signature
        /\ looked.lastRate = j.rate
    BY <2>2 DEF JackRecords
  <2> HIDE DEF looked
  <2>7. Watched(looked, k) /\ Noted(looked, k) /\ "devices" \in k.reports
    BY <2>4, <2>5, TellingIs
  <2>8. RateSeen(j, k)
    BY <2>3, <2>6, <2>7 DEF RateSeen, Watched, Noted
  <2> QED
    BY <2>8 DEF k
<1> QED
  BY <1>1, <1>2

\* A look at the ports, if they are others: the host is told where they differ from its list, and
\* a stream whose device is not there is ended.
GraphSeen(j, k) ==
  /\ Watched(j, k) /\ k.deadReported = j.deadReported /\ k.found = j.found
  /\ k.lastRate = j.lastRate
  /\ ~ j.graphChanged => ~ k.graphChanged /\ k.signature = j.signature
  /\ j.graphChanged =>
       /\ ~ k.graphChanged /\ k.signature = j.device
       /\ j.device = j.signature \/ "devices" \in k.reports
       /\ j.streamOpen /\ ~ j.device => k.stopped

\* CheckGraph() does so.
LEMMA CheckGraphIs ==
  ASSUME NEW j \in JackRecords
  PROVE  GraphSeen(j, Jack!CheckGraph(j))
<1> DEFINE told == IF j.device = j.signature THEN j ELSE Jack!DevicesChange(j)
           ended == IF j.device THEN told ELSE Jack!Ends(told, "stopped")
           k == Jack!CheckGraph(j)
<1>1. CASE ~ j.graphChanged
  <2>1. k = j
    BY <1>1 DEF Jack!CheckGraph
  <2> HIDE DEF k
  <2>2. GraphSeen(j, k)
    BY <1>1, <2>1 DEF GraphSeen, Watched
  <2> QED
    BY <2>2 DEF k
<1>2. CASE j.graphChanged
  <2>1. \A i \in JackRecords : Watched(i, i) /\ Noted(i, i)
    BY DEF Watched, Noted
  <2>2. told \in JackRecords
    BY TellingKeeps
  <2>3. Watched(j, told) /\ Noted(j, told) /\ (j.device = j.signature \/ "devices" \in told.reports)
    BY <2>1, TellingIs
  <2>4. k = [ended EXCEPT !.graphChanged = FALSE, !.signature = j.device]
    BY <1>2 DEF Jack!CheckGraph
  <2> HIDE DEF told
  <2>5. ended \in JackRecords
    BY <2>2, EndsKeeps
  <2>6. Watched(told, ended) /\ Noted(told, ended) /\ (told.streamOpen /\ ~ j.device => ended.stopped)
    BY <2>1, <2>2, EndsIs
  <2> HIDE DEF ended, k
  <2>7. /\ k.main = ended.main /\ k.up = ended.up /\ k.rate = ended.rate
        /\ k.device = ended.device /\ k.client = ended.client /\ k.dead = ended.dead
        /\ k.streamRate = ended.streamRate /\ k.list = ended.list
        /\ k.news = ended.news /\ k.streamOpen = ended.streamOpen
        /\ k.reports = ended.reports /\ k.stopped = ended.stopped
        /\ k.deadReported = ended.deadReported /\ k.found = ended.found
        /\ k.graphChanged = FALSE /\ k.signature = j.device /\ k.lastRate = ended.lastRate
    BY <2>4, <2>5 DEF JackRecords
  <2>8. GraphSeen(j, k)
    BY <1>2, <2>3, <2>6, <2>7 DEF GraphSeen, Watched, Noted
  <2> QED
    BY <2>8 DEF k
<1> QED
  BY <1>1, <1>2

\* The watcher's looks.
LEMMA JackWatcherHears ==
  ASSUME JackHears, Jack!CheckDead \/ Jack!CheckGoing
  PROVE  JackSees(jack)'
<1> USE DEF JackHears, JackInv
<1>1. CASE Jack!CheckDead
  <2> DEFINE j == [jack EXCEPT !.deadReported = TRUE, !.found = FALSE]
             k == Jack!Ends(j, "stopped")
  <2>1. j \in JackRecords
    BY DEF JackRecords
  <2>2. /\ j.main = jack.main /\ j.up = jack.up /\ j.device = jack.device /\ j.client = jack.client
        /\ j.dead = jack.dead /\ j.list = jack.list /\ j.streamOpen = jack.streamOpen
        /\ j.deadReported = TRUE /\ j.found = FALSE
    BY DEF JackRecords
  <2>3. jack' = Jack!DevicesChange(k) /\ jack.client /\ jack.dead
    BY <1>1 DEF Jack!CheckDead
  <2> HIDE DEF j
  <2>4. k \in JackRecords
    BY <2>1, EndsKeeps
  <2>5. Watched(j, k) /\ Noted(j, k) /\ (j.streamOpen => k.stopped)
    BY <2>1, EndsIs
  <2> HIDE DEF k
  <2>6. Watched(k, jack') /\ Noted(k, jack') /\ "devices" \in jack'.reports
    BY <2>3, <2>4, TellingIs
  <2>7. /\ jack'.main = jack.main /\ jack'.client /\ jack'.dead /\ jack'.deadReported
        /\ jack'.list = jack.list /\ ~ (jack'.streamOpen /\ ~ jack'.stopped)
    BY <2>2, <2>3, <2>5, <2>6 DEF Watched, Noted
  <2> QED
    BY <2>6, <2>7 DEF JackSees, JackToList
<1>2. CASE Jack!CheckGoing
  <2> DEFINE j == Jack!CheckRate(jack)
  <2>1. jack' = Jack!CheckGraph(j) /\ jack.client /\ ~ jack.dead
    BY <1>2 DEF Jack!CheckGoing, Jack!ServerThere
  <2>2. j \in JackRecords
    BY CheckRateKeeps
  <2>3. RateSeen(jack, j)
    BY CheckRateIs
  <2> HIDE DEF j
  <2>4. GraphSeen(j, jack')
    BY <2>1, <2>2, CheckGraphIs
  <2>5. /\ jack'.main = jack.main /\ jack'.up = jack.up /\ jack'.device = jack.device
        /\ jack'.client /\ ~ jack'.dead /\ jack'.streamRate = jack.streamRate
        /\ jack'.list = jack.list /\ jack'.streamOpen = jack.streamOpen
        /\ jack'.deadReported = jack.deadReported /\ jack'.found = jack.found
        /\ jack'.lastRate = jack.rate /\ ~ jack'.graphChanged
    BY <2>1, <2>3, <2>4 DEF RateSeen, GraphSeen, Watched
  <2>6. JackToList(jack) => JackToList(jack')
    BY <2>3, <2>4 DEF RateSeen, GraphSeen, Watched, JackToList
  <2>7. IF jack.graphChanged
        THEN /\ jack'.signature = jack.device
             /\ jack.device = jack.signature \/ "devices" \in jack'.reports
             /\ jack.streamOpen /\ ~ jack.device => jack'.stopped
        ELSE jack'.signature = jack.signature
    BY <2>3, <2>4 DEF RateSeen, GraphSeen, Watched
  <2>8. jack'.streamOpen /\ ~ jack'.stopped =>
          /\ ~ jack.stopped
          /\ jack.rate # jack.lastRate => jack.rate = jack.streamRate
    BY <2>3, <2>4 DEF RateSeen, GraphSeen, Watched
  <2>9. jack'.streamOpen /\ ~ jack'.stopped =>
          /\ ~ jack'.deadReported /\ jack'.lastRate = jack'.streamRate /\ jack'.device
    BY <2>1, <2>5, <2>7, <2>8 DEF JackSees
  <2>10. ~ jack'.deadReported
    BY <2>1, <2>5 DEF JackSees
  <2>11. (jack'.signature = jack'.list \/ JackToList(jack'))
         /\ (jack'.list = jack'.device \/ JackToList(jack'))
    <3>1. CASE jack.graphChanged /\ jack.device # jack.signature
      BY <2>7, <3>1 DEF JackToList
    <3>2. CASE jack.graphChanged /\ jack.device = jack.signature
      BY <2>1, <2>5, <2>6, <2>7, <3>2 DEF JackSees
    <3>3. CASE ~ jack.graphChanged
      BY <2>1, <2>5, <2>6, <2>7, <3>3 DEF JackSees
    <3> QED
      BY <3>1, <3>2, <3>3
  <2>12. jack'.up /\ jack'.main # "letting go" /\ (jack'.main \in {"reopening", "opening"} => jack'.list)
    BY <2>1, <2>5, <2>10 DEF JackSees
  <2> QED
    BY <2>5, <2>9, <2>10, <2>11, <2>12 DEF JackSees
<1> QED
  BY <1>1, <1>2

\* The step of what the watcher and the listings keep.
LEMMA JackHearsStep == JackHears /\ [Jack!JackNext]_jack => JackHears'
<1> SUFFICES ASSUME JackHears, [Jack!JackNext]_jack PROVE JackHears'
  OBVIOUS
<1>1. JackInv'
  BY JackStep DEF JackHears
<1>2. CASE UNCHANGED jack
  BY <1>1, <1>2 DEF JackHears, JackSees, JackToList
<1>3. CASE \/ Jack!Shutdown \/ Jack!ServerStarts \/ Jack!SampleRateCallback
           \/ Jack!PortCallback \/ Jack!Probe \/ Jack!Report
  BY <1>1, <1>3, JackServerHears DEF JackHears
<1>4. CASE Jack!CheckDead \/ Jack!CheckGoing
  BY <1>1, <1>4, JackWatcherHears DEF JackHears
<1>5. CASE Jack!RefreshDevices \/ Jack!LetGoWaited
  BY <1>1, <1>5, JackListHears DEF JackHears
<1>6. CASE \/ Jack!Stop \/ Jack!Stopped \/ Jack!OpenBegins \/ Jack!Start
           \/ Jack!Process \/ Jack!LoadActive \/ Jack!ChooseCallback \/ Jack!ProcessEnds
  BY <1>1, <1>6, JackStreamHears DEF JackHears
<1>7. CASE Jack!Open
  BY <1>1, <1>7, JackOpenHears DEF JackHears
<1> QED
  BY <1>2, <1>3, <1>4, <1>5, <1>6, <1>7 DEF Jack!JackNext

\* What it sees is what the host is owed.
LEMMA JackSaysHowItIs == JackHears => Jack!JackEndIsSeen /\ Jack!JackListIsTrue
<1> SUFFICES ASSUME JackHears PROVE Jack!JackEndIsSeen /\ Jack!JackListIsTrue
  OBVIOUS
<1> USE DEF JackHears, JackInv
<1>1. Jack!JackEndIsSeen
  BY DEF JackSees, Jack!JackEndIsSeen, Jack!ServerThere
<1>2. Jack!JackListIsTrue
  BY DEF JackSees, JackToList, Jack!JackListIsTrue, Jack!ClientLocked
<1> QED
  BY <1>1, <1>2
-----------------------------------------------------------------------------
(* RtAudio. *)

RtRecords ==
  [asio : BOOLEAN, dac : {"closed", "open", "running", "stopped"},
   main : {"idle", "listing", "opening", "stopping"}, callback : BOOLEAN, listValid : BOOLEAN,
   events : SUBSET {"reset requested", "stream stopped"}, calling : BOOLEAN]

\* Events are of the stream: there are none while it is made, and while it runs.
RtInv ==
  /\ rt \in RtRecords
  /\ rt.calling => rt.callback /\ rt.dac \in {"running", "stopped"}
  /\ rt.callback <=> rt.dac \in {"running", "stopped"}
  /\ rt.main = "opening" => rt.dac = "closed" /\ rt.events = {}
  /\ rt.main = "listing" => ~ rt.listValid
  /\ rt.dac = "running" => rt.events = {}
  /\ rt.dac = "open" /\ rt.main # "stopping" => rt.events = {}
  /\ rt.dac = "stopped" => rt.events # {}
  /\ rt.main = "stopping" => rt.dac # "closed"

RtMaps == RtAudio!RtPromise!BackendNext \/ UNCHANGED RtAudio!RtPromise!backendVars

\* What the error callback is told is one of the two events.
LEMMA RtErrors ==
  ASSUME NEW r \in RtRecords, NEW error \in {"disconnect", "failure"}
  PROVE  /\ RtAudio!EventOf(error) \subseteq {"reset requested", "stream stopped"}
         /\ RtAudio!EventOf(error) # {}
BY DEF RtAudio!EventOf

\* The step of RtAudio's invariant, each an AudioBackend step or a stutter.
LEMMA RtStep == RtInv /\ [RtAudio!RtNext]_rt => RtInv' /\ RtMaps
<1> SUFFICES ASSUME RtInv, [RtAudio!RtNext]_rt PROVE RtInv' /\ RtMaps
  OBVIOUS
<1> USE DEF RtMaps, RtAudio!RtPromise!BackendNext, RtAudio!RtPromise!backendVars
<1>0. rt \in RtRecords
  BY DEF RtInv
<1>1. CASE RtAudio!ListBegins
  <2>1. rt' = [rt EXCEPT !.main = "listing"] /\ rt.main = "idle" /\ ~ rt.listValid
    BY <1>1 DEF RtAudio!ListBegins
  <2>2. rt' \in RtRecords
    BY <1>0, <2>1 DEF RtRecords
  <2> QED
    BY <2>1, <2>2 DEF RtInv, RtRecords
<1>2. CASE RtAudio!ListComplains
  BY <1>2 DEF RtInv, RtAudio!ListComplains, RtAudio!OnError, RtAudio!Suppressed
<1>3. CASE RtAudio!ListEnds
  <2>1. rt' = [rt EXCEPT !.main = "idle", !.listValid = TRUE] /\ rt.main = "listing"
    BY <1>3 DEF RtAudio!ListEnds, RtAudio!Listing
  <2>2. rt' \in RtRecords
    BY <1>0, <2>1 DEF RtRecords
  <2> QED
    BY <2>1, <2>2 DEF RtInv, RtRecords
<1>4. CASE RtAudio!RefreshDevices
  <2>1. rt' = [rt EXCEPT !.listValid = FALSE] /\ rt.main = "idle"
    BY <1>4 DEF RtAudio!RefreshDevices
  <2>2. rt' \in RtRecords
    BY <1>0, <2>1 DEF RtRecords
  <2> QED
    BY <2>1, <2>2 DEF RtInv, RtRecords
<1>5. CASE RtAudio!Stop
  <2>1. rt' = [rt EXCEPT !.main = "stopping"] /\ rt.main = "idle" /\ rt.dac # "closed"
    BY <1>5 DEF RtAudio!Stop
  <2>2. rt' \in RtRecords
    BY <1>0, <2>1 DEF RtRecords
  <2> QED
    BY <2>1, <2>2 DEF RtInv, RtRecords
<1>6. CASE RtAudio!Stopped
  <2>1. /\ rt' = [rt EXCEPT !.main = "idle", !.dac = "closed", !.callback = FALSE]
        /\ rt.main = "stopping" /\ ~ rt.calling
    BY <1>6 DEF RtAudio!Stopped
  <2>2. rt' \in RtRecords
    BY <1>0, <2>1 DEF RtRecords
  <2> QED
    BY <2>1, <2>2 DEF RtInv, RtRecords, RtAudio!RtPromise!StopStream
<1>7. CASE RtAudio!OpenBegins
  <2>1. /\ rt' = [rt EXCEPT !.main = "opening", !.events = {}]
        /\ rt.main = "idle" /\ rt.dac = "closed" /\ rt.listValid
    BY <1>7 DEF RtAudio!OpenBegins
  <2>2. rt' \in RtRecords
    BY <1>0, <2>1 DEF RtRecords
  <2> QED
    BY <2>1, <2>2 DEF RtInv, RtRecords
<1>8. CASE RtAudio!OpenEnds
  <2>1. /\ \/ rt' = [rt EXCEPT !.main = "idle", !.dac = "open"]
           \/ rt' = [rt EXCEPT !.main = "idle", !.callback = FALSE]
        /\ rt.main = "opening"
    BY <1>8 DEF RtAudio!OpenEnds, RtAudio!OnError, RtAudio!Suppressed, RtAudio!Opening
  <2>2. rt' \in RtRecords
    BY <1>0, <2>1 DEF RtRecords
  <2> QED
    BY <2>1, <2>2, ZenonT(60) DEF RtInv, RtRecords, RtAudio!RtPromise!OpenStream
<1>9. CASE RtAudio!Start
  <2>1. CASE rt' = [rt EXCEPT !.callback = TRUE, !.dac = "running"]
    <3>1. rt' \in RtRecords
      BY <1>0, <2>1 DEF RtRecords
    <3> QED
      BY <1>9, <2>1, <3>1 DEF RtInv, RtRecords, RtAudio!RtPromise!StartStream, RtAudio!Start
  <2>2. CASE rt' = [RtAudio!OnError(rt, "failure") EXCEPT !.main = "stopping"]
    <3>1. rt.main = "idle" /\ rt.dac = "open"
      BY <1>9 DEF RtAudio!Start
    <3>2. PICK e \in SUBSET {"reset requested", "stream stopped"} :
            rt' = [[rt EXCEPT !.events = rt.events \cup e] EXCEPT !.main = "stopping"]
      BY <1>0, <2>2, <3>1, RtErrors
         DEF RtAudio!OnError, RtAudio!Suppressed, RtAudio!Listing, RtAudio!Opening
    <3>3. rt' \in RtRecords /\ rt'.main = "stopping"
          /\ rt'.dac = rt.dac /\ rt'.callback = rt.callback /\ rt'.calling = rt.calling
      BY <1>0, <3>2 DEF RtRecords
    <3> QED
      BY <3>1, <3>3 DEF RtInv
  <2> QED
    BY <1>9, <2>1, <2>2 DEF RtAudio!Start
<1>10. CASE RtAudio!CallBegins
  <2>1. rt' = [rt EXCEPT !.calling = TRUE] /\ rt.dac = "running" /\ ~ rt.calling /\ rt.callback
    BY <1>10 DEF RtAudio!CallBegins
  <2>2. rt' \in RtRecords
    BY <1>0, <2>1 DEF RtRecords
  <2> QED
    BY <2>1, <2>2 DEF RtInv, RtRecords, RtAudio!RtPromise!CallBegins
<1>11. CASE RtAudio!CallEnds
  <2>1. rt' = [rt EXCEPT !.calling = FALSE] /\ rt.calling
    BY <1>11 DEF RtAudio!CallEnds
  <2>2. rt' \in RtRecords
    BY <1>0, <2>1 DEF RtRecords
  <2> QED
    BY <2>1, <2>2 DEF RtInv, RtRecords, RtAudio!RtPromise!CallEnds
<1>12. CASE RtAudio!ThreadFails
  <2>1. rt.dac = "running" /\ ~ rt.calling /\ rt.main \notin {"stopping", "listing", "opening"}
    BY <1>12 DEF RtInv, RtAudio!ThreadFails, RtAudio!Listing
  <2>2. PICK error \in {"disconnect", "failure"} :
          rt' = [[rt EXCEPT !.events = rt.events \cup RtAudio!EventOf(error)] EXCEPT !.dac = "stopped"]
    BY <1>12, <2>1 DEF RtAudio!ThreadFails, RtAudio!OnError, RtAudio!Suppressed, RtAudio!Listing,
                       RtAudio!Opening
  <2> DEFINE e == RtAudio!EventOf(error)
  <2>3. e \subseteq {"reset requested", "stream stopped"} /\ e # {}
    BY <1>0, RtErrors
  <2> HIDE DEF e
  <2>4. rt' \in RtRecords /\ rt'.main = rt.main /\ rt'.events # {}
        /\ rt'.dac = "stopped" /\ rt'.callback = rt.callback /\ rt'.calling = rt.calling
    BY <1>0, <2>2, <2>3 DEF RtRecords, e
  <2>5. RtInv'
    BY <2>1, <2>4 DEF RtInv
  <2> QED
    BY <2>1, <2>4, <2>5 DEF RtInv, RtAudio!RtPromise!StreamStops
<1>13. CASE UNCHANGED rt
  BY <1>13 DEF RtInv
<1> QED
  BY <1>1, <1>2, <1>3, <1>4, <1>5, <1>6, <1>7, <1>8, <1>9, <1>10, <1>11, <1>12, <1>13
     DEF RtAudio!RtNext
-----------------------------------------------------------------------------
(* PipeWire. *)

\* The stream is the host's only while open() and stop() are not at it, and a callback that
\* holds it is waited for.
PipeInv ==
  /\ PipeTypeOK
  /\ {current, active, callback, stopped, reopening, filter, streamOpen, filterError,
      pendingEvent, rateSet} \subseteq BOOLEAN
  /\ main = "connecting" => ~ current
  /\ main \in {"stopping", "appearing", "settling", "abandoning"} => current
  /\ active => current /\ main \notin {"stopping", "abandoning"}
  /\ callback => current /\ main \in {"idle", "stopping"}
  /\ audio \in {"holding", "choosing", "calling"} => current
  /\ audio = "calling" => callback

PipeMaps == Promise!BackendNext \/ UNCHANGED Promise!backendVars

\* The step of PipeWire's invariant, each an AudioBackend step or a stutter.
LEMMA PipeStep == PipeInv /\ [PipeNext]_pipeVars => PipeInv' /\ PipeMaps
<1> SUFFICES ASSUME PipeInv, [PipeNext]_pipeVars PROVE PipeInv' /\ PipeMaps
  OBVIOUS
<1> USE DEF PipeInv, PipeTypeOK, PipeMaps, Promise!BackendNext, Promise!backendVars, Opening,
            ownerVars, loopVars, audioVars
<1>1. CASE Stop
  BY <1>1 DEF Stop
<1>2. CASE Stopped
  <2>1. audio = "out" /\ main = "stopping"
    BY <1>2 DEF Stopped, CallbackIsOut
  <2>2. PipeInv'
    BY <1>2, <2>1 DEF Stopped, Unwatch, DestroyFilter
  <2>3. Promise!StopStream
    BY <1>2, <2>1 DEF Stopped, Promise!StopStream
  <2> QED
    BY <2>2, <2>3
<1>3. CASE MakeFilter
  <2>1. PipeInv'
    BY <1>3 DEF MakeFilter
  <2>2. UNCHANGED Promise!backendVars
    BY <1>3 DEF MakeFilter
  <2> QED
    BY <2>1, <2>2
<1>4. CASE Link
  BY <1>4 DEF Link, GiveUpOpening
<1>5. CASE Settle
  <2>1. PipeInv'
    BY <1>5 DEF Settle, GiveUpOpening
  <2>2. PipeMaps
    BY <1>5 DEF Settle, GiveUpOpening, Promise!OpenStream
  <2> QED
    BY <2>1, <2>2
<1>6. CASE Abandoned
  <2>1. audio = "out" /\ main = "abandoning"
    BY <1>6 DEF Abandoned, CallbackIsOut
  <2> QED
    BY <1>6, <2>1 DEF Abandoned, Unwatch, DestroyFilter
<1>7. CASE Start
  BY <1>7 DEF Start, Promise!StartStream
<1>8. CASE CycleBegins
  BY <1>8 DEF CycleBegins
<1>9. CASE LoadActive
  BY <1>9 DEF LoadActive
<1>10. CASE RateChanged
  BY <1>10 DEF RateChanged, Promise!StreamStops
<1>11. CASE ReadStopped
  BY <1>11 DEF ReadStopped
<1>12. CASE CallHost
  BY <1>12 DEF CallHost, Promise!CallBegins
<1>13. CASE CycleEnds
  BY <1>13 DEF CycleEnds, Promise!CallEnds
<1>14. CASE StreamStopped
  BY <1>14 DEF StreamStopped, Promise!StreamStops
<1>15. CASE ServerLost
  BY <1>15 DEF ServerLost
<1>16. CASE FilterFails
  BY <1>16 DEF FilterFails
<1>17. CASE NotifyEvent
  BY <1>17 DEF NotifyEvent
<1>18. CASE Watch
  BY <1>18 DEF Watch, DestroyFilter
<1>19. CASE UNCHANGED pipeVars
  BY <1>19 DEF pipeVars
<1> QED
  BY <1>1, <1>2, <1>3, <1>4, <1>5, <1>6, <1>7, <1>8, <1>9, <1>10, <1>11, <1>12, <1>13, <1>14,
     <1>15, <1>16, <1>17, <1>18, <1>19 DEF PipeNext
-----------------------------------------------------------------------------
(* The ring of the input, for every size of it. *)

\* What a remainder is, below three times the size.
LEMMA Wraps ==
  ASSUME NEW n \in Nat, n # 0, NEW x \in Int
  PROVE  /\ x % n \in 0 .. n - 1
         /\ 0 <= x /\ x < n => x % n = x
         /\ n <= x /\ x < 2 * n => x % n = x - n
         /\ 2 * n <= x /\ x < 3 * n => x % n = x - 2 * n
<1>1. x % n \in 0 .. n - 1
  OBVIOUS
<1>2. ASSUME 0 <= x, x < n PROVE x % n = x
  BY <1>2
<1>3. ASSUME n <= x, x < 2 * n PROVE x % n = x - n
  BY <1>3
<1>4. ASSUME 2 * n <= x, x < 3 * n PROVE x % n = x - 2 * n
  BY <1>4
<1> QED
  BY <1>1, <1>2, <1>3, <1>4

\* A quotient is a whole number.
LEMMA Quotients ==
  ASSUME NEW n \in Nat, NEW d \in Nat, d # 0
  PROVE  n \div d \in Nat
OBVIOUS

Places == Wasapi!RingCapacity
Rings == [frames : [0 .. Places - 1 -> Nat], read : 0 .. Places - 1, fill : 0 .. Places]

\* The k-th frame a ring holds, the oldest first.
Slot(rb, k) == (rb.read + k) % Places
Frame(rb, k) == rb.frames[Slot(rb, k)]

\* What the ring holds is in order, and was captured after low and no later than high.
FramesAfter(rb, low, high) ==
  /\ low <= high
  /\ \A k \in 0 .. rb.fill - 1 : low < Frame(rb, k) /\ Frame(rb, k) <= high
  /\ \A j, k \in 0 .. rb.fill - 1 : j < k => Frame(rb, j) < Frame(rb, k)

\* The ring holds a frame, and its sizes are whole.
LEMMA Sizes ==
  /\ Places \in Nat /\ Places # 0
  /\ BlockSize \in Nat /\ BlockSize # 0 /\ CaptureSize \in Nat
  /\ Wasapi!High \in Nat /\ BlockSize <= Wasapi!High /\ Wasapi!High <= Places
BY BackendsAssumption DEF BackendsAssumption, Places, Wasapi!RingCapacity, Wasapi!High

\* The places of the ring, from the one read next.
LEMMA SlotIs ==
  ASSUME NEW rb \in Rings, NEW k \in Nat
  PROVE  /\ Slot(rb, k) \in 0 .. Places - 1
         /\ k <= Places /\ rb.read + k < Places => Slot(rb, k) = rb.read + k
         /\ k <= Places /\ ~ (rb.read + k < Places) => Slot(rb, k) = rb.read + k - Places
<1> DEFINE x == rb.read + k
<1>1. rb.read \in 0 .. Places - 1
  BY DEF Rings
<1>2. x \in Int /\ (k <= Places => 0 <= x /\ x < 2 * Places)
  BY <1>1, Sizes
<1>3. Slot(rb, k) = x % Places
  BY DEF Slot
<1> HIDE DEF x
<1>4. x % Places \in 0 .. Places - 1
  BY <1>2, Sizes, Wraps
<1>5. k <= Places /\ x < Places => x % Places = x
  BY <1>2, Sizes, Wraps
<1>6. ASSUME k <= Places, ~ (x < Places) PROVE x % Places = x - Places
  <2>1. Places <= x /\ x < 2 * Places
    BY <1>2, <1>6, Sizes
  <2> QED
    BY <1>2, <2>1, Sizes, Wraps
<1>7. k <= Places /\ x < Places => Slot(rb, k) = x
  BY <1>3, <1>5
<1>8. k <= Places /\ ~ (x < Places) => Slot(rb, k) = x - Places
  BY <1>3, <1>6
<1>9. Slot(rb, k) \in 0 .. Places - 1
  BY <1>3, <1>4
<1> QED
  BY <1>1, <1>7, <1>8, <1>9, Sizes DEF x

\* advance() moves on what is read next.
LEMMA AdvancedIs ==
  ASSUME NEW rb \in Rings, NEW n \in 0 .. rb.fill
  PROVE  /\ Wasapi!Advanced(rb, n) \in Rings
         /\ Wasapi!Advanced(rb, n).fill = rb.fill - n
         /\ \A k \in 0 .. rb.fill - n - 1 : Frame(Wasapi!Advanced(rb, n), k) = Frame(rb, n + k)
<1> DEFINE r == Wasapi!Advanced(rb, n)
<1>0. n \in Nat /\ rb.fill \in 0 .. Places /\ rb.read \in 0 .. Places - 1
  BY Sizes DEF Rings
<1>1. r = [rb EXCEPT !.read = Slot(rb, n), !.fill = rb.fill - n]
  BY DEF Wasapi!Advanced, Slot, Places, Rings
<1>2. Slot(rb, n) \in 0 .. Places - 1
  BY <1>0, SlotIs
<1>3. rb.fill - n \in 0 .. Places
  BY <1>0, Sizes
<1> HIDE DEF r
<1>4. r \in Rings /\ r.read = Slot(rb, n) /\ r.fill = rb.fill - n /\ r.frames = rb.frames
  BY <1>1, <1>2, <1>3 DEF Rings
<1>5. ASSUME NEW k \in 0 .. rb.fill - n - 1 PROVE Slot(r, k) = Slot(rb, n + k)
  <2>1. /\ k \in Nat /\ n + k \in Nat /\ k <= Places /\ n + k <= Places /\ n <= Places
        /\ n + k < Places
    BY <1>0, Sizes
  <2>2. /\ rb.read + n < Places => Slot(rb, n) = rb.read + n
        /\ ~ (rb.read + n < Places) => Slot(rb, n) = rb.read + n - Places
    BY <1>0, <2>1, SlotIs
  <2>3. /\ rb.read + (n + k) < Places => Slot(rb, n + k) = rb.read + (n + k)
        /\ ~ (rb.read + (n + k) < Places) => Slot(rb, n + k) = rb.read + (n + k) - Places
    BY <2>1, SlotIs
  <2>4. /\ r.read + k < Places => Slot(r, k) = r.read + k
        /\ ~ (r.read + k < Places) => Slot(r, k) = r.read + k - Places
    BY <1>4, <2>1, SlotIs
  <2> QED
    BY <1>0, <1>4, <2>1, <2>2, <2>3, <2>4, Sizes
<1>6. ASSUME NEW k \in 0 .. rb.fill - n - 1 PROVE Frame(r, k) = Frame(rb, n + k)
  BY <1>4, <1>5 DEF Frame
<1> QED
  BY <1>4, <1>6 DEF r

\* A frame is a number: the one it was captured as.
LEMMA FrameIsNat ==
  ASSUME NEW rb \in Rings, NEW k \in Nat
  PROVE  Frame(rb, k) \in Nat
BY SlotIs DEF Frame, Rings

\* The oldest frames go, dropped or given: what stays is in order still, and after them.
LEMMA AdvancedKeeps ==
  ASSUME NEW rb \in Rings, NEW n \in 0 .. rb.fill, NEW low \in Nat, NEW high \in Nat,
         FramesAfter(rb, low, high)
  PROVE  /\ FramesAfter(Wasapi!Advanced(rb, n), low, high)
         /\ n # 0 => FramesAfter(Wasapi!Advanced(rb, n), Frame(rb, n - 1), high)
<1> DEFINE r == Wasapi!Advanced(rb, n)
<1>0. rb.fill \in Nat /\ n \in Nat
  BY Sizes DEF Rings
<1>1. r.fill = rb.fill - n /\ \A k \in 0 .. rb.fill - n - 1 : Frame(r, k) = Frame(rb, n + k)
  BY AdvancedIs
<1> HIDE DEF r
<1>2. \A k \in 0 .. r.fill - 1 : n + k \in 0 .. rb.fill - 1 /\ Frame(r, k) = Frame(rb, n + k)
  BY <1>0, <1>1
<1>3. \A j, k \in 0 .. r.fill - 1 : j < k => Frame(r, j) < Frame(r, k)
  <2> SUFFICES ASSUME NEW j \in 0 .. r.fill - 1, NEW k \in 0 .. r.fill - 1, j < k
               PROVE  Frame(r, j) < Frame(r, k)
    OBVIOUS
  <2>1. n + j < n + k
    BY <1>0, <1>1
  <2> QED
    BY <1>2, <2>1 DEF FramesAfter
<1>4. \A k \in 0 .. r.fill - 1 : low < Frame(r, k) /\ Frame(r, k) <= high
  BY <1>2 DEF FramesAfter
<1>5. ASSUME n # 0 PROVE FramesAfter(r, Frame(rb, n - 1), high)
  <2>1. n - 1 \in 0 .. rb.fill - 1
    BY <1>0, <1>5
  <2>2. Frame(rb, n - 1) <= high
    BY <2>1 DEF FramesAfter
  <2>3. ASSUME NEW k \in 0 .. r.fill - 1 PROVE Frame(rb, n - 1) < Frame(r, k)
    <3>1. n - 1 < n + k
      BY <1>0, <1>1
    <3> QED
      BY <1>2, <2>1, <3>1 DEF FramesAfter
  <2> QED
    BY <1>3, <1>4, <2>2, <2>3 DEF FramesAfter
<1>6. FramesAfter(r, low, high)
  BY <1>3, <1>4 DEF FramesAfter
<1> QED
  BY <1>5, <1>6 DEF r

\* How far behind the first free place the k-th is.
Behind(n, read, fill, i) == (i + 2 * n - read - fill) % n

\* How far a place is from the one read next.
LEMMA AheadIs ==
  ASSUME NEW n \in Nat, n # 0, NEW read \in 0 .. n - 1, NEW fill \in 0 .. n, NEW k \in 0 .. n - 1,
         NEW i \in Int, read + k < n => i = read + k, ~ (read + k < n) => i = read + k - n
  PROVE  /\ k < fill => Behind(n, read, fill, i) = k - fill + n
         /\ ~ (k < fill) => Behind(n, read, fill, i) = k - fill
<1> USE DEF Behind
<1> DEFINE x == i + 2 * n - read - fill
<1>1. x \in Int /\ x = IF read + k < n THEN k - fill + 2 * n ELSE k - fill + n
  OBVIOUS
<1> HIDE DEF x
<1>2. CASE k < fill /\ read + k < n
  <2>1. n <= x /\ x < 2 * n /\ x - n = k - fill + n
    BY <1>1, <1>2
  <2>2. x % n = x - n
    BY <1>1, <2>1, Wraps
  <2> QED
    BY <1>2, <2>1, <2>2 DEF x
<1>3. CASE k < fill /\ ~ (read + k < n)
  <2>1. 0 <= x /\ x < n /\ x = k - fill + n
    BY <1>1, <1>3
  <2>2. x % n = x
    BY <1>1, <2>1, Wraps
  <2> QED
    BY <1>3, <2>1, <2>2 DEF x
<1>4. CASE ~ (k < fill) /\ read + k < n
  <2>1. 2 * n <= x /\ x < 3 * n /\ x - 2 * n = k - fill
    BY <1>1, <1>4
  <2>2. x % n = x - 2 * n
    BY <1>1, <2>1, Wraps
  <2> QED
    BY <1>4, <2>1, <2>2 DEF x
<1>5. CASE ~ (k < fill) /\ ~ (read + k < n)
  <2>1. n <= x /\ x < 2 * n /\ x - n = k - fill
    BY <1>1, <1>5
  <2>2. x % n = x - n
    BY <1>1, <2>1, Wraps
  <2> QED
    BY <1>5, <2>1, <2>2 DEF x
<1> QED
  BY <1>2, <1>3, <1>4, <1>5

\* What the engine captured is added, as far as there is room for it.
LEMMA CaptureIs ==
  ASSUME ringBuffer \in Rings, NEW low \in Nat,
         wasapi.unread \in Nat, wasapi.captured \in Nat, wasapi.unread <= wasapi.captured,
         FramesAfter(ringBuffer, low, wasapi.captured - wasapi.unread)
  PROVE  /\ Wasapi!ReadCapture \in Rings
         /\ FramesAfter(Wasapi!ReadCapture, low, wasapi.captured)
<1> DEFINE rb == ringBuffer
           r == Wasapi!ReadCapture
           free == Places - rb.fill
           take == IF wasapi.unread < free THEN wasapi.unread ELSE free
           first == wasapi.captured - wasapi.unread + 1
           frames == [i \in 0 .. Places - 1 |-> IF Wasapi!Ahead(i) < take THEN first + Wasapi!Ahead(i)
                                               ELSE rb.frames[i]]
<1>0. /\ rb.read \in 0 .. Places - 1 /\ rb.fill \in 0 .. Places
      /\ rb.frames \in [0 .. Places - 1 -> Nat]
  BY DEF Rings
<1>11. free \in Nat /\ first \in Nat
  BY <1>0, Sizes, SMTT(40)
<1>12. take \in Nat /\ take <= free /\ take <= wasapi.unread
  <2> HIDE DEF free
  <2> QED
    BY <1>11
<1>1. /\ free \in Nat /\ take \in Nat /\ first \in Nat /\ take <= free /\ take <= wasapi.unread
      /\ rb.fill + take \in 0 .. Places
  <2> HIDE DEF take
  <2>1. rb.fill + take \in Nat /\ rb.fill + take <= Places
    <3> HIDE DEF rb
    <3> QED
      BY <1>0, <1>12, Sizes, SMTT(40)
  <2>2. rb.fill + take \in 0 .. Places
    BY <2>1, Sizes
  <2> QED
    BY <1>11, <1>12, <2>2
<1>2. r = [rb EXCEPT !.frames = frames, !.fill = rb.fill + take]
  BY <1>0 DEF Wasapi!ReadCapture, Places, Rings
<1>3. \A i \in 0 .. Places - 1 : Wasapi!Ahead(i) \in 0 .. Places - 1
  <2> TAKE i \in 0 .. Places - 1
  <2>1. i + 2 * Places - rb.read - rb.fill \in Int
    BY <1>0, Sizes
  <2> DEFINE x == i + 2 * Places - rb.read - rb.fill
  <2>2. Wasapi!Ahead(i) = x % Places
    BY DEF Wasapi!Ahead, Places
  <2> HIDE DEF x
  <2> QED
    BY <2>1, <2>2, Sizes, Wraps DEF x
<1>4. frames \in [0 .. Places - 1 -> Nat]
  <2>1. ASSUME NEW i \in 0 .. Places - 1
        PROVE  (IF Wasapi!Ahead(i) < take THEN first + Wasapi!Ahead(i) ELSE rb.frames[i]) \in Nat
    <3>1. Wasapi!Ahead(i) \in 0 .. Places - 1
      BY <1>3
    <3>2. Wasapi!Ahead(i) \in Nat
      BY <3>1, Sizes
    <3>3. rb.frames[i] \in Nat
      BY <1>0
    <3> HIDE DEF first, take, rb
    <3>4. first + Wasapi!Ahead(i) \in Nat
      BY <1>1, <3>2
    <3> QED
      BY <3>3, <3>4
  <2> QED
    BY <2>1
<1> HIDE DEF r, frames
<1>5. r \in Rings /\ r.read = rb.read /\ r.fill = rb.fill + take /\ r.frames = frames
  BY <1>1, <1>2, <1>4 DEF Rings
\* Where a frame that was there is, and where a new one goes.
<1>6. ASSUME NEW k \in 0 .. Places - 1
      PROVE  /\ Slot(rb, k) \in 0 .. Places - 1
             /\ k < rb.fill => Wasapi!Ahead(Slot(rb, k)) = k - rb.fill + Places
             /\ ~ (k < rb.fill) => Wasapi!Ahead(Slot(rb, k)) = k - rb.fill
  <2>1. k \in Nat /\ k <= Places
    BY Sizes
  <2>2. /\ Slot(rb, k) \in 0 .. Places - 1
        /\ rb.read + k < Places => Slot(rb, k) = rb.read + k
        /\ ~ (rb.read + k < Places) => Slot(rb, k) = rb.read + k - Places
    BY <2>1, SlotIs
  <2>3. Wasapi!Ahead(Slot(rb, k)) = Behind(Places, rb.read, rb.fill, Slot(rb, k))
    BY DEF Wasapi!Ahead, Places, Behind
  <2> HIDE DEF rb
  <2> HIDE DEF take, first, free
  <2>4. Slot(rb, k) \in Int
    BY <2>2, Sizes
  <2> QED
    BY <1>0, <2>2, <2>3, <2>4, Sizes, AheadIs, ZenonT(60)
<1>7. ASSUME NEW k \in 0 .. r.fill - 1
      PROVE  /\ k < rb.fill => Frame(r, k) = Frame(rb, k)
             /\ ~ (k < rb.fill) => Frame(r, k) = first + (k - rb.fill)
  <2>1. k \in 0 .. Places - 1
    BY <1>1, <1>5, Sizes
  <2>2. Slot(r, k) = Slot(rb, k) /\ Slot(rb, k) \in 0 .. Places - 1
    BY <1>5, <1>6, <2>1 DEF Slot
  <2>3. Frame(r, k) = IF Wasapi!Ahead(Slot(rb, k)) < take THEN first + Wasapi!Ahead(Slot(rb, k))
                      ELSE Frame(rb, k)
    BY <1>5, <2>2 DEF Frame, frames
  <2>4. CASE k < rb.fill
    <3>1. Wasapi!Ahead(Slot(rb, k)) = k - rb.fill + Places
      BY <1>6, <2>1, <2>4
    <3>2. ~ (k - rb.fill + Places < take)
      <4> HIDE DEF take
      <4>1. take <= Places - rb.fill
        BY <1>1
      <4> QED
        BY <1>0, <1>1, <2>1, <4>1, Sizes, SMTT(40)
    <3> QED
      BY <2>3, <2>4, <3>1, <3>2
  <2>5. CASE ~ (k < rb.fill)
    <3>1. Wasapi!Ahead(Slot(rb, k)) = k - rb.fill
      BY <1>6, <2>1, <2>5
    <3>2. k - rb.fill < take
      <4> HIDE DEF take
      <4> QED
        BY <1>0, <1>1, <1>5, <2>1, Sizes
    <3> QED
      BY <2>3, <2>5, <3>1, <3>2
  <2> QED
    BY <2>4, <2>5
<1> HIDE DEF rb, first, take
<1>8. /\ low <= wasapi.captured /\ low < first /\ first = wasapi.captured - wasapi.unread + 1
      /\ take <= wasapi.unread
  BY <1>1 DEF FramesAfter, first, rb
<1>9. ASSUME NEW k \in 0 .. r.fill - 1
      PROVE  low < Frame(r, k) /\ Frame(r, k) <= wasapi.captured
  <2>1. CASE k < rb.fill
    <3>1. k \in 0 .. rb.fill - 1
      BY <1>0, <2>1
    <3>2. low < Frame(rb, k) /\ Frame(rb, k) <= wasapi.captured - wasapi.unread
      BY <3>1 DEF FramesAfter, rb
    <3>3. Frame(rb, k) \in Nat
      BY <3>1, FrameIsNat DEF rb
    <3> QED
      BY <1>7, <2>1, <3>2, <3>3
  <2>2. CASE ~ (k < rb.fill)
    <3>1. k - rb.fill < take /\ 0 <= k - rb.fill
      BY <1>0, <1>1, <1>5, <2>2, SMTT(40)
    <3>2. Frame(r, k) = first + (k - rb.fill)
      BY <1>7, <2>2
    <3>3. first + (k - rb.fill) <= wasapi.captured
      <4> DEFINE d == k - rb.fill
      <4>1. d \in Int /\ d + 1 <= take /\ take \in Int
        BY <1>0, <1>1, <1>5, <3>1, SMTT(40)
      <4> HIDE DEF d
      <4>2. wasapi.captured - wasapi.unread + 1 + d <= wasapi.captured
        BY <1>8, <4>1
      <4> QED
        BY <1>8, <4>2 DEF d
    <3> QED
      BY <1>0, <1>1, <1>8, <3>1, <3>2, <3>3
  <2> QED
    BY <2>1, <2>2
<1>10. ASSUME NEW j \in 0 .. r.fill - 1, NEW k \in 0 .. r.fill - 1, j < k
       PROVE  Frame(r, j) < Frame(r, k)
  <2>1. CASE k < rb.fill
    <3>1. j \in 0 .. rb.fill - 1 /\ k \in 0 .. rb.fill - 1 /\ j < rb.fill
      BY <1>0, <1>10, <2>1
    <3>2. Frame(rb, j) < Frame(rb, k)
      BY <1>10, <3>1 DEF FramesAfter, rb
    <3> QED
      BY <1>7, <2>1, <3>1, <3>2
  <2>2. CASE ~ (k < rb.fill) /\ j < rb.fill
    <3>1. j \in 0 .. rb.fill - 1
      BY <1>0, <2>2
    <3>2. Frame(rb, j) <= wasapi.captured - wasapi.unread /\ Frame(rb, j) \in Nat
      BY <3>1, FrameIsNat DEF FramesAfter, rb
    <3>3. Frame(r, j) = Frame(rb, j) /\ Frame(r, k) = first + (k - rb.fill)
      BY <1>7, <2>2
    <3>4. first + (k - rb.fill) > wasapi.captured - wasapi.unread
      BY <1>0, <1>5, <1>8, <2>2
    <3>5. first + (k - rb.fill) \in Int
      <4>1. first \in Int /\ k \in Int /\ rb.fill \in Int
        BY <1>0, <1>1, <1>5
      <4> QED
        BY <4>1
    <3>6. wasapi.captured - wasapi.unread \in Int
      OBVIOUS
    <3> QED
      BY <3>2, <3>3, <3>4, <3>5, <3>6
  <2>3. CASE ~ (k < rb.fill) /\ ~ (j < rb.fill)
    <3>1. Frame(r, j) = first + (j - rb.fill) /\ Frame(r, k) = first + (k - rb.fill)
      BY <1>7, <2>3
    <3> QED
      BY <1>0, <1>1, <1>10, <3>1
  <2> QED
    BY <1>0, <1>10, <2>1, <2>2, <2>3
<1> QED
  BY <1>5, <1>8, <1>9, <1>10 DEF FramesAfter, r
-----------------------------------------------------------------------------
(* WASAPI. *)

WasapiMains == {"idle", "joining", "starting", "destroyed"}
WasapiThreads == {"none", "waiting", "cycling", "calling", "ended"}

WasapiRecords ==
  [present : SUBSET {"in", "out"}, list : SUBSET {"in", "out"}, news : BOOLEAN,
   notifier : {"out", "calling"}, attached : BOOLEAN, main : WasapiMains, opened : BOOLEAN,
   uses : SUBSET {"in", "out"}, running : BOOLEAN, stopEvent : BOOLEAN, thread : WasapiThreads,
   room : Nat, captured : Nat, unread : Nat, heard : Nat, block : Seq(Nat)]

\* Whose the thread is, what running says, and who is told of devices.
WasapiStream(w) ==
  /\ w.thread # "none" => w.opened /\ w.main # "starting"
  /\ w.running => w.opened
  /\ w.main \in {"joining", "starting"} => w.opened
  /\ w.main = "idle" /\ w.thread = "none" => ~ w.running
  /\ w.main = "destroyed" => ~ w.opened /\ ~ w.attached /\ w.notifier = "out"
  /\ w.main # "destroyed" => w.attached
  /\ w.thread = "ended" /\ ~ w.stopEvent => ~ w.running
  /\ w.main # "destroyed" => w.list = w.present \/ w.news \/ w.notifier = "calling"

WasapiTypes == wasapi \in WasapiRecords

WasapiMaps == Wasapi!WasapiPromise!BackendNext \/ UNCHANGED Wasapi!WasapiPromise!backendVars

\* A stream that is let go is AudioBackend's closed.
LEMMA WasapiClosed ==
  ASSUME NEW w \in WasapiRecords, NEW c, c = Wasapi!Closed(w)
  PROVE  /\ c \in WasapiRecords
         /\ c.running = FALSE /\ c.opened = FALSE /\ c.thread = "none"
         /\ c.captured = 0 /\ c.unread = 0 /\ c.heard = 0
         /\ c.attached = w.attached /\ c.notifier = w.notifier /\ c.list = w.list
         /\ c.present = w.present /\ c.news = w.news /\ c.main = w.main /\ c.block = w.block
         /\ c.stopEvent = w.stopEvent
<1>1. 0 \in Nat /\ "none" \in WasapiThreads
  BY DEF WasapiThreads
<1>2. c = [w EXCEPT !.running = FALSE, !.opened = FALSE, !.uses = {}, !.thread = "none",
                    !.captured = 0, !.unread = 0, !.heard = 0]
  BY DEF Wasapi!Closed
<1>3. c \in WasapiRecords
  BY <1>1, <1>2, ZenonT(60) DEF WasapiRecords
<1> QED
  BY <1>2, <1>3 DEF WasapiRecords

\* The frame a process() call was last given, the one being made included.
LastGiven(w) == IF w.block = <<>> THEN w.heard ELSE w.block[BlockSize]

\* What the plugin is given was captured in that order, after what it was given before.
WasapiFrames(w, rb) ==
  /\ rb \in Rings
  /\ w.unread <= w.captured
  /\ w.thread # "calling" => w.block = <<>>
  /\ w.thread = "none" => rb.fill = 0
  /\ w.block # <<>> =>
       /\ Len(w.block) = BlockSize
       /\ w.heard < w.block[1]
       /\ \A i \in 1 .. BlockSize - 1 : w.block[i] < w.block[i + 1]
  /\ w.thread = "calling" /\ "out" \in w.uses => rb.fill <= Wasapi!High
  /\ FramesAfter(rb, LastGiven(w), w.captured - w.unread)

SameFrames(w, v) ==
  /\ v.captured = w.captured /\ v.unread = w.unread /\ v.heard = w.heard /\ v.block = w.block
  /\ v.thread = "none" => w.thread = "none"
  /\ v.thread = "calling" <=> w.thread = "calling"
  /\ v.thread = "calling" => v.uses = w.uses

\* The frames stay in order where nothing of them changes.
LEMMA FramesKeep ==
  ASSUME NEW w, NEW v, NEW rb, WasapiFrames(w, rb), SameFrames(w, v)
  PROVE  WasapiFrames(v, rb)
BY DEF WasapiFrames, SameFrames, LastGiven

\* An empty ring is in order.
LEMMA FramesBegin ==
  ASSUME NEW v, NEW rb \in Rings, rb.fill = 0, v.thread = "none", v.block = <<>>,
         v.captured = 0, v.unread = 0, v.heard = 0
  PROVE  WasapiFrames(v, rb)
<1>1. FramesAfter(rb, 0, 0 - 0)
  BY DEF FramesAfter
<1> QED
  BY <1>1 DEF WasapiFrames, LastGiven

\* EmptyRing() is a ring, with nothing in it.
LEMMA EmptyRingIs == Wasapi!EmptyRing \in Rings /\ Wasapi!EmptyRing.fill = 0
BY Sizes DEF Wasapi!EmptyRing, Rings, Places

\* The devices, and the main thread.
LEMMA WasapiMainSteps ==
  ASSUME WasapiTypes, WasapiStream(wasapi),
         \/ Wasapi!EndpointChanges \/ Wasapi!Notified \/ Wasapi!List \/ Wasapi!Destroy
         \/ Wasapi!Stop \/ Wasapi!Stopped \/ Wasapi!Open \/ Wasapi!StartClients \/ Wasapi!MakeThread
  PROVE  WasapiTypes' /\ WasapiStream(wasapi)' /\ WasapiMaps
<1> USE DEF WasapiTypes, WasapiMaps, Wasapi!WasapiPromise!BackendNext, Wasapi!WasapiPromise!backendVars
<1>1. CASE Wasapi!EndpointChanges
  <2>1. PICK p \in SUBSET {"in", "out"} :
          /\ wasapi' = [wasapi EXCEPT !.present = p, !.notifier = IF wasapi.attached THEN "calling" ELSE "out"]
          /\ wasapi.notifier = "out"
    <3>1. PICK e \in {"in", "out"} :
            LET present == IF e \in wasapi.present THEN wasapi.present \ {e} ELSE wasapi.present \cup {e} IN
            wasapi' = [wasapi EXCEPT !.present = present, !.notifier = IF @ = "out" /\ wasapi.attached
                                                                 THEN "calling" ELSE "out"]
      BY <1>1 DEF Wasapi!EndpointChanges, Wasapi!Endpoints
    <3> DEFINE present == IF e \in wasapi.present THEN wasapi.present \ {e} ELSE wasapi.present \cup {e}
    <3>2. present \in SUBSET {"in", "out"} /\ wasapi.notifier = "out"
      BY <1>1 DEF WasapiRecords, Wasapi!EndpointChanges
    <3>3. wasapi' = [wasapi EXCEPT !.present = present, !.notifier = IF wasapi.attached THEN "calling" ELSE "out"]
      BY <3>1, <3>2 DEF WasapiRecords
    <3> QED
      BY <3>2, <3>3
  <2>2. PICK n \in {"out", "calling"} :
          wasapi' = [wasapi EXCEPT !.present = p, !.notifier = n] /\ (n = "calling" <=> wasapi.attached)
    BY <2>1
  <2>3. wasapi' \in WasapiRecords
    BY <2>2 DEF WasapiRecords
  <2> QED
    BY <2>1, <2>2, <2>3 DEF WasapiStream, WasapiRecords
<1>2. CASE Wasapi!Notified
  <2>1. wasapi' = [wasapi EXCEPT !.notifier = "out", !.news = TRUE] /\ wasapi.notifier = "calling"
    BY <1>2 DEF Wasapi!Notified
  <2>2. wasapi' \in WasapiRecords
    BY <2>1 DEF WasapiRecords
  <2> QED
    BY <2>1, <2>2 DEF WasapiStream, WasapiRecords
<1>3. CASE Wasapi!List
  <2>1. PICK l \in SUBSET {"in", "out"} :
          wasapi' = [wasapi EXCEPT !.news = FALSE, !.list = l] /\ l = wasapi.present
    BY <1>3 DEF Wasapi!List, WasapiRecords
  <2>2. wasapi' \in WasapiRecords
    BY <2>1 DEF WasapiRecords
  <2> QED
    BY <2>1, <2>2 DEF WasapiStream, WasapiRecords
<1>4. CASE Wasapi!Destroy
  <2>1. /\ wasapi' = [wasapi EXCEPT !.main = "destroyed", !.attached = FALSE]
        /\ wasapi.main = "idle" /\ wasapi.thread = "none" /\ ~ wasapi.opened /\ wasapi.notifier = "out"
    BY <1>4 DEF Wasapi!Destroy, Wasapi!MutexFree
  <2>2. wasapi' \in WasapiRecords
    BY <2>1 DEF WasapiRecords, WasapiMains
  <2> QED
    BY <2>1, <2>2 DEF WasapiStream, WasapiRecords
<1>5. CASE Wasapi!Stop
  <2>1. PICK e \in BOOLEAN :
          /\ wasapi' = [wasapi EXCEPT !.main = "joining", !.stopEvent = e] /\ (e <=> wasapi.thread # "none")
          /\ wasapi.main = "idle" /\ wasapi.opened
    BY <1>5 DEF Wasapi!Stop
  <2>2. wasapi' \in WasapiRecords
    BY <2>1 DEF WasapiRecords, WasapiMains
  <2> QED
    BY <2>1, <2>2 DEF WasapiStream, WasapiRecords
<1>6. CASE Wasapi!Stopped
  <2> DEFINE c == Wasapi!Closed(wasapi)
  <2>1. /\ wasapi' = [c EXCEPT !.main = "idle"]
        /\ wasapi.main = "joining" /\ wasapi.thread \in {"none", "ended"}
    BY <1>6 DEF Wasapi!Stopped, Wasapi!Joined
  <2>2. /\ c \in WasapiRecords /\ c.running = FALSE /\ c.opened = FALSE /\ c.thread = "none"
        /\ c.attached = wasapi.attached /\ c.notifier = wasapi.notifier /\ c.list = wasapi.list
        /\ c.present = wasapi.present /\ c.news = wasapi.news
    BY WasapiClosed
  <2> HIDE DEF c
  <2>3. wasapi' \in WasapiRecords
    BY <2>1, <2>2 DEF WasapiRecords, WasapiMains
  <2>4. WasapiStream(wasapi)'
    BY <2>1, <2>2, <2>3 DEF WasapiStream, WasapiRecords
  <2>5. wasapi.opened /\ wasapi'.opened = FALSE /\ wasapi'.thread = "none"
    BY <2>1, <2>2 DEF WasapiStream, WasapiRecords
  <2> QED
    BY <2>1, <2>3, <2>4, <2>5 DEF Wasapi!WasapiPromise!StopStream
<1>7. CASE Wasapi!Open
  <2>1. PICK sides \in SUBSET {"in", "out"} :
          /\ wasapi' = [wasapi EXCEPT !.opened = TRUE, !.uses = sides]
          /\ wasapi.main = "idle" /\ ~ wasapi.opened
    BY <1>7 DEF Wasapi!Open, WasapiRecords
  <2>2. wasapi' \in WasapiRecords
    BY <2>1 DEF WasapiRecords
  <2> QED
    BY <2>1, <2>2 DEF WasapiStream, WasapiRecords, Wasapi!WasapiPromise!OpenStream
<1>8. CASE Wasapi!StartClients
  <2>1. wasapi.main = "idle" /\ wasapi.opened /\ wasapi.thread = "none"
    BY <1>8 DEF Wasapi!StartClients
  <2>2. CASE wasapi' = [wasapi EXCEPT !.stopEvent = FALSE, !.main = "starting"]
    <3>1. wasapi' \in WasapiRecords
      BY <2>2 DEF WasapiRecords, WasapiMains
    <3> QED
      BY <2>1, <2>2, <3>1 DEF WasapiStream, WasapiRecords
  <2>3. CASE wasapi' = Wasapi!Closed(wasapi)
    <3> DEFINE c == Wasapi!Closed(wasapi)
    <3>2. /\ c \in WasapiRecords /\ c.running = FALSE /\ c.opened = FALSE /\ c.thread = "none"
          /\ c.attached = wasapi.attached /\ c.notifier = wasapi.notifier /\ c.list = wasapi.list
          /\ c.present = wasapi.present /\ c.news = wasapi.news /\ c.main = wasapi.main
      BY WasapiClosed
    <3> HIDE DEF c
    <3>3. wasapi' = c
      BY <2>3 DEF c
    <3>4. WasapiStream(wasapi)'
      BY <2>1, <3>2, <3>3 DEF WasapiStream
    <3> QED
      BY <2>1, <3>2, <3>3, <3>4 DEF WasapiStream, Wasapi!WasapiPromise!StartStream
  <2> QED
    BY <1>8, <2>2, <2>3 DEF Wasapi!StartClients
<1>9. CASE Wasapi!MakeThread
  <2>1. wasapi.main = "starting" /\ wasapi.thread = "none" /\ wasapi.opened
    BY <1>9 DEF Wasapi!MakeThread, WasapiStream
  <2>2. CASE wasapi.running
    <3>1. wasapi' = [[wasapi EXCEPT !.thread = "waiting"] EXCEPT !.main = "idle"]
      BY <1>9, <2>1, <2>2 DEF Wasapi!MakeThread, Wasapi!NextOfStart, WasapiRecords
    <3>2. wasapi' \in WasapiRecords
      BY <3>1 DEF WasapiRecords, WasapiMains, WasapiThreads
    <3> QED
      BY <2>1, <2>2, <3>1, <3>2 DEF WasapiStream, WasapiRecords, Wasapi!WasapiPromise!StartStream
  <2>3. CASE ~ wasapi.running
    <3>1. wasapi' = [[wasapi EXCEPT !.running = TRUE] EXCEPT !.main = "starting"]
      BY <1>9, <2>1, <2>3 DEF Wasapi!MakeThread, Wasapi!NextOfStart, WasapiRecords
    <3>2. wasapi' \in WasapiRecords
      BY <3>1 DEF WasapiRecords, WasapiMains
    <3> QED
      BY <2>1, <2>3, <3>1, <3>2 DEF WasapiStream, WasapiRecords
  <2> QED
    BY <2>2, <2>3
<1> QED
  BY <1>1, <1>2, <1>3, <1>4, <1>5, <1>6, <1>7, <1>8, <1>9

\* The thread's own steps.
LEMMA WasapiThreadSteps ==
  ASSUME WasapiTypes, WasapiStream(wasapi), WasapiFrames(wasapi, ringBuffer),
         \/ Wasapi!Captures \/ Wasapi!LeaveLoop \/ Wasapi!Fails
         \/ Wasapi!Cycle \/ Wasapi!Processed \/ Wasapi!CycleEnds
  PROVE  /\ WasapiTypes' /\ WasapiStream(wasapi)' /\ WasapiMaps
         /\ WasapiFrames(wasapi', ringBuffer')
<1> USE DEF WasapiTypes, WasapiMaps, Wasapi!WasapiPromise!BackendNext, Wasapi!WasapiPromise!backendVars
<1>0. /\ wasapi.captured \in Nat /\ wasapi.unread \in Nat /\ wasapi.heard \in Nat
      /\ wasapi.block \in Seq(Nat) /\ ringBuffer \in Rings
  BY DEF WasapiRecords, WasapiFrames
<1>1. CASE Wasapi!Captures
  <2>1. PICK c \in Nat, u \in Nat :
          /\ wasapi' = [wasapi EXCEPT !.captured = c, !.unread = u]
          /\ c = wasapi.captured + 1 /\ u = wasapi.unread + 1
    <3>1. wasapi.captured + 1 \in Nat /\ wasapi.unread + 1 \in Nat
      BY <1>0
    <3>2. wasapi' = [wasapi EXCEPT !.captured = wasapi.captured + 1, !.unread = wasapi.unread + 1]
      BY <1>1 DEF Wasapi!Captures, WasapiRecords
    <3> QED
      BY <3>1, <3>2
  <2>2. wasapi' \in WasapiRecords
    BY <2>1 DEF WasapiRecords
  <2>3. WasapiStream(wasapi)' /\ WasapiMaps
    BY <2>1, <2>2 DEF WasapiStream, WasapiRecords
  <2>4. ringBuffer' = ringBuffer /\ wasapi'.captured = c /\ wasapi'.unread = u
        /\ wasapi'.heard = wasapi.heard /\ wasapi'.block = wasapi.block
        /\ wasapi'.thread = wasapi.thread /\ wasapi'.uses = wasapi.uses
    BY <1>1, <2>1 DEF Wasapi!Captures, WasapiRecords
  <2>5. c - u = wasapi.captured - wasapi.unread /\ u <= c
    BY <1>0, <2>1 DEF WasapiFrames
  <2>6. WasapiFrames(wasapi', ringBuffer')
    BY <2>4, <2>5 DEF WasapiFrames, LastGiven
  <2> QED
    BY <2>2, <2>3, <2>6
<1>2. CASE Wasapi!LeaveLoop
  <2>1. wasapi' = [wasapi EXCEPT !.thread = "ended"] /\ wasapi.thread = "waiting" /\ wasapi.stopEvent
        /\ ringBuffer' = ringBuffer
    BY <1>2 DEF Wasapi!LeaveLoop
  <2>2. wasapi' \in WasapiRecords
    BY <2>1 DEF WasapiRecords, WasapiThreads
  <2>3. WasapiStream(wasapi)' /\ WasapiMaps
    BY <2>1, <2>2 DEF WasapiStream, WasapiRecords
  <2>4. SameFrames(wasapi, wasapi')
    BY <2>1, <2>2 DEF SameFrames, WasapiRecords
  <2> QED
    BY <2>1, <2>2, <2>3, <2>4, FramesKeep
<1>3. CASE Wasapi!Fails
  <2>1. wasapi' = [wasapi EXCEPT !.thread = "ended", !.running = FALSE]
        /\ wasapi.thread \in {"waiting", "cycling"} /\ ringBuffer' = ringBuffer
    BY <1>3 DEF Wasapi!Fails
  <2>2. wasapi' \in WasapiRecords
    BY <2>1 DEF WasapiRecords, WasapiThreads
  <2>3. WasapiStream(wasapi)'
    BY <2>1, <2>2 DEF WasapiStream, WasapiRecords
  <2>4. WasapiMaps
    BY <2>1, <2>2 DEF WasapiStream, WasapiRecords, Wasapi!WasapiPromise!StreamStops
  <2>5. SameFrames(wasapi, wasapi')
    BY <2>1, <2>2 DEF SameFrames, WasapiRecords
  <2> QED
    BY <2>1, <2>2, <2>3, <2>4, <2>5, FramesKeep
<1>4. CASE Wasapi!Cycle
  <2>1. PICK r \in Nat : wasapi' = [wasapi EXCEPT !.thread = "cycling", !.unread = 0, !.room = r]
    <3>1. ringBuffer' \in Rings
      BY <1>0, <1>4, CaptureIs DEF Wasapi!Cycle, WasapiFrames, LastGiven
    <3>2. ringBuffer'.fill \in Nat
      BY <3>1, Sizes DEF Rings
    <3>3. ringBuffer'.fill \div BlockSize \in Nat
      BY <3>2, Sizes, Quotients
    <3>4. PICK r \in IF Wasapi!GivesOutput THEN 0 .. 2 ELSE {ringBuffer'.fill \div BlockSize} :
            wasapi' = [wasapi EXCEPT !.thread = "cycling", !.unread = 0, !.room = r]
      BY <1>4 DEF Wasapi!Cycle
    <3>5. r \in Nat
      BY <3>3
    <3> QED
      BY <3>4, <3>5
  <2>2. wasapi.thread = "waiting" /\ ringBuffer' = Wasapi!ReadCapture
    BY <1>4 DEF Wasapi!Cycle
  <2>3. wasapi' \in WasapiRecords
    BY <2>1 DEF WasapiRecords, WasapiThreads
  <2>4. WasapiStream(wasapi)' /\ WasapiMaps
    BY <2>1, <2>2, <2>3 DEF WasapiStream, WasapiRecords
  <2>5. /\ wasapi'.captured = wasapi.captured /\ wasapi'.unread = 0 /\ wasapi'.thread = "cycling"
        /\ wasapi'.block = wasapi.block /\ wasapi'.heard = wasapi.heard
    BY <2>1 DEF WasapiRecords
  <2>6. wasapi.block = <<>> /\ LastGiven(wasapi) = wasapi.heard
    BY <2>2 DEF WasapiFrames, LastGiven
  <2>7. ringBuffer' \in Rings /\ FramesAfter(ringBuffer', wasapi.heard, wasapi.captured)
    BY <1>0, <2>2, <2>6, CaptureIs DEF WasapiFrames
  <2>8. WasapiFrames(wasapi', ringBuffer')
    <3>1. 0 <= wasapi.captured /\ wasapi.captured - 0 = wasapi.captured
      BY <1>0
    <3> QED
      BY <2>5, <2>6, <2>7, <3>1 DEF WasapiFrames, LastGiven
  <2> QED
    BY <2>3, <2>4, <2>8
<1>5. CASE Wasapi!Processed
  <2> DEFINE h == LastGiven(wasapi)
  <2>1. wasapi' = [wasapi EXCEPT !.thread = "cycling", !.block = <<>>, !.heard = h]
        /\ wasapi.thread = "calling" /\ ringBuffer' = ringBuffer
    BY <1>5 DEF Wasapi!Processed, LastGiven, WasapiRecords
  <2>2. h \in Nat
    BY <1>0, Sizes DEF LastGiven, WasapiFrames
  <2> HIDE DEF h
  <2>3. wasapi' \in WasapiRecords
    <3>1. "cycling" \in WasapiThreads /\ <<>> \in Seq(Nat)
      BY DEF WasapiThreads
    <3> QED
      BY <2>1, <2>2, <3>1 DEF WasapiRecords
  <2>4. WasapiStream(wasapi)'
    BY <2>1, <2>3 DEF WasapiStream, WasapiRecords
  <2>5. WasapiMaps
    BY <2>1, <2>3 DEF WasapiStream, WasapiRecords, Wasapi!WasapiPromise!CallEnds
  <2>6. /\ wasapi'.captured = wasapi.captured /\ wasapi'.unread = wasapi.unread
        /\ wasapi'.thread = "cycling" /\ wasapi'.block = <<>> /\ wasapi'.heard = h
    BY <2>1, <2>3 DEF WasapiRecords
  <2>7. WasapiFrames(wasapi', ringBuffer')
    BY <2>1, <2>6 DEF WasapiFrames, LastGiven, h
  <2> QED
    BY <2>3, <2>4, <2>5, <2>7
<1>6. CASE Wasapi!CycleEnds
  <2>1. wasapi' = [wasapi EXCEPT !.thread = "waiting"] /\ wasapi.thread = "cycling"
        /\ ringBuffer' = ringBuffer
    BY <1>6 DEF Wasapi!CycleEnds
  <2>2. wasapi' \in WasapiRecords
    BY <2>1 DEF WasapiRecords, WasapiThreads
  <2>3. WasapiStream(wasapi)' /\ WasapiMaps
    BY <2>1, <2>2 DEF WasapiStream, WasapiRecords
  <2>4. SameFrames(wasapi, wasapi')
    BY <2>1, <2>2 DEF SameFrames, WasapiRecords
  <2> QED
    BY <2>1, <2>2, <2>3, <2>4, FramesKeep
<1> QED
  BY <1>1, <1>2, <1>3, <1>4, <1>5, <1>6

\* One process() call takes a block, in order, and leaves the ring in order after it.
LEMMA WasapiCallBegins ==
  ASSUME WasapiTypes, WasapiStream(wasapi), WasapiFrames(wasapi, ringBuffer), Wasapi!ProcessBuffer
  PROVE  /\ WasapiTypes' /\ WasapiStream(wasapi)' /\ WasapiMaps
         /\ WasapiFrames(wasapi', ringBuffer')
<1> USE DEF WasapiTypes, WasapiMaps, Wasapi!WasapiPromise!BackendNext, Wasapi!WasapiPromise!backendVars
<1> DEFINE b == Wasapi!BalanceRing
           given == IF Wasapi!TakesInput /\ b.fill >= BlockSize THEN BlockSize ELSE 0
           block == [i \in 1 .. given |-> b.frames[(b.read + i - 1) % Places]]
           high == wasapi.captured - wasapi.unread
<1>0. /\ wasapi.captured \in Nat /\ wasapi.unread \in Nat /\ wasapi.heard \in Nat
      /\ wasapi.room \in Nat /\ ringBuffer \in Rings /\ wasapi.unread <= wasapi.captured
      /\ ringBuffer.fill \in 0 .. Places
  BY DEF WasapiRecords, WasapiFrames, Rings
<1>1. wasapi.thread = "cycling" /\ wasapi.room > 0 /\ ringBuffer' = Wasapi!Advanced(b, given)
      /\ wasapi' = [wasapi EXCEPT !.thread = "calling", !.room = wasapi.room - 1, !.block = block]
  BY DEF Wasapi!ProcessBuffer, WasapiRecords, Places
<1>2. wasapi.block = <<>> /\ FramesAfter(ringBuffer, wasapi.heard, high) /\ high \in Nat
  BY <1>0, <1>1 DEF WasapiFrames, LastGiven
<1>3. /\ b \in Rings /\ FramesAfter(b, wasapi.heard, high)
      /\ Wasapi!GivesOutput => b.fill <= Wasapi!High
  <2> HIDE DEF high
  <2>1. CASE Wasapi!GivesOutput /\ ringBuffer.fill > Wasapi!High
    <3> DEFINE n == ringBuffer.fill - (Wasapi!High - BlockSize)
    <3>1. b = Wasapi!Advanced(ringBuffer, n)
      BY <2>1 DEF Wasapi!BalanceRing
    <3>2. n \in 0 .. ringBuffer.fill /\ ringBuffer.fill - n <= Wasapi!High
      BY <1>0, <2>1, Sizes
    <3> HIDE DEF b, n
    <3> QED
      BY <1>0, <1>2, <3>1, <3>2, AdvancedIs, AdvancedKeeps
  <2>2. CASE ~ (Wasapi!GivesOutput /\ ringBuffer.fill > Wasapi!High)
    <3>1. b = ringBuffer
      BY <2>2 DEF Wasapi!BalanceRing
    <3>2. Wasapi!GivesOutput => ringBuffer.fill <= Wasapi!High
      BY <1>0, <2>2, Sizes
    <3> HIDE DEF b
    <3> QED
      BY <1>0, <1>2, <3>1, <3>2
  <2> QED
    BY <2>1, <2>2
<1> HIDE DEF b, high
<1>4. b.fill \in 0 .. Places
  BY <1>3 DEF Rings
<1>5. given \in 0 .. b.fill /\ given \in {0, BlockSize} /\ given \in Nat
  BY <1>4, Sizes
<1> HIDE DEF given
<1>6. /\ ringBuffer' \in Rings /\ FramesAfter(ringBuffer', wasapi.heard, high)
      /\ ringBuffer'.fill = b.fill - given
      /\ given # 0 => FramesAfter(ringBuffer', Frame(b, given - 1), high)
  BY <1>0, <1>1, <1>2, <1>3, <1>5, AdvancedIs, AdvancedKeeps
<1>7. block = [i \in 1 .. given |-> Frame(b, i - 1)]
  <2>1. ASSUME NEW i \in 1 .. given PROVE (b.read + i - 1) % Places = Slot(b, i - 1)
    BY <1>5 DEF Slot
  <2> QED
    BY <2>1 DEF Frame
<1> HIDE DEF block
<1>8. /\ block \in Seq(Nat) /\ Len(block) = given
      /\ \A i \in 1 .. given : block[i] = Frame(b, i - 1)
  <2>1. \A i \in 1 .. given : Frame(b, i - 1) \in Nat
    <3> TAKE i \in 1 .. given
    <3>1. i - 1 \in Nat
      BY <1>5
    <3> QED
      BY <1>3, <3>1, FrameIsNat
  <2> QED
    BY <1>5, <1>7, <2>1
<1>9. wasapi.room - 1 \in Nat
  BY <1>0, <1>1
<1>10. wasapi' \in WasapiRecords
  BY <1>1, <1>8, <1>9 DEF WasapiRecords, WasapiThreads
<1>11. /\ wasapi'.captured = wasapi.captured /\ wasapi'.unread = wasapi.unread
       /\ wasapi'.thread = "calling" /\ wasapi'.block = block /\ wasapi'.heard = wasapi.heard
       /\ wasapi'.uses = wasapi.uses
  BY <1>1 DEF WasapiRecords
<1>12. WasapiStream(wasapi)'
  BY <1>1, <1>10 DEF WasapiStream, WasapiRecords
<1>13. WasapiMaps
  BY <1>1, <1>10 DEF WasapiStream, WasapiRecords, Wasapi!WasapiPromise!CallBegins
<1>14. "out" \in wasapi.uses => ringBuffer'.fill <= Wasapi!High
  BY <1>3, <1>4, <1>5, <1>6, Sizes DEF Wasapi!GivesOutput
<1>15. CASE given = 0
  <2>1. block = <<>>
    BY <1>8, <1>15
  <2> QED
    BY <1>0, <1>6, <1>10, <1>11, <1>12, <1>13, <1>14, <2>1 DEF WasapiFrames, LastGiven, high
<1>16. CASE given = BlockSize
  <2>1. block # <<>> /\ Len(block) = BlockSize /\ BlockSize \in 1 .. given
    BY <1>8, <1>16, Sizes
  <2>2. block[BlockSize] = Frame(b, given - 1)
    BY <1>8, <1>16, <2>1
  <2>3. wasapi.heard < block[1]
    <3>1. 1 \in 1 .. given /\ 0 \in 0 .. b.fill - 1 /\ 1 - 1 = 0
      BY <1>4, <1>5, <1>16, Sizes
    <3> QED
      BY <1>3, <1>8, <3>1 DEF FramesAfter
  <2>4. ASSUME NEW i \in 1 .. BlockSize - 1 PROVE block[i] < block[i + 1]
    <3>1. /\ i \in 1 .. given /\ i + 1 \in 1 .. given /\ i - 1 \in 0 .. b.fill - 1
          /\ i \in 0 .. b.fill - 1 /\ (i + 1) - 1 = i /\ i - 1 < i
      BY <1>4, <1>5, <1>16, Sizes
    <3>2. Frame(b, i - 1) < Frame(b, i)
      BY <1>3, <3>1 DEF FramesAfter
    <3> QED
      BY <1>8, <3>1, <3>2
  <2>5. FramesAfter(ringBuffer', block[BlockSize], high)
    BY <1>6, <1>16, <2>2, Sizes
  <2>6. WasapiFrames(wasapi', ringBuffer')
    BY <1>0, <1>6, <1>11, <1>14, <2>1, <2>3, <2>4, <2>5 DEF WasapiFrames, LastGiven, high
  <2> QED
    BY <1>10, <1>12, <1>13, <2>6
<1> QED
  BY <1>5, <1>15, <1>16

\* The main thread leaves the frames as they are, or begins with none.
LEMMA WasapiMainFrames ==
  ASSUME WasapiTypes, WasapiStream(wasapi), WasapiFrames(wasapi, ringBuffer),
         \/ Wasapi!EndpointChanges \/ Wasapi!Notified \/ Wasapi!List \/ Wasapi!Destroy
         \/ Wasapi!Stop \/ Wasapi!Stopped \/ Wasapi!Open \/ Wasapi!StartClients \/ Wasapi!MakeThread
  PROVE  WasapiFrames(wasapi', ringBuffer')
<1> USE DEF WasapiTypes
<1>1. CASE Wasapi!EndpointChanges \/ Wasapi!Notified \/ Wasapi!List \/ Wasapi!Destroy
  <2>1. SameFrames(wasapi, wasapi') /\ ringBuffer' = ringBuffer
    BY <1>1, ZenonT(60) DEF Wasapi!EndpointChanges, Wasapi!Notified, Wasapi!List, Wasapi!Destroy, SameFrames,
                WasapiRecords
  <2> QED
    BY <2>1, FramesKeep
<1>2. CASE Wasapi!Stop
  <2>1. SameFrames(wasapi, wasapi') /\ ringBuffer' = ringBuffer
    BY <1>2 DEF Wasapi!Stop, SameFrames, WasapiRecords
  <2> QED
    BY <2>1, FramesKeep
<1>3. CASE Wasapi!Stopped
  <2> DEFINE c == Wasapi!Closed(wasapi)
  <2>1. /\ wasapi' = [c EXCEPT !.main = "idle"] /\ ringBuffer' = Wasapi!EmptyRing
        /\ wasapi.thread \in {"none", "ended"}
    BY <1>3 DEF Wasapi!Stopped, Wasapi!Joined
  <2>2. /\ c \in WasapiRecords /\ c.thread = "none" /\ c.captured = 0 /\ c.unread = 0
        /\ c.heard = 0 /\ c.block = wasapi.block
    BY WasapiClosed
  <2> HIDE DEF c
  <2>3. /\ wasapi'.thread = "none" /\ wasapi'.captured = 0 /\ wasapi'.unread = 0
        /\ wasapi'.heard = 0 /\ wasapi'.block = wasapi.block
    BY <2>1, <2>2 DEF WasapiRecords
  <2>4. wasapi.block = <<>>
    BY <2>1 DEF WasapiFrames
  <2> QED
    BY <2>1, <2>3, <2>4, FramesBegin, EmptyRingIs
<1>4. CASE Wasapi!Open
  <2>1. wasapi.thread # "calling"
    BY <1>4 DEF Wasapi!Open, WasapiStream
  <2>2. SameFrames(wasapi, wasapi') /\ ringBuffer' = ringBuffer
    BY <1>4, <2>1 DEF Wasapi!Open, SameFrames, WasapiRecords
  <2> QED
    BY <2>2, FramesKeep
<1>5. CASE Wasapi!StartClients
  <2>1. wasapi.thread = "none" /\ ringBuffer' = ringBuffer
    BY <1>5 DEF Wasapi!StartClients
  <2>2. CASE wasapi' = [wasapi EXCEPT !.stopEvent = FALSE, !.main = "starting"]
    <3>1. SameFrames(wasapi, wasapi')
      BY <2>2 DEF SameFrames, WasapiRecords
    <3> QED
      BY <2>1, <3>1, FramesKeep
  <2>3. CASE wasapi' = Wasapi!Closed(wasapi)
    <3>1. /\ wasapi'.thread = "none" /\ wasapi'.captured = 0 /\ wasapi'.unread = 0
          /\ wasapi'.heard = 0 /\ wasapi'.block = wasapi.block
      BY <2>3, WasapiClosed
    <3>2. wasapi.block = <<>> /\ ringBuffer \in Rings /\ ringBuffer.fill = 0
      BY <2>1 DEF WasapiFrames
    <3> QED
      BY <2>1, <3>1, <3>2, FramesBegin
  <2> QED
    BY <1>5, <2>2, <2>3 DEF Wasapi!StartClients
<1>6. CASE Wasapi!MakeThread
  <2>1. wasapi.thread = "none" /\ ringBuffer' = ringBuffer
    BY <1>6 DEF Wasapi!MakeThread, WasapiStream
  <2>2. CASE wasapi.running
    <3>1. wasapi' = [[wasapi EXCEPT !.thread = "waiting"] EXCEPT !.main = "idle"]
      BY <1>6, <2>1, <2>2 DEF Wasapi!MakeThread, Wasapi!NextOfStart, WasapiRecords
    <3>2. SameFrames(wasapi, wasapi')
      BY <2>1, <3>1 DEF SameFrames, WasapiRecords
    <3> QED
      BY <2>1, <3>2, FramesKeep
  <2>3. CASE ~ wasapi.running
    <3>1. wasapi' = [[wasapi EXCEPT !.running = TRUE] EXCEPT !.main = "starting"]
      BY <1>6, <2>1, <2>3 DEF Wasapi!MakeThread, Wasapi!NextOfStart, WasapiRecords
    <3>2. SameFrames(wasapi, wasapi')
      BY <2>1, <3>1 DEF SameFrames, WasapiRecords
    <3> QED
      BY <2>1, <3>2, FramesKeep
  <2> QED
    BY <2>2, <2>3
<1> QED
  BY <1>1, <1>2, <1>3, <1>4, <1>5, <1>6

WasapiInv == WasapiTypes /\ WasapiStream(wasapi) /\ WasapiFrames(wasapi, ringBuffer)

\* The step of WASAPI's invariant, each an AudioBackend step or a stutter.
LEMMA WasapiStep == WasapiInv /\ [Wasapi!WasapiNext]_Wasapi!wasapiVars => WasapiInv' /\ WasapiMaps
<1> SUFFICES ASSUME WasapiInv, [Wasapi!WasapiNext]_Wasapi!wasapiVars PROVE WasapiInv' /\ WasapiMaps
  OBVIOUS
<1>1. WasapiTypes /\ WasapiStream(wasapi) /\ WasapiFrames(wasapi, ringBuffer)
  BY DEF WasapiInv
<1>2. CASE \/ Wasapi!EndpointChanges \/ Wasapi!Notified \/ Wasapi!List \/ Wasapi!Destroy
           \/ Wasapi!Stop \/ Wasapi!Stopped \/ Wasapi!Open \/ Wasapi!StartClients \/ Wasapi!MakeThread
  BY <1>1, <1>2, WasapiMainSteps, WasapiMainFrames DEF WasapiInv
<1>3. CASE \/ Wasapi!Captures \/ Wasapi!LeaveLoop \/ Wasapi!Fails
           \/ Wasapi!Cycle \/ Wasapi!Processed \/ Wasapi!CycleEnds
  BY <1>1, <1>3, WasapiThreadSteps DEF WasapiInv
<1>4. CASE Wasapi!ProcessBuffer
  BY <1>1, <1>4, WasapiCallBegins DEF WasapiInv
<1>5. CASE UNCHANGED Wasapi!wasapiVars
  <2>1. wasapi' = wasapi /\ ringBuffer' = ringBuffer
    BY <1>5 DEF Wasapi!wasapiVars
  <2> QED
    BY <1>1, <2>1 DEF WasapiInv, WasapiTypes, WasapiStream, WasapiFrames, LastGiven, WasapiMaps,
                      Wasapi!WasapiPromise!backendVars
<1> QED
  BY <1>2, <1>3, <1>4, <1>5 DEF Wasapi!WasapiNext
-----------------------------------------------------------------------------
(* CoreAudio. *)

CoreMains == {"idle", "listing", "setting", "stopping", "starting"}
RateMaps == UNION {[P -> {1, 2}] : P \in SUBSET CoreAudio!Uids}

CoreRecords ==
  [rates : RateMaps, list : RateMaps, signature : RateMaps, seen : RateMaps \cup {<<>>},
   listener : {"idle", "reading"}, main : CoreMains, heard : SUBSET CoreAudio!Uids,
   news : BOOLEAN, todo : SUBSET CoreAudio!Uids]

\* Of the channels' places only that they are fields.
IoTypes ==
  /\ io = [out |-> io.out, in |-> io.in, rate |-> io.rate, aggregate |-> io.aggregate,
           opened |-> io.opened, inMap |-> io.inMap, outMap |-> io.outMap, listens |-> io.listens,
           enabled |-> io.enabled, callback |-> io.callback, started |-> io.started,
           render |-> io.render]
  /\ io.out \in CoreAudio!Uids \cup {NoUid} /\ io.in \in CoreAudio!Uids \cup {NoUid}
  /\ io.rate \in {0, 1, 2} /\ io.render \in {"out", "calling"}
  /\ {io.aggregate, io.opened, io.listens, io.enabled, io.callback, io.started} \subseteq BOOLEAN

CoreReads == coreAudio.listener = "reading" => coreAudio.seen \in RateMaps

CoreTypes == coreAudio \in CoreRecords /\ CoreReads /\ IoTypes

\* Which fields of the stream two records share, others than these.
IoSame(i, k, others) ==
  /\ k.out = i.out /\ k.in = i.in /\ k.rate = i.rate /\ k.aggregate = i.aggregate
  /\ k.opened = i.opened /\ k.callback = i.callback /\ k.started = i.started
  /\ "listens" \notin others => k.listens = i.listens
  /\ "enabled" \notin others => k.enabled = i.enabled
  /\ "render" \notin others => k.render = i.render

\* Whose the stream is, and who may be in it.
CoreStream ==
  /\ (io.callback \/ io.aggregate) => io.opened
  /\ (io.started \/ io.enabled \/ io.listens) => io.callback
  /\ io.render = "calling" => io.callback
  /\ coreAudio.main = "stopping" => io.opened
  /\ coreAudio.main = "starting" => io.callback
  /\ coreAudio.main = "setting" => ~ io.opened

\* A stream's devices are there at its rate, from open() on, or its end is queued.
CoreEnds ==
  /\ coreAudio.main = "setting" =>
       /\ coreAudio.todo \subseteq CoreAudio!RealDevices
       /\ CoreAudio!RealDevices \subseteq CoreAudio!Present
       /\ \A uid \in CoreAudio!RealDevices \ coreAudio.todo : coreAudio.rates[uid] = io.rate
  /\ (io.opened \/ coreAudio.main = "setting") => CoreAudio!RealDevices # {}
  /\ io.opened /\ ~ io.listens /\ coreAudio.main # "stopping" =>
       /\ CoreAudio!RealDevices \subseteq CoreAudio!Present
       /\ \A uid \in CoreAudio!RealDevices : coreAudio.rates[uid] = io.rate
  /\ CoreAudio!CoreEndIsSeen

\* What the host has is what a change is told against, or it will list again.
CoreLists ==
  /\ coreAudio.main # "listing" =>
       /\ coreAudio.heard = DOMAIN coreAudio.list
       /\ coreAudio.signature = coreAudio.list \/ coreAudio.news
  /\ coreAudio.main = "listing" => coreAudio.list = coreAudio.rates
  /\ coreAudio.listener = "reading" =>
       \/ <<"devices", NoUid>> \in notices
       \/ coreAudio.seen = coreAudio.rates
       \/ coreAudio.seen # coreAudio.list
  /\ CoreAudio!CoreListIsTrue

CoreInv == CoreTypes /\ CoreStream /\ CoreEnds /\ CoreLists

CoreMaps == CoreAudio!CorePromise!BackendNext \/ UNCHANGED CoreAudio!CorePromise!backendVars

\* A device that is there is one of the devices.
LEMMA RateMapIsOfUids ==
  ASSUME NEW m \in RateMaps
  PROVE  DOMAIN m \in SUBSET CoreAudio!Uids /\ \A u \in DOMAIN m : m[u] \in {1, 2}
<1>1. PICK P \in SUBSET CoreAudio!Uids : m \in [P -> {1, 2}]
  BY DEF RateMaps
<1> QED
  BY <1>1

\* A device comes, goes, or is switched to another rate.
LEMMA RateMapsChange ==
  ASSUME NEW m \in RateMaps, NEW uid \in CoreAudio!Uids, NEW r \in {1, 2}
  PROVE  /\ DOMAIN m \subseteq CoreAudio!Uids
         /\ \A u \in DOMAIN m : m[u] \in {1, 2}
         /\ [m EXCEPT ![uid] = r] \in RateMaps
         /\ DOMAIN [m EXCEPT ![uid] = r] = DOMAIN m
         /\ [u \in DOMAIN m \ {uid} |-> m[u]] \in RateMaps
         /\ [u \in DOMAIN m \cup {uid} |-> IF u = uid THEN r ELSE m[u]] \in RateMaps
<1>1. PICK P \in SUBSET CoreAudio!Uids : m \in [P -> {1, 2}]
  BY DEF RateMaps
<1>2. DOMAIN m = P
  BY <1>1
<1>3. [m EXCEPT ![uid] = r] \in [P -> {1, 2}]
  BY <1>1
<1>4. [u \in P \ {uid} |-> m[u]] \in [P \ {uid} -> {1, 2}]
  BY <1>1
<1>5. [u \in P \cup {uid} |-> IF u = uid THEN r ELSE m[u]] \in [P \cup {uid} -> {1, 2}]
  BY <1>1
<1>6. P \ {uid} \in SUBSET CoreAudio!Uids /\ P \cup {uid} \in SUBSET CoreAudio!Uids
  OBVIOUS
<1> QED
  BY <1>1, <1>2, <1>3, <1>4, <1>5, <1>6, ZenonT(60) DEF RateMaps

\* What the promise and the stream's types do not depend on.
LEMMA CoreStutters ==
  ASSUME io' = io
  PROVE  CoreMaps /\ (IoTypes => IoTypes')
BY DEF CoreMaps, CoreAudio!CorePromise!backendVars, IoTypes

\* A rate that is switched is heard of, or the device is not in the list.
LEMMA CoreListsSwitch ==
  ASSUME coreAudio \in CoreRecords, CoreLists, NEW uid \in CoreAudio!Present, NEW r \in {1, 2},
         coreAudio.main # "listing", coreAudio'.main # "listing",
         coreAudio'.rates = [coreAudio.rates EXCEPT ![uid] = r],
         coreAudio'.list = coreAudio.list, coreAudio'.signature = coreAudio.signature,
         coreAudio'.seen = coreAudio.seen, coreAudio'.listener = coreAudio.listener,
         coreAudio'.heard = coreAudio.heard, coreAudio'.news = coreAudio.news,
         notices \subseteq notices', uid \in coreAudio.heard => <<"devices", NoUid>> \in notices'
  PROVE  CoreLists'
<1>1. CASE uid \in coreAudio.heard
  BY <1>1 DEF CoreLists, CoreAudio!CoreListIsTrue
<1>2. CASE uid \notin coreAudio.heard
  <2>1. uid \notin DOMAIN coreAudio.list /\ uid \in DOMAIN coreAudio.rates
    BY <1>2 DEF CoreLists, CoreAudio!Present
  <2>2. coreAudio.list # coreAudio.rates
    BY <2>1
  <2>3. coreAudio.seen = coreAudio.rates => coreAudio.seen # coreAudio.list
    BY <2>2
  <2> QED
    BY <2>2, <2>3 DEF CoreLists, CoreAudio!CoreListIsTrue
<1> QED
  BY <1>1, <1>2

\* The devices change, a stream's only with a notice of it.
LEMMA CoreDeviceSteps ==
  ASSUME CoreInv, CoreAudio!DeviceComesOrGoes \/ CoreAudio!RateSwitched
  PROVE  CoreInv' /\ CoreMaps
<1> USE DEF CoreTypes
<1>0. CoreTypes /\ CoreStream /\ CoreEnds /\ CoreLists
  BY DEF CoreInv
<1>1. io' = io
  BY DEF CoreAudio!DeviceComesOrGoes, CoreAudio!RateSwitched
<1>2. CoreMaps /\ IoTypes'
  BY <1>0, <1>1, CoreStutters
<1>3. CASE CoreAudio!DeviceComesOrGoes
  <2>1. PICK uid \in CoreAudio!Uids :
          /\ CoreAudio!Heard(uid)
          /\ coreAudio' = [coreAudio EXCEPT !.rates = IF uid \in CoreAudio!Present
                             THEN [u \in CoreAudio!Present \ {uid} |-> coreAudio.rates[u]]
                             ELSE [u \in CoreAudio!Present \cup {uid} |->
                                     IF u = uid THEN 1 ELSE coreAudio.rates[u]]]
          /\ notices' = notices \cup {<<"devices", NoUid>>} \cup
                          IF uid \in CoreAudio!Present THEN CoreAudio!StreamNotices(uid, "alive") ELSE {}
    BY <1>0, <1>3 DEF CoreAudio!DeviceComesOrGoes, CoreRecords
  <2> DEFINE gone == [u \in CoreAudio!Present \ {uid} |-> coreAudio.rates[u]]
             come == [u \in CoreAudio!Present \cup {uid} |-> IF u = uid THEN 1 ELSE coreAudio.rates[u]]
             rates == IF uid \in CoreAudio!Present THEN gone ELSE come
  <2>2. coreAudio.rates \in RateMaps
    BY <1>0 DEF CoreRecords
  <2>3. gone \in RateMaps /\ come \in RateMaps
    BY <2>2, RateMapsChange DEF CoreAudio!Present
  <2>4. rates \in RateMaps
    BY <2>3
  <2>5. /\ \A u \in CoreAudio!Present : u # uid => u \in DOMAIN rates /\ rates[u] = coreAudio.rates[u]
        /\ uid \in CoreAudio!Present => uid \notin DOMAIN rates
    OBVIOUS
  <2>6. \A u \in DOMAIN rates : u = uid \/ u \in CoreAudio!Present
    OBVIOUS
  <2> HIDE DEF gone, come, rates
  <2>7. coreAudio' = [coreAudio EXCEPT !.rates = rates]
    BY <2>1 DEF rates, gone, come
  <2>8. /\ coreAudio' \in CoreRecords /\ coreAudio'.rates = rates
        /\ coreAudio'.list = coreAudio.list /\ coreAudio'.signature = coreAudio.signature
        /\ coreAudio'.seen = coreAudio.seen /\ coreAudio'.listener = coreAudio.listener
        /\ coreAudio'.main = coreAudio.main /\ coreAudio'.heard = coreAudio.heard
        /\ coreAudio'.news = coreAudio.news /\ coreAudio'.todo = coreAudio.todo
    BY <1>0, <2>4, <2>7 DEF CoreRecords
  <2>9. coreAudio.main # "listing" /\ (uid \in CoreAudio!RealDevices => io.listens)
    BY <2>1 DEF CoreAudio!Heard
  <2>10. /\ notices \subseteq notices' /\ <<"devices", NoUid>> \in notices'
         /\ uid \in CoreAudio!Present /\ uid \in CoreAudio!RealDevices => <<"alive", uid>> \in notices'
    BY <2>1, <2>9 DEF CoreAudio!StreamNotices
  <2>11. CoreStream'
    BY <1>0, <1>1, <2>8 DEF CoreStream
  <2>12. CoreLists'
    BY <1>0, <2>8, <2>9, <2>10 DEF CoreLists, CoreAudio!CoreListIsTrue
  <2>13. CoreAudio!CoreEndIsSeen'
    <3> SUFFICES ASSUME io.listens, io.enabled, NEW u \in CoreAudio!RealDevices
                 PROVE  \/ u \in DOMAIN rates /\ rates[u] = io.rate
                        \/ <<"alive", u>> \in notices'
                        \/ u \in DOMAIN rates /\ <<"rate", u>> \in notices'
      BY <1>1, <2>8 DEF CoreAudio!CoreEndIsSeen, CoreAudio!RealDevices, CoreAudio!Present
    <3>1. \/ u \in CoreAudio!Present /\ coreAudio.rates[u] = io.rate
          \/ <<"alive", u>> \in notices
          \/ u \in CoreAudio!Present /\ <<"rate", u>> \in notices
      BY <1>0 DEF CoreEnds, CoreAudio!CoreEndIsSeen
    <3> QED
      BY <2>5, <2>10, <3>1
  <2>14. CoreEnds'
    <3>1. coreAudio.main = "setting" => ~ io.listens
      BY <1>0 DEF CoreStream
    <3>2. ASSUME NEW u \in CoreAudio!RealDevices, ~ io.listens PROVE u # uid
      BY <2>9, <3>2
    <3> QED
      BY <1>0, <1>1, <2>5, <2>8, <2>13, <3>1, <3>2
         DEF CoreEnds, CoreAudio!RealDevices, CoreAudio!Present
  <2> QED
    BY <1>0, <1>2, <2>8, <2>11, <2>12, <2>14 DEF CoreInv, CoreReads
<1>4. CASE CoreAudio!RateSwitched
  <2>1. PICK uid \in CoreAudio!Present :
          /\ CoreAudio!Heard(uid)
          /\ coreAudio' = [coreAudio EXCEPT !.rates[uid] = 3 - coreAudio.rates[uid]]
          /\ notices' = notices \cup CoreAudio!StreamNotices(uid, "rate") \cup
                          IF uid \in coreAudio.heard THEN {<<"devices", NoUid>>} ELSE {}
    BY <1>4 DEF CoreAudio!RateSwitched, CoreAudio!Switched
  <2> DEFINE r == 3 - coreAudio.rates[uid]
  <2>2. coreAudio.main # "listing" /\ (uid \in CoreAudio!RealDevices => io.listens)
    BY <2>1 DEF CoreAudio!Heard
  <2>3. /\ notices \subseteq notices'
        /\ uid \in coreAudio.heard => <<"devices", NoUid>> \in notices'
        /\ uid \in CoreAudio!RealDevices => <<"rate", uid>> \in notices'
    BY <2>1, <2>2 DEF CoreAudio!StreamNotices
  <2>4. r \in {1, 2}
    <3>1. coreAudio.rates[uid] \in {1, 2}
      <4>1. coreAudio.rates \in RateMaps
        BY <1>0 DEF CoreRecords
      <4>2. PICK P \in SUBSET CoreAudio!Uids : coreAudio.rates \in [P -> {1, 2}]
        BY <4>1 DEF RateMaps
      <4> QED
        BY <2>1, <4>2 DEF CoreAudio!Present
    <3> QED
      BY <3>1
  <2> HIDE DEF r
  <2>5. coreAudio' = [coreAudio EXCEPT !.rates[uid] = r]
    BY <2>1 DEF r
  <2> DEFINE rates == [coreAudio.rates EXCEPT ![uid] = r]
  <2>6. coreAudio.rates \in RateMaps
    BY <1>0 DEF CoreRecords
  <2>7. /\ rates \in RateMaps /\ DOMAIN rates = CoreAudio!Present
        /\ \A u \in CoreAudio!Present : u # uid => rates[u] = coreAudio.rates[u]
    <3>1. uid \in CoreAudio!Uids
      BY <2>1, <2>6, RateMapIsOfUids DEF CoreAudio!Present
    <3> QED
      BY <2>4, <2>6, <3>1, RateMapsChange DEF CoreAudio!Present
  <2> HIDE DEF rates
  <2>8. coreAudio' = [coreAudio EXCEPT !.rates = rates]
    BY <1>0, <2>5 DEF rates, CoreRecords
  <2>9. /\ coreAudio' \in CoreRecords /\ coreAudio'.rates = rates
        /\ coreAudio'.list = coreAudio.list /\ coreAudio'.signature = coreAudio.signature
        /\ coreAudio'.seen = coreAudio.seen /\ coreAudio'.listener = coreAudio.listener
        /\ coreAudio'.main = coreAudio.main /\ coreAudio'.heard = coreAudio.heard
        /\ coreAudio'.news = coreAudio.news /\ coreAudio'.todo = coreAudio.todo
    BY <1>0, <2>7, <2>8 DEF CoreRecords
  <2>10. CoreStream'
    BY <1>0, <1>1, <2>9 DEF CoreStream
  <2>11. CoreLists'
    BY <1>0, <2>2, <2>3, <2>4, <2>9, CoreListsSwitch DEF rates
  <2>12. CoreAudio!CoreEndIsSeen'
    <3> SUFFICES ASSUME io.listens, io.enabled, NEW u \in CoreAudio!RealDevices
                 PROVE  \/ u \in DOMAIN rates /\ rates[u] = io.rate
                        \/ <<"alive", u>> \in notices'
                        \/ u \in DOMAIN rates /\ <<"rate", u>> \in notices'
      BY <1>1, <2>9 DEF CoreAudio!CoreEndIsSeen, CoreAudio!RealDevices, CoreAudio!Present
    <3>1. \/ u \in CoreAudio!Present /\ coreAudio.rates[u] = io.rate
          \/ <<"alive", u>> \in notices
          \/ u \in CoreAudio!Present /\ <<"rate", u>> \in notices
      BY <1>0 DEF CoreEnds, CoreAudio!CoreEndIsSeen
    <3> QED
      BY <2>1, <2>3, <2>7, <3>1
  <2>13. CoreEnds'
    <3>1. coreAudio.main = "setting" => ~ io.listens
      BY <1>0 DEF CoreStream
    <3>2. ASSUME NEW u \in CoreAudio!RealDevices, ~ io.listens PROVE u # uid
      BY <2>2, <3>2
    <3> QED
      BY <1>0, <1>1, <2>7, <2>9, <2>12, <3>1, <3>2
         DEF CoreEnds, CoreAudio!RealDevices, CoreAudio!Present
  <2> QED
    BY <1>0, <1>2, <2>9, <2>10, <2>11, <2>13 DEF CoreInv, CoreReads
<1> QED
  BY <1>3, <1>4

\* The listener blocks, and what the main thread makes of the devices.
LEMMA CoreListSteps ==
  ASSUME CoreInv,
         \/ CoreAudio!ReadDevices \/ CoreAudio!CompareSignature \/ CoreAudio!List \/ CoreAudio!Listed
  PROVE  CoreInv' /\ CoreMaps
<1> USE DEF CoreTypes
<1>0. CoreTypes /\ CoreStream /\ CoreEnds /\ CoreLists
  BY DEF CoreInv
<1>1. io' = io
  BY DEF CoreAudio!ReadDevices, CoreAudio!CompareSignature, CoreAudio!List, CoreAudio!Listed
<1>2. CoreMaps /\ IoTypes'
  BY <1>0, <1>1, CoreStutters
<1>3. CASE CoreAudio!ReadDevices
  <2>1. /\ coreAudio' = [coreAudio EXCEPT !.listener = "reading", !.seen = coreAudio.rates]
        /\ notices' = notices \ {<<"devices", NoUid>>}
    BY <1>3 DEF CoreAudio!ReadDevices
  <2>2. /\ coreAudio' \in CoreRecords /\ coreAudio'.rates = coreAudio.rates
        /\ coreAudio'.list = coreAudio.list /\ coreAudio'.signature = coreAudio.signature
        /\ coreAudio'.seen = coreAudio.rates /\ coreAudio'.listener = "reading"
        /\ coreAudio'.main = coreAudio.main /\ coreAudio'.heard = coreAudio.heard
        /\ coreAudio'.news = coreAudio.news /\ coreAudio'.todo = coreAudio.todo
    BY <1>0, <2>1 DEF CoreRecords
  <2>3. \A u : <<"alive", u>> \in notices' <=> <<"alive", u>> \in notices
    BY <2>1
  <2>4. \A u : <<"rate", u>> \in notices' <=> <<"rate", u>> \in notices
    BY <2>1
  <2>5. CoreEnds'
    BY <1>0, <1>1, <2>2, <2>3, <2>4
       DEF CoreEnds, CoreAudio!CoreEndIsSeen, CoreAudio!RealDevices, CoreAudio!Present
  <2>6. CoreLists'
    BY <1>0, <2>2 DEF CoreLists, CoreAudio!CoreListIsTrue
  <2>7. CoreReads'
    BY <1>0, <2>2 DEF CoreReads, CoreRecords
  <2> QED
    BY <1>0, <1>1, <1>2, <2>2, <2>5, <2>6, <2>7 DEF CoreInv, CoreStream
<1>4. CASE CoreAudio!CompareSignature
  <2>1. PICK n \in BOOLEAN :
          /\ coreAudio' = [coreAudio EXCEPT !.listener = "idle", !.signature = coreAudio.seen,
                                            !.seen = <<>>, !.news = n]
          /\ n <=> coreAudio.news \/ coreAudio.seen # coreAudio.signature
          /\ notices' = notices /\ coreAudio.listener = "reading"
    BY <1>0, <1>4 DEF CoreAudio!CompareSignature, CoreRecords
  <2>2. coreAudio.seen \in RateMaps
    BY <1>0, <2>1 DEF CoreReads
  <2>3. /\ coreAudio' \in CoreRecords /\ coreAudio'.rates = coreAudio.rates
        /\ coreAudio'.list = coreAudio.list /\ coreAudio'.signature = coreAudio.seen
        /\ coreAudio'.listener = "idle" /\ coreAudio'.news = n
        /\ coreAudio'.main = coreAudio.main /\ coreAudio'.heard = coreAudio.heard
        /\ coreAudio'.todo = coreAudio.todo
    BY <1>0, <2>1, <2>2 DEF CoreRecords
  <2>4. CoreLists'
    BY <1>0, <2>1, <2>3 DEF CoreLists, CoreAudio!CoreListIsTrue
  <2>5. CoreEnds'
    BY <1>0, <1>1, <2>1, <2>3
       DEF CoreEnds, CoreAudio!CoreEndIsSeen, CoreAudio!RealDevices, CoreAudio!Present
  <2> QED
    BY <1>0, <1>1, <1>2, <2>3, <2>4, <2>5 DEF CoreInv, CoreStream, CoreReads
<1>5. CASE CoreAudio!List
  <2>1. /\ coreAudio' = [coreAudio EXCEPT !.main = "listing", !.news = FALSE, !.list = coreAudio.rates]
        /\ notices' = notices /\ coreAudio.main = "idle"
    BY <1>5 DEF CoreAudio!List
  <2>2. /\ coreAudio' \in CoreRecords /\ coreAudio'.rates = coreAudio.rates
        /\ coreAudio'.list = coreAudio.rates /\ coreAudio'.signature = coreAudio.signature
        /\ coreAudio'.seen = coreAudio.seen /\ coreAudio'.listener = coreAudio.listener
        /\ coreAudio'.main = "listing" /\ coreAudio'.heard = coreAudio.heard
        /\ coreAudio'.todo = coreAudio.todo
    BY <1>0, <2>1 DEF CoreRecords, CoreMains
  <2>3. CoreLists'
    BY <1>0, <2>1, <2>2 DEF CoreLists, CoreAudio!CoreListIsTrue
  <2>4. CoreEnds'
    BY <1>0, <1>1, <2>1, <2>2
       DEF CoreEnds, CoreAudio!CoreEndIsSeen, CoreAudio!RealDevices, CoreAudio!Present
  <2> QED
    BY <1>0, <1>1, <1>2, <2>1, <2>2, <2>3, <2>4 DEF CoreInv, CoreStream, CoreReads
<1>6. CASE CoreAudio!Listed
  <2>1. /\ coreAudio' = [coreAudio EXCEPT !.main = "idle", !.signature = coreAudio.list,
                                          !.heard = DOMAIN coreAudio.list]
        /\ notices' = notices /\ coreAudio.main = "listing"
    BY <1>6 DEF CoreAudio!Listed, CoreAudio!NewSignature
  <2>2. coreAudio.list \in RateMaps /\ DOMAIN coreAudio.list \in SUBSET CoreAudio!Uids
    BY <1>0, RateMapIsOfUids DEF CoreRecords
  <2>3. /\ coreAudio' \in CoreRecords /\ coreAudio'.rates = coreAudio.rates
        /\ coreAudio'.list = coreAudio.list /\ coreAudio'.signature = coreAudio.list
        /\ coreAudio'.seen = coreAudio.seen /\ coreAudio'.listener = coreAudio.listener
        /\ coreAudio'.main = "idle" /\ coreAudio'.heard = DOMAIN coreAudio.list
        /\ coreAudio'.todo = coreAudio.todo /\ coreAudio'.news = coreAudio.news
    BY <1>0, <2>1, <2>2 DEF CoreRecords, CoreMains
  <2>4. CoreLists'
    BY <1>0, <2>1, <2>3 DEF CoreLists, CoreAudio!CoreListIsTrue
  <2>5. CoreEnds'
    BY <1>0, <1>1, <2>1, <2>3
       DEF CoreEnds, CoreAudio!CoreEndIsSeen, CoreAudio!RealDevices, CoreAudio!Present
  <2> QED
    BY <1>0, <1>1, <1>2, <2>1, <2>3, <2>4, <2>5 DEF CoreInv, CoreStream, CoreReads
<1> QED
  BY <1>3, <1>4, <1>5, <1>6

\* A stream's end, and the IOProc.
LEMMA CoreIoSteps ==
  ASSUME CoreInv, CoreAudio!StreamListener \/ CoreAudio!Render \/ CoreAudio!Rendered
  PROVE  CoreInv' /\ CoreMaps
<1> USE DEF CoreTypes
<1>0. CoreTypes /\ CoreStream /\ CoreEnds /\ CoreLists
  BY DEF CoreInv
<1>1. coreAudio' = coreAudio
  BY DEF CoreAudio!StreamListener, CoreAudio!Render, CoreAudio!Rendered
<1>2. CASE CoreAudio!StreamListener
  <2>1. PICK notice \in notices \ {<<"devices", NoUid>>} :
          /\ notices' = notices \ {notice}
          /\ io' = [io EXCEPT !.enabled = @ /\ ~ (\/ notice[1] = "alive"
                                                 \/ /\ notice[2] \in CoreAudio!Present
                                                    /\ coreAudio.rates[notice[2]] # io.rate)]
    BY <1>2 DEF CoreAudio!StreamListener
  <2> DEFINE ends == \/ notice[1] = "alive"
                     \/ /\ notice[2] \in CoreAudio!Present
                        /\ coreAudio.rates[notice[2]] # io.rate
  <2>2. PICK e \in BOOLEAN : io' = [io EXCEPT !.enabled = e] /\ (e <=> io.enabled /\ ~ ends)
    BY <1>0, <2>1 DEF IoTypes
  <2> HIDE DEF ends
  <2>3. IoTypes' /\ IoSame(io, io', {"enabled"}) /\ io'.enabled = e
    BY <1>0, <2>2 DEF IoTypes, IoSame
  <2>4. CoreStream'
    BY <1>0, <1>1, <2>2, <2>3 DEF CoreStream, IoSame
  <2>5. CoreMaps
    BY <1>0, <2>2, <2>3 DEF CoreStream, IoSame, IoTypes, CoreMaps, CoreAudio!CorePromise!backendVars,
       CoreAudio!CorePromise!BackendNext, CoreAudio!CorePromise!StreamStops
  <2>6. <<"devices", NoUid>> \in notices' <=> <<"devices", NoUid>> \in notices
    BY <2>1
  <2>7. CoreLists'
    BY <1>0, <1>1, <2>6 DEF CoreLists, CoreAudio!CoreListIsTrue
  <2>8. CoreAudio!CoreEndIsSeen'
    <3> SUFFICES ASSUME io.listens, io.enabled, ~ ends, NEW uid \in CoreAudio!RealDevices
                 PROVE  \/ uid \in CoreAudio!Present /\ coreAudio.rates[uid] = io.rate
                        \/ <<"alive", uid>> \in notices'
                        \/ uid \in CoreAudio!Present /\ <<"rate", uid>> \in notices'
      BY <1>1, <2>2, <2>3 DEF CoreAudio!CoreEndIsSeen, CoreAudio!RealDevices, CoreAudio!Present, IoSame
    <3>1. \/ uid \in CoreAudio!Present /\ coreAudio.rates[uid] = io.rate
          \/ <<"alive", uid>> \in notices
          \/ uid \in CoreAudio!Present /\ <<"rate", uid>> \in notices
      BY <1>0 DEF CoreEnds, CoreAudio!CoreEndIsSeen
    <3>2. CASE <<"alive", uid>> \in notices
      <4>1. notice # <<"alive", uid>>
        BY DEF ends
      <4> QED
        BY <2>1, <3>2, <4>1
    <3>3. CASE uid \in CoreAudio!Present /\ coreAudio.rates[uid] # io.rate /\ <<"rate", uid>> \in notices
      <4>1. notice # <<"rate", uid>>
        BY <3>3 DEF ends
      <4> QED
        BY <2>1, <3>3, <4>1
    <3> QED
      BY <3>1, <3>2, <3>3
  <2>9. CoreEnds'
    BY <1>0, <1>1, <2>3, <2>8 DEF CoreEnds, CoreAudio!RealDevices, CoreAudio!Present, IoSame
  <2> QED
    BY <1>0, <1>1, <2>3, <2>4, <2>5, <2>7, <2>9 DEF CoreInv, CoreReads
<1>3. CASE CoreAudio!Render \/ CoreAudio!Rendered
  <2>1. PICK r \in {"out", "calling"} :
          /\ io' = [io EXCEPT !.render = r]
          /\ r = "calling" => io.render = "out" /\ io.enabled /\ io.callback
    BY <1>3 DEF CoreAudio!Render, CoreAudio!Rendered
  <2>2. IoTypes' /\ IoSame(io, io', {"render"}) /\ io'.render = r
    BY <1>0, <2>1 DEF IoTypes, IoSame
  <2>3. notices' = notices
    BY <1>3 DEF CoreAudio!Render, CoreAudio!Rendered
  <2>4. CoreStream'
    BY <1>0, <1>1, <2>1, <2>2 DEF CoreStream, IoSame
  <2>5. CoreMaps
    BY <1>0, <2>1, <2>2 DEF CoreStream, IoSame, IoTypes, CoreMaps, CoreAudio!CorePromise!backendVars,
       CoreAudio!CorePromise!BackendNext, CoreAudio!CorePromise!CallBegins, CoreAudio!CorePromise!CallEnds
  <2>6. CoreEnds' /\ CoreLists'
    BY <1>0, <1>1, <2>2, <2>3 DEF CoreEnds, CoreLists, CoreAudio!CoreListIsTrue, CoreAudio!CoreEndIsSeen,
       CoreAudio!RealDevices, CoreAudio!Present, IoSame
  <2> QED
    BY <1>0, <1>1, <2>2, <2>4, <2>5, <2>6 DEF CoreInv, CoreReads
<1> QED
  BY <1>2, <1>3

\* A request names a device, of those there can be.
LEMMA CoreRequestsAre ==
  /\ NoUid \notin CoreAudio!Uids
  /\ \A request \in CoreRequests :
       /\ request.out \in CoreAudio!Uids \cup {NoUid} /\ request.in \in CoreAudio!Uids \cup {NoUid}
       /\ request.out # NoUid \/ request.in # NoUid
       /\ request.rate \in {0, 1, 2}
BY BackendsAssumption DEF BackendsAssumption, CoreAudio!Uids

\* closeAll(): nothing is left of the stream but a call that is being made.
LEMMA CoreClosedIs ==
  ASSUME IoTypes, io' = CoreAudio!Closed
  PROVE  /\ IoTypes' /\ io'.out = NoUid /\ io'.in = NoUid /\ io'.opened = FALSE
         /\ io'.aggregate = FALSE /\ io'.listens = FALSE /\ io'.enabled = FALSE
         /\ io'.callback = FALSE /\ io'.started = FALSE /\ io'.render = io.render
BY DEF IoTypes, CoreAudio!Closed, CoreAudio!NoStream

\* The main thread's other fields, when only it and what is to do change.
CoreMainTo(to, left) ==
  /\ coreAudio' \in CoreRecords /\ coreAudio'.main = to /\ coreAudio'.todo = left
  /\ coreAudio'.rates = coreAudio.rates /\ coreAudio'.list = coreAudio.list
  /\ coreAudio'.signature = coreAudio.signature /\ coreAudio'.seen = coreAudio.seen
  /\ coreAudio'.listener = coreAudio.listener /\ coreAudio'.heard = coreAudio.heard
  /\ coreAudio'.news = coreAudio.news

\* The lists stay what they are where the main thread lists nothing.
LEMMA CoreListsStay ==
  ASSUME CoreLists, CoreReads, NEW to \in CoreMains, NEW left, CoreMainTo(to, left),
         to # "listing", coreAudio.main # "listing",
         <<"devices", NoUid>> \in notices => <<"devices", NoUid>> \in notices'
  PROVE  CoreLists' /\ CoreReads'
BY DEF CoreLists, CoreReads, CoreMainTo, CoreAudio!CoreListIsTrue

\* open() that fails leaves nothing open.
LEMMA CoreGivesUp ==
  ASSUME CoreInv, CoreAudio!GiveUp, coreAudio.main = "setting"
  PROVE  CoreInv' /\ CoreMaps
<1> USE DEF CoreTypes
<1>0. CoreTypes /\ CoreStream /\ CoreEnds /\ CoreLists
  BY DEF CoreInv
<1>1. /\ coreAudio' = [coreAudio EXCEPT !.main = "idle", !.todo = {}] /\ io' = CoreAudio!Closed
      /\ notices' = notices
  BY DEF CoreAudio!GiveUp
<1>2. CoreMainTo("idle", {})
  BY <1>0, <1>1 DEF CoreRecords, CoreMains, CoreMainTo
<1>3. ~ io.opened /\ io.render # "calling"
  BY <1>0 DEF CoreStream
<1>4. /\ IoTypes' /\ io'.opened = FALSE /\ io'.aggregate = FALSE /\ io'.listens = FALSE
      /\ io'.enabled = FALSE /\ io'.callback = FALSE /\ io'.started = FALSE /\ io'.render = io.render
  BY <1>0, <1>1, CoreClosedIs
<1>5. CoreStream'
  BY <1>2, <1>3, <1>4 DEF CoreStream, CoreMainTo
<1>6. CoreMaps
  BY <1>3, <1>4 DEF CoreMaps, CoreAudio!CorePromise!backendVars
<1>7. CoreLists' /\ CoreReads'
  BY <1>0, <1>1, <1>2, CoreListsStay DEF CoreMains
<1>8. CoreEnds'
  BY <1>2, <1>4 DEF CoreEnds, CoreAudio!CoreEndIsSeen, CoreMainTo
<1> QED
  BY <1>2, <1>4, <1>5, <1>6, <1>7, <1>8 DEF CoreInv, CoreMainTo

\* The main thread's steps, but for the rates it sets.
LEMMA CoreMainSteps ==
  ASSUME CoreInv,
         \/ CoreAudio!Stop \/ CoreAudio!Stopped \/ CoreAudio!OpenBegins \/ CoreAudio!Build
         \/ CoreAudio!Start \/ CoreAudio!WatchRunningStream
  PROVE  CoreInv' /\ CoreMaps
<1> USE DEF CoreTypes
<1>0. CoreTypes /\ CoreStream /\ CoreEnds /\ CoreLists
  BY DEF CoreInv
<1>1. CASE CoreAudio!Stop
  <2>1. /\ coreAudio' = [coreAudio EXCEPT !.main = "stopping"]
        /\ io' = [io EXCEPT !.enabled = FALSE, !.listens = FALSE]
        /\ notices' = notices \cap {<<"devices", NoUid>>}
        /\ coreAudio.main = "idle" /\ io.opened
    BY <1>1 DEF CoreAudio!Stop, CoreAudio!Unlistened
  <2>2. CoreMainTo("stopping", coreAudio.todo)
    BY <1>0, <2>1 DEF CoreRecords, CoreMains, CoreMainTo
  <2>3. /\ IoTypes' /\ IoSame(io, io', {"enabled", "listens"})
        /\ io'.enabled = FALSE /\ io'.listens = FALSE
    BY <1>0, <2>1, ZenonT(60) DEF IoTypes, IoSame
  <2>4. CoreStream'
    BY <1>0, <2>1, <2>2, <2>3 DEF CoreStream, IoSame, CoreMainTo
  <2>5. CoreMaps
    BY <1>0, <2>1, <2>3 DEF CoreStream, IoSame, IoTypes, CoreMaps, CoreAudio!CorePromise!backendVars,
       CoreAudio!CorePromise!BackendNext, CoreAudio!CorePromise!StreamStops
  <2>6. CoreLists' /\ CoreReads'
    BY <1>0, <2>1, <2>2, CoreListsStay DEF CoreMains
  <2>7. CoreEnds'
    BY <1>0, <2>1, <2>2, <2>3 DEF CoreEnds, CoreAudio!CoreEndIsSeen, CoreAudio!RealDevices,
       CoreAudio!Present, IoSame, CoreMainTo
  <2> QED
    BY <2>2, <2>3, <2>4, <2>5, <2>6, <2>7 DEF CoreInv, CoreMainTo
<1>2. CASE CoreAudio!Stopped
  <2>1. /\ coreAudio' = [coreAudio EXCEPT !.main = "idle"] /\ io' = CoreAudio!Closed
        /\ notices' = notices /\ coreAudio.main = "stopping" /\ io.render = "out"
    BY <1>2 DEF CoreAudio!Stopped, CoreAudio!IOProcIsOut
  <2>2. CoreMainTo("idle", coreAudio.todo)
    BY <1>0, <2>1 DEF CoreRecords, CoreMains, CoreMainTo
  <2>3. /\ IoTypes' /\ io'.opened = FALSE /\ io'.aggregate = FALSE /\ io'.listens = FALSE
        /\ io'.enabled = FALSE /\ io'.callback = FALSE /\ io'.started = FALSE /\ io'.render = "out"
    BY <1>0, <2>1, CoreClosedIs
  <2>4. CoreStream'
    BY <2>2, <2>3 DEF CoreStream, CoreMainTo
  <2>5. CoreMaps
    BY <1>0, <2>1, <2>3 DEF CoreStream, CoreMaps, CoreAudio!CorePromise!BackendNext,
       CoreAudio!CorePromise!StopStream
  <2>6. CoreLists' /\ CoreReads'
    BY <1>0, <2>1, <2>2, CoreListsStay DEF CoreMains
  <2>7. CoreEnds'
    BY <2>2, <2>3 DEF CoreEnds, CoreAudio!CoreEndIsSeen, CoreMainTo
  <2> QED
    BY <2>2, <2>3, <2>4, <2>5, <2>6, <2>7 DEF CoreInv, CoreMainTo
<1>3. CASE CoreAudio!OpenBegins
  <2>1. PICK request \in CoreRequests :
          /\ {request.out, request.in} \ {NoUid} \subseteq CoreAudio!Present
          /\ io' = [io EXCEPT !.out = request.out, !.in = request.in, !.rate = request.rate]
          /\ coreAudio' = [coreAudio EXCEPT !.main = "setting",
                                            !.todo = {request.out, request.in} \ {NoUid}]
    BY <1>3 DEF CoreAudio!OpenBegins
  <2>2. notices' = notices /\ coreAudio.main = "idle" /\ ~ io.opened
    BY <1>3 DEF CoreAudio!OpenBegins
  <2> DEFINE asked == {request.out, request.in} \ {NoUid}
  <2>3. asked \subseteq CoreAudio!Uids /\ asked # {}
    BY <2>1, CoreRequestsAre
  <2>4. /\ IoTypes' /\ io'.out = request.out /\ io'.in = request.in
        /\ io'.opened = io.opened /\ io'.aggregate = io.aggregate /\ io'.listens = io.listens
        /\ io'.enabled = io.enabled /\ io'.callback = io.callback /\ io'.started = io.started
        /\ io'.render = io.render
    BY <1>0, <2>1, CoreRequestsAre DEF IoTypes
  <2>5. CoreAudio!RealDevices' = asked
    BY <2>4 DEF CoreAudio!RealDevices
  <2> HIDE DEF asked
  <2>6. CoreMainTo("setting", asked)
    <3>1. coreAudio' = [coreAudio EXCEPT !.main = "setting", !.todo = asked]
      BY <2>1 DEF asked
    <3> QED
      BY <1>0, <2>3, <3>1 DEF CoreRecords, CoreMains, CoreMainTo
  <2>7. CoreStream'
    BY <1>0, <2>2, <2>4, <2>6 DEF CoreStream, CoreMainTo
  <2>8. CoreMaps
    BY <2>4 DEF CoreMaps, CoreAudio!CorePromise!backendVars
  <2>9. CoreLists' /\ CoreReads'
    BY <1>0, <2>2, <2>6, CoreListsStay DEF CoreMains
  <2>10. CoreEnds'
    <3>1. asked \subseteq CoreAudio!Present /\ CoreAudio!Present' = CoreAudio!Present
      BY <2>1, <2>6 DEF asked, CoreMainTo, CoreAudio!Present
    <3>2. ~ io'.listens /\ ~ io'.opened
      BY <1>0, <2>2, <2>4 DEF CoreStream
    <3> QED
      BY <2>3, <2>5, <2>6, <3>1, <3>2 DEF CoreEnds, CoreAudio!CoreEndIsSeen, CoreMainTo
  <2> QED
    BY <2>4, <2>6, <2>7, <2>8, <2>9, <2>10 DEF CoreInv, CoreMainTo
<1>4. CASE CoreAudio!Build /\ ~ CoreAudio!GiveUp
  <2> DEFINE uid == IF io.out # NoUid THEN io.out ELSE io.in
             rate == coreAudio.rates[uid]
  <2>1. PICK a \in BOOLEAN, inMap \in {CoreAudio!MapChannels(io.in, "ins", CoreAudio!InputOffset)},
             outMap \in {CoreAudio!MapChannels(io.out, "outs", 0)} :
          /\ io' = [io EXCEPT !.aggregate = a, !.opened = TRUE, !.rate = rate,
                              !.inMap = inMap, !.outMap = outMap]
          /\ coreAudio' = [coreAudio EXCEPT !.main = "idle"]
          /\ notices \subseteq notices'
          /\ coreAudio.main = "setting" /\ coreAudio.todo = {}
    <3>1. CoreAudio!TwoDevices \in BOOLEAN
      BY DEF CoreAudio!TwoDevices
    <3> QED
      BY <1>4, <3>1 DEF CoreAudio!Build
  <2>2. uid \in CoreAudio!RealDevices
    BY <1>0, <2>1 DEF CoreEnds, CoreAudio!RealDevices
  <2>3. rate \in {1, 2} /\ rate = io.rate
    <3>1. uid \in CoreAudio!Present /\ coreAudio.rates[uid] = io.rate
      BY <1>0, <2>1, <2>2 DEF CoreEnds
    <3>2. coreAudio.rates \in RateMaps
      BY <1>0 DEF CoreRecords
    <3> HIDE DEF uid
    <3> QED
      BY <3>1, <3>2, RateMapIsOfUids DEF CoreAudio!Present
  <2> HIDE DEF uid, rate
  <2>4. CoreMainTo("idle", coreAudio.todo)
    BY <1>0, <2>1 DEF CoreRecords, CoreMains, CoreMainTo
  <2>5. /\ IoTypes' /\ io'.out = io.out /\ io'.in = io.in /\ io'.rate = io.rate
        /\ io'.opened = TRUE /\ io'.listens = io.listens
        /\ io'.enabled = io.enabled /\ io'.callback = io.callback /\ io'.started = io.started
        /\ io'.render = io.render
    <3>1. io' = [out |-> io.out, in |-> io.in, rate |-> rate, aggregate |-> a, opened |-> TRUE,
                 inMap |-> inMap, outMap |-> outMap, listens |-> io.listens, enabled |-> io.enabled,
                 callback |-> io.callback, started |-> io.started, render |-> io.render]
      BY <1>0, <2>1 DEF IoTypes
    <3> QED
      BY <1>0, <2>3, <3>1 DEF IoTypes
  <2>6. ~ io.opened /\ ~ io.callback /\ io.render # "calling" /\ ~ io.listens
    BY <1>0, <2>1 DEF CoreStream
  <2>7. CoreStream'
    BY <1>0, <2>4, <2>5, <2>6 DEF CoreStream, CoreMainTo
  <2>8. CoreMaps
    BY <2>5, <2>6 DEF CoreMaps, CoreAudio!CorePromise!BackendNext, CoreAudio!CorePromise!OpenStream
  <2>9. CoreLists' /\ CoreReads'
    BY <1>0, <2>1, <2>4, CoreListsStay DEF CoreMains
  <2>10. CoreEnds'
    BY <1>0, <2>1, <2>4, <2>5, <2>6 DEF CoreEnds, CoreAudio!CoreEndIsSeen, CoreAudio!RealDevices,
       CoreAudio!Present, CoreMainTo
  <2> QED
    BY <2>4, <2>5, <2>7, <2>8, <2>9, <2>10 DEF CoreInv, CoreMainTo
<1>5. CASE CoreAudio!Build /\ CoreAudio!GiveUp
  BY <1>5, CoreGivesUp DEF CoreAudio!Build
<1>6. CASE CoreAudio!Start
  <2>1. /\ io' = [io EXCEPT !.callback = TRUE, !.enabled = TRUE,
                            !.started = CoreAudio!RealDevices \subseteq CoreAudio!Present]
        /\ coreAudio' = [coreAudio EXCEPT !.main = IF io'.started THEN "starting" ELSE "stopping"]
        /\ notices' = notices /\ coreAudio.main = "idle" /\ io.opened /\ ~ io.callback
    BY <1>6 DEF CoreAudio!Start
  <2>2. /\ ~ io.listens /\ CoreAudio!RealDevices \subseteq CoreAudio!Present
        /\ io.render # "calling"
    BY <1>0, <2>1 DEF CoreStream, CoreEnds
  <2>3. io' = [io EXCEPT !.callback = TRUE, !.enabled = TRUE, !.started = TRUE]
    BY <2>1, <2>2
  <2>4. /\ IoTypes' /\ io'.out = io.out /\ io'.in = io.in /\ io'.rate = io.rate
        /\ io'.opened = io.opened /\ io'.listens = io.listens
        /\ io'.enabled = TRUE /\ io'.callback = TRUE /\ io'.started = TRUE /\ io'.render = io.render
    <3>1. io' = [out |-> io.out, in |-> io.in, rate |-> io.rate, aggregate |-> io.aggregate,
                 opened |-> io.opened, inMap |-> io.inMap, outMap |-> io.outMap, listens |-> io.listens,
                 enabled |-> TRUE, callback |-> TRUE, started |-> TRUE, render |-> io.render]
      BY <1>0, <2>3 DEF IoTypes
    <3> QED
      BY <1>0, <3>1 DEF IoTypes
  <2>5. CoreMainTo("starting", coreAudio.todo)
    <3>1. coreAudio' = [coreAudio EXCEPT !.main = "starting"]
      BY <2>1, <2>4
    <3> QED
      BY <1>0, <3>1 DEF CoreRecords, CoreMains, CoreMainTo
  <2>6. CoreStream'
    BY <1>0, <2>1, <2>2, <2>4, <2>5 DEF CoreStream, CoreMainTo
  <2>7. CoreMaps
    BY <2>1, <2>4 DEF CoreMaps, CoreAudio!CorePromise!BackendNext, CoreAudio!CorePromise!StartStream
  <2>8. CoreLists' /\ CoreReads'
    BY <1>0, <2>1, <2>5, CoreListsStay DEF CoreMains
  <2>9. CoreEnds'
    BY <1>0, <2>1, <2>2, <2>4, <2>5 DEF CoreEnds, CoreAudio!CoreEndIsSeen, CoreAudio!RealDevices,
       CoreAudio!Present, CoreMainTo
  <2> QED
    BY <2>4, <2>5, <2>6, <2>7, <2>8, <2>9 DEF CoreInv, CoreMainTo
<1>7. CASE CoreAudio!WatchRunningStream
  <2>1. /\ io' = [io EXCEPT !.listens = TRUE] /\ coreAudio' = [coreAudio EXCEPT !.main = "idle"]
        /\ notices' = notices /\ coreAudio.main = "starting"
    BY <1>7 DEF CoreAudio!WatchRunningStream
  <2>2. IoTypes' /\ IoSame(io, io', {"listens"}) /\ io'.listens = TRUE
    BY <1>0, <2>1 DEF IoTypes, IoSame
  <2>3. CoreMainTo("idle", coreAudio.todo)
    BY <1>0, <2>1 DEF CoreRecords, CoreMains, CoreMainTo
  <2>4. CoreStream'
    BY <1>0, <2>1, <2>2, <2>3 DEF CoreStream, CoreMainTo, IoSame
  <2>5. CoreMaps
    BY <2>2 DEF CoreMaps, CoreAudio!CorePromise!backendVars, IoSame
  <2>6. CoreLists' /\ CoreReads'
    BY <1>0, <2>1, <2>3, CoreListsStay DEF CoreMains
  <2>7. CoreEnds'
    BY <1>0, <2>1, <2>2, <2>3 DEF CoreStream, CoreEnds, CoreAudio!CoreEndIsSeen,
       CoreAudio!RealDevices, CoreAudio!Present, CoreMainTo, IoSame
  <2> QED
    BY <2>2, <2>3, <2>4, <2>5, <2>6, <2>7 DEF CoreInv, CoreMainTo
<1> QED
  BY <1>1, <1>2, <1>3, <1>4, <1>5, <1>6, <1>7

\* setRate() on one of the stream's devices.
LEMMA CoreSetsRate == CoreInv /\ CoreAudio!SetRate => CoreInv' /\ CoreMaps
<1> SUFFICES ASSUME CoreInv, CoreAudio!SetRate PROVE CoreInv' /\ CoreMaps
  OBVIOUS
<1> USE DEF CoreTypes
<1>0. CoreTypes /\ CoreStream /\ CoreEnds /\ CoreLists
  BY DEF CoreInv
<1> DEFINE uid == IF io.out \in coreAudio.todo THEN io.out ELSE io.in
           left == coreAudio.todo \ {uid}
<1>1. coreAudio.main = "setting" /\ coreAudio.todo # {}
  BY DEF CoreAudio!SetRate
<1>2. /\ uid \in CoreAudio!RealDevices /\ uid \in CoreAudio!Present
      /\ left \in SUBSET CoreAudio!Uids
  BY <1>0, <1>1 DEF CoreEnds, CoreAudio!RealDevices, CoreRecords
<1>3. coreAudio.rates \in RateMaps /\ uid \in CoreAudio!Uids
  BY <1>0, <1>2, RateMapIsOfUids DEF CoreRecords, CoreAudio!Present
<1>4. \A u \in CoreAudio!Present : coreAudio.rates[u] \in {1, 2}
  BY <1>3, RateMapIsOfUids DEF CoreAudio!Present
<1>5. ~ io.opened /\ ~ io.listens
  BY <1>0, <1>1 DEF CoreStream
<1>6. \/ /\ io.rate \in {0, coreAudio.rates[uid]} \/ ~ CoreAudio!TwoDevices
         /\ io' = [io EXCEPT !.rate = coreAudio.rates[uid]]
         /\ coreAudio' = [coreAudio EXCEPT !.todo = left]
         /\ notices' = notices
      \/ /\ io.rate \notin {0, coreAudio.rates[uid]}
         /\ coreAudio' = [[coreAudio EXCEPT !.todo = left] EXCEPT !.rates[uid] = io.rate]
         /\ notices' = notices \cup IF uid \in coreAudio.heard THEN {<<"devices", NoUid>>} ELSE {}
         /\ io' = io
      \/ CoreAudio!GiveUp
  BY <1>0 DEF CoreAudio!SetRate, CoreRecords
<1> HIDE DEF uid
<1>7. \A u \in CoreAudio!RealDevices \ left :
        u = uid \/ (u \in CoreAudio!Present /\ coreAudio.rates[u] = io.rate)
  BY <1>0, <1>1 DEF CoreEnds
<1> HIDE DEF left
<1>8. CASE /\ io.rate \in {0, coreAudio.rates[uid]} \/ ~ CoreAudio!TwoDevices
           /\ io' = [io EXCEPT !.rate = coreAudio.rates[uid]]
           /\ coreAudio' = [coreAudio EXCEPT !.todo = left]
           /\ notices' = notices
  <2> DEFINE r == coreAudio.rates[uid]
  <2>1. r \in {1, 2}
    BY <1>2, <1>4
  <2>2. \A u \in CoreAudio!RealDevices \ left : coreAudio.rates[u] = r
    <3> TAKE u \in CoreAudio!RealDevices \ left
    <3>1. CASE u = uid
      BY <3>1
    <3>2. CASE u # uid
      <4>1. CoreAudio!TwoDevices
        BY <1>2, <3>2 DEF CoreAudio!TwoDevices, CoreAudio!RealDevices
      <4>2. coreAudio.rates[u] = io.rate /\ io.rate \in {1, 2}
        BY <1>4, <1>7, <3>2
      <4> QED
        BY <1>8, <4>1, <4>2
    <3> QED
      BY <3>1, <3>2
  <2>3. io' = [io EXCEPT !.rate = r]
    BY <1>8
  <2> HIDE DEF r
  <2>4. /\ IoTypes' /\ io'.out = io.out /\ io'.in = io.in /\ io'.rate = r
        /\ io'.opened = io.opened /\ io'.aggregate = io.aggregate /\ io'.listens = io.listens
        /\ io'.enabled = io.enabled /\ io'.callback = io.callback /\ io'.started = io.started
        /\ io'.render = io.render
    BY <1>0, <2>1, <2>3 DEF IoTypes
  <2>5. CoreMainTo("setting", left)
    BY <1>0, <1>1, <1>2, <1>8 DEF CoreRecords, CoreMains, CoreMainTo
  <2>6. CoreStream'
    BY <1>0, <1>1, <2>4, <2>5 DEF CoreStream, CoreMainTo
  <2>7. CoreMaps
    BY <2>4 DEF CoreMaps, CoreAudio!CorePromise!backendVars
  <2>8. CoreLists' /\ CoreReads'
    BY <1>0, <1>1, <1>8, <2>5, CoreListsStay DEF CoreMains
  <2>9. CoreEnds'
    <3>1. CoreAudio!RealDevices' = CoreAudio!RealDevices /\ CoreAudio!Present' = CoreAudio!Present
      BY <2>4, <2>5 DEF CoreAudio!RealDevices, CoreAudio!Present, CoreMainTo
    <3>2. left \subseteq CoreAudio!RealDevices /\ CoreAudio!RealDevices \subseteq CoreAudio!Present
          /\ CoreAudio!RealDevices # {}
      BY <1>0, <1>1 DEF CoreEnds, left
    <3> QED
      BY <1>5, <2>2, <2>4, <2>5, <3>1, <3>2 DEF CoreEnds, CoreAudio!CoreEndIsSeen, CoreMainTo
  <2> QED
    BY <2>4, <2>5, <2>6, <2>7, <2>8, <2>9 DEF CoreInv, CoreMainTo
<1>9. CASE /\ io.rate \notin {0, coreAudio.rates[uid]}
           /\ coreAudio' = [[coreAudio EXCEPT !.todo = left] EXCEPT !.rates[uid] = io.rate]
           /\ notices' = notices \cup IF uid \in coreAudio.heard THEN {<<"devices", NoUid>>} ELSE {}
           /\ io' = io
  <2> DEFINE rates == [coreAudio.rates EXCEPT ![uid] = io.rate]
  <2>1. io.rate \in {1, 2}
    BY <1>0, <1>9 DEF IoTypes
  <2>2. /\ rates \in RateMaps /\ DOMAIN rates = CoreAudio!Present /\ rates[uid] = io.rate
        /\ \A u \in CoreAudio!Present : u # uid => rates[u] = coreAudio.rates[u]
    BY <1>2, <1>3, <2>1, RateMapsChange DEF CoreAudio!Present
  <2> HIDE DEF rates
  <2>3. coreAudio' = [coreAudio EXCEPT !.todo = left, !.rates = rates]
    BY <1>0, <1>9 DEF rates, CoreRecords
  <2>4. /\ coreAudio' \in CoreRecords /\ coreAudio'.rates = rates
        /\ coreAudio'.list = coreAudio.list /\ coreAudio'.signature = coreAudio.signature
        /\ coreAudio'.seen = coreAudio.seen /\ coreAudio'.listener = coreAudio.listener
        /\ coreAudio'.main = coreAudio.main /\ coreAudio'.heard = coreAudio.heard
        /\ coreAudio'.news = coreAudio.news /\ coreAudio'.todo = left
    BY <1>0, <1>2, <2>2, <2>3 DEF CoreRecords
  <2>5. CoreMaps /\ IoTypes'
    BY <1>0, <1>9, CoreStutters
  <2>6. CoreStream'
    BY <1>0, <1>9, <2>4 DEF CoreStream
  <2>7. CoreLists'
    <3>1. notices \subseteq notices' /\ (uid \in coreAudio.heard => <<"devices", NoUid>> \in notices')
      BY <1>9
    <3>2. coreAudio'.rates = [coreAudio.rates EXCEPT ![uid] = io.rate]
      BY <2>4 DEF rates
    <3> QED
      BY <1>0, <1>1, <1>2, <2>1, <2>4, <3>1, <3>2, CoreListsSwitch
  <2>8. CoreEnds'
    <3>1. CoreAudio!RealDevices' = CoreAudio!RealDevices /\ CoreAudio!Present' = CoreAudio!Present
      BY <1>9, <2>2, <2>4 DEF CoreAudio!RealDevices, CoreAudio!Present
    <3>2. left \subseteq CoreAudio!RealDevices /\ CoreAudio!RealDevices \subseteq CoreAudio!Present
          /\ CoreAudio!RealDevices # {}
      BY <1>0, <1>1 DEF CoreEnds, left
    <3>3. \A u \in CoreAudio!RealDevices \ left : rates[u] = io.rate
      BY <1>7, <2>2
    <3> QED
      BY <1>5, <1>9, <2>4, <3>1, <3>2, <3>3 DEF CoreEnds, CoreAudio!CoreEndIsSeen
  <2> QED
    BY <1>0, <2>4, <2>5, <2>6, <2>7, <2>8 DEF CoreInv, CoreReads
<1> QED
  BY <1>1, <1>6, <1>8, <1>9, CoreGivesUp

\* The step of CoreAudio's invariant, each an AudioBackend step or a stutter.
LEMMA CoreStep == CoreInv /\ [CoreAudio!CoreNext]_CoreAudio!coreVars => CoreInv' /\ CoreMaps
<1> SUFFICES ASSUME CoreInv, [CoreAudio!CoreNext]_CoreAudio!coreVars PROVE CoreInv' /\ CoreMaps
  OBVIOUS
<1>1. CASE UNCHANGED CoreAudio!coreVars
  <2>1. coreAudio' = coreAudio /\ notices' = notices /\ io' = io
    BY <1>1 DEF CoreAudio!coreVars
  <2>2. CoreMaps /\ (IoTypes => IoTypes')
    BY <2>1, CoreStutters
  <2> QED
    BY <2>1, <2>2 DEF CoreInv, CoreTypes, CoreReads, CoreStream, CoreEnds, CoreLists, CoreAudio!CoreEndIsSeen,
       CoreAudio!CoreListIsTrue, CoreAudio!RealDevices, CoreAudio!Present
<1>2. CASE CoreAudio!CoreNext
  BY <1>2, CoreDeviceSteps, CoreListSteps, CoreIoSteps, CoreMainSteps, CoreSetsRate
     DEF CoreAudio!CoreNext
<1> QED
  BY <1>1, <1>2
-----------------------------------------------------------------------------
(* The standalone: one of its components at a time. *)

\* A step of the whole is a step of each component, or leaves that component alone.
LEMMA HostStep ==
  ASSUME [Next]_partsVars
  PROVE  /\ [ScreenNext]_screenVars
         /\ [CallbackNext]_callbackVars
         /\ [SettingsNext]_settingsVars
<1>1. CASE UNCHANGED partsVars
  BY <1>1 DEF partsVars
<1>2. CASE Next
  BY <1>2 DEF Next
<1> QED
  BY <1>1, <1>2

\* A step is a step of every audio backend, or leaves it.
LEMMA PartsStep ==
  ASSUME [Next]_partsVars
  PROVE  /\ [Jack!JackNext]_jack
         /\ [Wasapi!WasapiNext]_Wasapi!wasapiVars
         /\ [CoreAudio!CoreNext]_CoreAudio!coreVars
         /\ [RtAudio!RtNext]_rt
         /\ [PipeNext]_pipeVars
<1>1. CASE UNCHANGED partsVars
  BY <1>1 DEF partsVars, byDriverVars, Wasapi!wasapiVars, CoreAudio!coreVars
<1>2. CASE Next
  <2>1. \/ part # "jack" /\ UNCHANGED jack
        \/ part = "jack" /\ Jack!JackNext
    BY <1>2 DEF Next
  <2>2. \/ part # "wasapi" /\ UNCHANGED <<wasapi, ringBuffer>>
        \/ part = "wasapi" /\ Wasapi!WasapiNext
    BY <1>2 DEF Next
  <2>3. \/ part # "coreaudio" /\ UNCHANGED <<coreAudio, notices, io>>
        \/ part = "coreaudio" /\ CoreAudio!CoreNext
    BY <1>2 DEF Next
  <2>4. \/ part # "rtaudio" /\ UNCHANGED rt
        \/ part = "rtaudio" /\ RtAudio!RtNext
    BY <1>2 DEF Next
  <2>5. \/ part # "pipewire" /\ UNCHANGED pipeVars
        \/ part = "pipewire" /\ PipeNext
    BY <1>2 DEF Next
  <2> QED
    BY <2>1, <2>2, <2>3, <2>4, <2>5 DEF Wasapi!wasapiVars, CoreAudio!coreVars
<1> QED
  BY <1>1, <1>2

\* The backends begin with no stream.
LEMMA BackendsBegin ==
  ASSUME Init
  PROVE  /\ JackInv /\ Jack!JackPromise!BackendInit
         /\ WasapiInv /\ Wasapi!WasapiPromise!BackendInit
         /\ CoreInv /\ CoreAudio!CorePromise!BackendInit
         /\ RtInv /\ RtAudio!RtPromise!BackendInit
         /\ PipeInv /\ Promise!BackendInit
<1>1. Jack!JackInit /\ Wasapi!WasapiInit /\ CoreAudio!CoreInit /\ RtAudio!RtInit /\ PipeInit
  BY DEF Init
<1>2. JackInv /\ Jack!JackPromise!BackendInit
  <2>1. PICK there \in BOOLEAN :
          jack = [up |-> there, rate |-> 1, device |-> there, dead |-> FALSE, graphChanged |-> FALSE,
                  client |-> FALSE, deadReported |-> FALSE, found |-> TRUE, signature |-> FALSE,
                  lastRate |-> 1, streamRate |-> 1, streamOpen |-> FALSE, stopped |-> FALSE,
                  main |-> "idle", list |-> FALSE, news |-> TRUE,
                  current |-> FALSE, active |-> FALSE, callback |-> FALSE,
                  audio |-> "out", reports |-> {}, past |-> FALSE]
    BY <1>1 DEF Jack!JackInit
  <2> QED
    BY <2>1 DEF JackInv, JackRecords, JackMains, JackAudios, JackStream, Jack!JackPromise!BackendInit
<1>3. WasapiInv /\ Wasapi!WasapiPromise!BackendInit
  <2>1. ringBuffer = Wasapi!EmptyRing
    BY <1>1 DEF Wasapi!WasapiInit
  <2>2. wasapi = [present |-> {"in", "out"}, list |-> {}, news |-> TRUE, notifier |-> "out",
                  attached |-> TRUE, main |-> "idle", opened |-> FALSE, uses |-> {}, running |-> FALSE,
                  stopEvent |-> FALSE, thread |-> "none", room |-> 0,
                  captured |-> 0, unread |-> 0, heard |-> 0, block |-> <<>>]
    BY <1>1 DEF Wasapi!WasapiInit, Wasapi!Endpoints
  <2>3. "idle" \in WasapiMains /\ "none" \in WasapiThreads /\ <<>> \in Seq(Nat) /\ 0 \in Nat
    BY DEF WasapiMains, WasapiThreads
  <2>4. wasapi \in WasapiRecords
    BY <2>2, <2>3 DEF WasapiRecords
  <2>5. /\ wasapi.thread = "none" /\ wasapi.captured = 0 /\ wasapi.unread = 0 /\ wasapi.heard = 0
        /\ wasapi.block = <<>> /\ wasapi.opened = FALSE /\ wasapi.running = FALSE
        /\ wasapi.main = "idle" /\ wasapi.attached = TRUE /\ wasapi.news = TRUE
    BY <2>2
  <2>6. WasapiFrames(wasapi, ringBuffer)
    BY <2>1, <2>5, EmptyRingIs, FramesBegin
  <2> QED
    BY <2>4, <2>5, <2>6 DEF WasapiInv, WasapiTypes, WasapiStream, Wasapi!WasapiPromise!BackendInit
<1>4. CoreInv /\ CoreAudio!CorePromise!BackendInit
  <2> DEFINE ones == [u \in CoreAudio!Uids |-> 1]
  <2>1. ones \in RateMaps /\ DOMAIN ones = CoreAudio!Uids
    <3>1. ones \in [CoreAudio!Uids -> {1, 2}]
      OBVIOUS
    <3> QED
      BY <3>1 DEF RateMaps
  <2>2. /\ coreAudio = [rates |-> ones, list |-> ones, signature |-> ones, seen |-> <<>>,
                        listener |-> "idle", main |-> "idle", heard |-> CoreAudio!Uids,
                        news |-> FALSE, todo |-> {}]
        /\ notices = {} /\ io = CoreAudio!NoStream
    BY <1>1 DEF CoreAudio!CoreInit
  <2> HIDE DEF ones
  <2>3. coreAudio \in CoreRecords
    BY <2>1, <2>2 DEF CoreRecords, CoreMains
  <2>4. IoTypes
    BY <2>2 DEF IoTypes, CoreAudio!NoStream
  <2>5. CoreStream /\ CoreAudio!CorePromise!BackendInit
    BY <2>2 DEF CoreStream, CoreAudio!NoStream, CoreAudio!CorePromise!BackendInit
  <2>6. CoreEnds
    BY <2>2 DEF CoreEnds, CoreAudio!NoStream, CoreAudio!CoreEndIsSeen
  <2>7. CoreLists /\ CoreReads
    BY <2>1, <2>2 DEF CoreLists, CoreReads, CoreAudio!CoreListIsTrue
  <2> QED
    BY <2>3, <2>4, <2>5, <2>6, <2>7 DEF CoreInv, CoreTypes
<1>5. RtInv /\ RtAudio!RtPromise!BackendInit
  BY <1>1 DEF RtAudio!RtInit, RtInv, RtRecords, RtAudio!RtPromise!BackendInit
<1>6. PipeInv /\ Promise!BackendInit
  BY <1>1 DEF PipeInit, PipeInv, PipeTypeOK, Promise!BackendInit
<1> QED
  BY <1>2, <1>3, <1>4, <1>5, <1>6

\* What the backends that a stream or a device can leave know of it.
BackendsHear == JackHears /\ WasapiInv /\ CoreInv /\ RtInv

\* They know at first.
LEMMA BackendsHearAtFirst ==
  ASSUME Init
  PROVE  BackendsHear
<1>1. JackInv /\ WasapiInv /\ CoreInv /\ RtInv
  BY BackendsBegin
<1>2. PICK there \in BOOLEAN :
        jack = [up |-> there, rate |-> 1, device |-> there, dead |-> FALSE, graphChanged |-> FALSE,
                client |-> FALSE, deadReported |-> FALSE, found |-> TRUE, signature |-> FALSE,
                lastRate |-> 1, streamRate |-> 1, streamOpen |-> FALSE, stopped |-> FALSE,
                main |-> "idle", list |-> FALSE, news |-> TRUE,
                current |-> FALSE, active |-> FALSE, callback |-> FALSE,
                audio |-> "out", reports |-> {}, past |-> FALSE]
  BY DEF Init, Jack!JackInit
<1>3. JackSees(jack)
  BY <1>2 DEF JackSees, JackToList
<1> QED
  BY <1>1, <1>3 DEF BackendsHear, JackHears

\* A stream's end is reported, as that stream's; the devices listed are the ones there, or are
\* about to be listed again; and the frames a plugin is given are in the order of their capture.
THEOREM BackendsAlwaysSayHowItIs == Spec => []BackendsSayHowItIs
<1>1. Init => BackendsHear
  BY BackendsHearAtFirst
<1>2. BackendsHear /\ [Next]_partsVars => BackendsHear'
  <2> SUFFICES ASSUME BackendsHear, [Next]_partsVars PROVE BackendsHear'
    OBVIOUS
  <2>1. JackHears'
    BY PartsStep, JackHearsStep DEF BackendsHear
  <2>2. WasapiInv'
    BY PartsStep, WasapiStep DEF BackendsHear
  <2>3. CoreInv'
    BY PartsStep, CoreStep DEF BackendsHear
  <2>4. RtInv'
    BY PartsStep, RtStep DEF BackendsHear
  <2> QED
    BY <2>1, <2>2, <2>3, <2>4 DEF BackendsHear
<1>3. BackendsHear => BackendsSayHowItIs
  <2> SUFFICES ASSUME BackendsHear PROVE BackendsSayHowItIs
    OBVIOUS
  <2>1. Jack!JackEndIsSeen /\ Jack!JackListIsTrue
    BY JackSaysHowItIs DEF BackendsHear
  <2>2. Wasapi!WasapiInputInOrder
    <3> SUFFICES ASSUME wasapi.thread = "calling", wasapi.block # <<>>
                 PROVE  /\ wasapi.block[1] > wasapi.heard
                        /\ \A i \in 1 .. BlockSize - 1 : wasapi.block[i] < wasapi.block[i + 1]
                        /\ Wasapi!GivesOutput => ringBuffer.fill <= Wasapi!High
      BY DEF Wasapi!WasapiInputInOrder
    <3>1. WasapiTypes /\ WasapiFrames(wasapi, ringBuffer)
      BY DEF BackendsHear, WasapiInv
    <3>2. /\ Len(wasapi.block) = BlockSize /\ wasapi.heard < wasapi.block[1]
          /\ \A i \in 1 .. BlockSize - 1 : wasapi.block[i] < wasapi.block[i + 1]
      BY <3>1 DEF WasapiFrames
    <3>3. wasapi.heard \in Nat /\ wasapi.block \in Seq(Nat)
      BY <3>1 DEF WasapiTypes, WasapiRecords
    <3>4. wasapi.block[1] \in Nat
      BY <3>2, <3>3, BackendsAssumption DEF BackendsAssumption
    <3>5. wasapi.block[1] > wasapi.heard
      BY <3>2, <3>3, <3>4
    <3>6. Wasapi!GivesOutput => ringBuffer.fill <= Wasapi!High
      BY <3>1 DEF WasapiFrames, Wasapi!GivesOutput
    <3> QED
      BY <3>2, <3>5, <3>6
  <2>3. Wasapi!WasapiSaysHowItIs
    BY DEF BackendsHear, WasapiInv, WasapiStream, Wasapi!WasapiSaysHowItIs
  <2>4. CoreAudio!CoreEndIsSeen /\ CoreAudio!CoreListIsTrue
    BY DEF BackendsHear, CoreInv, CoreEnds, CoreLists
  <2>5. RtAudio!RtEventsAreTheStreams
    BY DEF BackendsHear, RtInv, RtAudio!RtEventsAreTheStreams
  <2> QED
    BY <2>1, <2>2, <2>3, <2>4, <2>5 DEF BackendsSayHowItIs
<1> QED
  BY <1>1, <1>2, <1>3, PTL DEF Spec

\* The records a run looks at have the types of their invariants.
LEMMA BackendTypes ==
  ASSUME JackHears, WasapiInv, CoreInv
  PROVE  Jack!JackTypeOK /\ Wasapi!WasapiTypeOK /\ CoreAudio!CoreTypeOK
<1>1. Jack!JackTypeOK
  BY DEF JackHears, JackInv, JackRecords, JackMains, JackAudios, JackStream, JackSees,
         Jack!JackTypeOK, Jack!Rates
<1>2. Wasapi!WasapiTypeOK
  <2>1. ringBuffer \in Rings /\ wasapi \in WasapiRecords
    BY DEF WasapiInv, WasapiTypes, WasapiFrames
  <2> QED
    BY <2>1 DEF Rings, WasapiRecords, WasapiMains, WasapiThreads, Places, Wasapi!WasapiTypeOK
<1>3. CoreAudio!CoreTypeOK
  <2>1. coreAudio \in CoreRecords /\ IoTypes /\ CoreStream
    BY DEF CoreInv, CoreTypes
  <2> QED
    BY <2>1 DEF CoreRecords, CoreMains, IoTypes, CoreStream, CoreAudio!CoreTypeOK, CoreAudio!CoreRates
<1> QED
  BY <1>1, <1>2, <1>3

\* What the host and its backends are, together.
HostIsSafe == ScreenInv /\ CallbackInv /\ SettingsTypeOK /\ PipeInv /\ JackHears /\ WasapiInv /\ CoreInv

\* The plugin is activated for the stream that runs, at its rate and for its blocks, whatever the
\* devices grant; a stream's end is reported of that stream; and no process() call is in the
\* plugin while stop_processing() and deactivate() take it down.
THEOREM StreamsAreAlwaysSafe == Spec => []StreamsAreSafe
<1>1. Init => HostIsSafe
  <2> SUFFICES ASSUME Init PROVE HostIsSafe
    OBVIOUS
  <2>1. ScreenInv /\ CallbackInv /\ SettingsTypeOK
    BY ScreenBegins, CallbackBegins, SettingsBegin DEF Init
  <2>2. PipeInv /\ WasapiInv /\ CoreInv /\ JackHears
    BY BackendsBegin, BackendsHearAtFirst DEF BackendsHear
  <2> QED
    BY <2>1, <2>2 DEF HostIsSafe
<1>2. HostIsSafe /\ [Next]_partsVars => HostIsSafe'
  <2> SUFFICES ASSUME HostIsSafe, [Next]_partsVars PROVE HostIsSafe'
    OBVIOUS
  <2>1. ScreenInv' /\ CallbackInv' /\ SettingsTypeOK'
    BY HostStep, ScreenStep, CallbackStep, SettingsStep DEF HostIsSafe
  <2>2. PipeInv' /\ WasapiInv' /\ CoreInv' /\ JackHears'
    BY PartsStep, PipeStep, WasapiStep, CoreStep, JackHearsStep DEF HostIsSafe
  <2> QED
    BY <2>1, <2>2 DEF HostIsSafe
<1>3. HostIsSafe => StreamsAreSafe
  <2> SUFFICES ASSUME HostIsSafe PROVE StreamsAreSafe
    OBVIOUS
  <2>1. host \in Hosts /\ StreamFits(host) /\ plugged \in Listings /\ host.listed \in Listings
    BY DEF HostIsSafe, ScreenInv, Fit, Hosts
  <2>2. ActivatedForTheStream
    <3>1. host.stream \in Granted /\ host.plugin \in Granted
      BY <2>1 DEF Hosts
    <3> QED
      BY <2>1, <3>1 DEF StreamFits, Granted, ActivatedForTheStream
  <2>3. StopIsOfThisStream
    BY <2>1 DEF StreamFits, StopIsOfThisStream
  <2>4. StreamTypeOK
    <3>1. DOMAIN host.listed \subseteq DOMAIN Devices /\ DOMAIN plugged \subseteq DOMAIN Devices
      BY <2>1, ListingsAre
    <3> QED
      BY <2>1, <3>1 DEF Hosts, StreamTypeOK
  <2>5. CallbackTypeOK /\ NoCallInPluginTeardown
    BY DEF HostIsSafe, CallbackInv, CallInPlugin, NoCallInPluginTeardown
  <2>6. SettingsTypeOK /\ PipeTypeOK
    BY DEF HostIsSafe, PipeInv
  <2> QED
    BY <2>2, <2>3, <2>4, <2>5, <2>6, BackendTypes DEF HostIsSafe, StreamsAreSafe, StandaloneTypeOK
<1> QED
  BY <1>1, <1>2, <1>3, PTL DEF Spec

\* What every backend promises its host, of streams and of the process() calls they make,
\* whatever the sizes of a ring, the devices and the requests.
THEOREM EveryBackendKeepsThePromise == Spec => BackendsKeepThePromise
<1>1. Spec => PipeWireKeepsThePromise
  <2>1. Init => PipeInv /\ Promise!BackendInit
    BY BackendsBegin
  <2>2. PipeInv /\ [Next]_partsVars => PipeInv' /\ [Promise!BackendNext]_Promise!backendVars
    BY PartsStep, PipeStep DEF PipeMaps
  <2> QED
    BY <2>1, <2>2, PTL DEF Spec, PipeWireKeepsThePromise, Promise!BackendSpec
<1>2. Spec => Jack!JackKeepsThePromise
  <2>1. Init => JackInv /\ Jack!JackPromise!BackendInit
    BY BackendsBegin
  <2>2. JackInv /\ [Next]_partsVars => JackInv' /\ [Jack!JackPromise!BackendNext]_Jack!JackPromise!backendVars
    BY PartsStep, JackStep DEF JackMaps
  <2> QED
    BY <2>1, <2>2, PTL DEF Spec, Jack!JackKeepsThePromise, Jack!JackPromise!BackendSpec
<1>3. Spec => Wasapi!WasapiKeepsThePromise
  <2>1. Init => WasapiInv /\ Wasapi!WasapiPromise!BackendInit
    BY BackendsBegin
  <2>2. WasapiInv /\ [Next]_partsVars =>
          WasapiInv' /\ [Wasapi!WasapiPromise!BackendNext]_Wasapi!WasapiPromise!backendVars
    BY PartsStep, WasapiStep DEF WasapiMaps
  <2> QED
    BY <2>1, <2>2, PTL DEF Spec, Wasapi!WasapiKeepsThePromise, Wasapi!WasapiPromise!BackendSpec
<1>4. Spec => CoreAudio!CoreKeepsThePromise
  <2>1. Init => CoreInv /\ CoreAudio!CorePromise!BackendInit
    BY BackendsBegin
  <2>2. CoreInv /\ [Next]_partsVars =>
          CoreInv' /\ [CoreAudio!CorePromise!BackendNext]_CoreAudio!CorePromise!backendVars
    BY PartsStep, CoreStep DEF CoreMaps
  <2> QED
    BY <2>1, <2>2, PTL DEF Spec, CoreAudio!CoreKeepsThePromise, CoreAudio!CorePromise!BackendSpec
<1>5. Spec => RtAudio!RtKeepsThePromise
  <2>1. Init => RtInv /\ RtAudio!RtPromise!BackendInit
    BY BackendsBegin
  <2>2. RtInv /\ [Next]_partsVars => RtInv' /\ [RtAudio!RtPromise!BackendNext]_RtAudio!RtPromise!backendVars
    BY PartsStep, RtStep DEF RtMaps
  <2> QED
    BY <2>1, <2>2, PTL DEF Spec, RtAudio!RtKeepsThePromise, RtAudio!RtPromise!BackendSpec
<1> QED
  BY <1>1, <1>2, <1>3, <1>4, <1>5 DEF BackendsKeepThePromise
=============================================================================
