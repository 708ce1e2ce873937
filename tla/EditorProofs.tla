---------------------------- MODULE EditorProofs ----------------------------
(***************************************************************************)
(* What the editor keeps, for every number of gains, pages, delays,        *)
(* threads, parents and callbacks: the page that WRAC Gain shows in its    *)
(* WebView (PageInv) and the controller of that WebView (GuiInv).  They    *)
(* share no state, so each invariant is inductive alone, and the theorems  *)
(* at the end put them together.                                           *)
(***************************************************************************)
EXTENDS MCEditor, SequenceTheorems, FiniteSetTheorems, TLAPS

Is(s) == \E S : s \in Seq(S)

Value(k) ==
  CASE k = "gain" -> Levels [] k = "page" -> Pages [] k = "latency" -> Frames

\* What is sent either way.
Invoked(v) == /\ v.name \in {"get", "subscribe", "set"} /\ v.kind \in Kinds
              /\ v.name = "set" => v.value \in Value(v.kind)
Posted(p) == /\ p.kind \in Kinds \cup {"none"} /\ p.starts \in BOOLEAN
             /\ p.kind \in Kinds => p.value \in Value(p.kind)

PageTypes ==
  /\ TypeOK
  /\ Is(invokes) /\ Is(posts)
  /\ \A i \in 1..Len(invokes) : Invoked(invokes[i])
  /\ \A i \in 1..Len(posts) : Posted(posts[i])
  /\ ~ editor => invokes = <<>> /\ posts = <<>> /\ boot = 0 /\ subscriptions = {} /\ ~ visible

\* The start of the page is one call or one reply at a time, the one its count of replies
\* makes the next, and a kind it has subscribed to stays subscribed.
StartKept ==
  /\ \A i \in 1..Len(invokes) : invokes[i].name # "set" =>
       /\ boot < 6 /\ invokes[i] = BootScript[boot + 1]
       /\ \A j \in 1..Len(invokes) : invokes[j].name # "set" => j = i
       /\ \A j \in 1..Len(posts) : ~ posts[j].starts
  /\ \A i \in 1..Len(posts) : posts[i].starts =>
       /\ boot < 6
       /\ IF BootScript[boot + 1].name = "get" THEN posts[i].kind = BootScript[boot + 1].kind
          ELSE posts[i].kind = "none" /\ BootScript[boot + 1].kind \in subscriptions
       /\ \A j \in 1..Len(posts) : posts[j].starts => j = i
  /\ boot >= 4 => "page" \in subscriptions
  /\ boot >= 6 => "latency" \in subscriptions

\* The last post about k has the plugin's value of k; the page shows it when none is on its
\* way, no choice of k is, and the start has read k.
Posting(k) == \E i \in 1..Len(posts) : posts[i].kind = k
Choosing(k) == \E i \in 1..Len(invokes) : invokes[i].name = "set" /\ invokes[i].kind = k
LastSays(k) ==
  \A i \in 1..Len(posts) :
    posts[i].kind = k /\ (\A j \in (i + 1)..Len(posts) : posts[j].kind # k)
      => posts[i].value = state[k]
Agrees(k, read) ==
  /\ LastSays(k)
  /\ editor /\ boot >= read /\ ~ Posting(k) /\ ~ Choosing(k) => shown[k] = state[k]

PageAgrees == ~ LoadWhileOpening => Agrees("page", 3) /\ Agrees("latency", 5)

PageInv == PageTypes /\ StartKept /\ PageAgrees /\ ReportFollows /\ UnsavedDelayIsDirty
-----------------------------------------------------------------------------
LEMMA AppendAt ==
  ASSUME NEW s, Is(s), NEW e
  PROVE  /\ Is(Append(s, e)) /\ Len(s) \in Nat /\ Len(Append(s, e)) = Len(s) + 1
         /\ \A i \in 1..Len(s) : Append(s, e)[i] = s[i] /\ i \in 1..Len(Append(s, e))
         /\ Append(s, e)[Len(s) + 1] = e /\ Len(s) + 1 \in 1..Len(Append(s, e))
         /\ \A i \in 1..Len(Append(s, e)) : i \in 1..Len(s) \/ i = Len(s) + 1
<1> DEFINE u == Append(s, e)
<1>1. PICK S : s \in Seq(S)
  BY DEF Is
<1> DEFINE T == S \cup {e}
<1>2. s \in Seq(T) /\ e \in T
  BY <1>1
<1> HIDE DEF T
<1>3. u \in Seq(T) /\ Len(s) \in Nat /\ Len(u) = Len(s) + 1
  BY <1>2
<1>4. /\ \A i \in 1..Len(s) : u[i] = s[i]
      /\ u[Len(s) + 1] = e
  BY <1>2
<1> HIDE DEF u
<1>5. /\ \A i \in 1..Len(s) : i \in 1..Len(u)
      /\ Len(s) + 1 \in 1..Len(u)
      /\ \A i \in 1..Len(u) : i \in 1..Len(s) \/ i = Len(s) + 1
  BY <1>3
<1>6. Is(u)
  BY <1>3 DEF Is
<1> QED BY <1>3, <1>4, <1>5, <1>6 DEF u

LEMMA TailAt ==
  ASSUME NEW s, Is(s), s # <<>>
  PROVE  /\ Is(Tail(s)) /\ Len(s) \in Nat /\ Len(Tail(s)) = Len(s) - 1 /\ Len(s) >= 1
         /\ \A i \in 1..Len(Tail(s)) : Tail(s)[i] = s[i + 1] /\ i + 1 \in 1..Len(s)
         /\ Head(s) = s[1] /\ 1 \in 1..Len(s)
         /\ \A i \in 2..Len(s) : i - 1 \in 1..Len(Tail(s)) /\ Tail(s)[i - 1] = s[i]
<1> DEFINE u == Tail(s)
<1>0. PICK S : s \in Seq(S)
  BY DEF Is
<1>1. /\ Len(s) \in Nat /\ Len(u) = Len(s) - 1 /\ Len(s) >= 1
      /\ Head(s) = s[1] /\ u \in Seq(S)
      /\ \A i \in 1..Len(u) : u[i] = s[i + 1]
  BY <1>0
<1> HIDE DEF u
<1>2. \A i \in 2..Len(s) : i - 1 \in 1..Len(u) /\ u[i - 1] = s[(i - 1) + 1]
  BY <1>1
<1>3. Is(u)
  BY <1>1 DEF Is
<1> QED BY <1>1, <1>2, <1>3 DEF u

LEMMA BootSteps ==
  /\ Len(BootScript) = 6
  /\ BootScript[1] = [name |-> "get", kind |-> "gain"]
  /\ BootScript[2] = [name |-> "subscribe", kind |-> "gain"]
  /\ BootScript[3] = [name |-> "get", kind |-> "page"]
  /\ BootScript[4] = [name |-> "subscribe", kind |-> "page"]
  /\ BootScript[5] = [name |-> "get", kind |-> "latency"]
  /\ BootScript[6] = [name |-> "subscribe", kind |-> "latency"]
BY DEF BootScript

LEMMA BootNext ==
  ASSUME NEW n \in 0..6, n < 6
  PROVE  /\ Invoked(BootScript[n + 1]) /\ BootScript[n + 1].name \in {"get", "subscribe"}
         /\ BootScript[n + 1].kind \in Kinds
         /\ BootScript[n + 1].name = "get" => n \in {0, 2, 4}
<1> DEFINE b == BootScript[n + 1]
<1>1. n \in {0, 1, 2, 3, 4, 5}
  OBVIOUS
<1>2. n + 1 \in {1, 2, 3, 4, 5, 6}
  BY <1>1
<1>3. /\ b.name \in {"get", "subscribe"} /\ b.kind \in Kinds
      /\ b.name = "get" => n + 1 \in {1, 3, 5}
  BY <1>2, BootSteps DEF Kinds
<1> HIDE DEF b
<1>4. Invoked(b)
  BY <1>3 DEF Invoked
<1> QED BY <1>1, <1>3, <1>4 DEF b

\* One part of a state is assigned.
LEMMA Assign ==
  ASSUME NEW s \in States, NEW k \in Kinds, NEW v \in Value(k)
  PROVE  /\ [s EXCEPT ![k] = v] \in States /\ [s EXCEPT ![k] = v][k] = v
         /\ \A j \in Kinds : j # k => [s EXCEPT ![k] = v][j] = s[j]
BY DEF States, Kinds, Value

LEMMA Parts ==
  ASSUME NEW s \in States
  PROVE  /\ \A k \in Kinds : s[k] \in Value(k)
         /\ s.gain = s["gain"] /\ s.page = s["page"] /\ s.latency = s["latency"]
BY DEF States, Kinds, Value

\* u is s and posts after it, each with what the state st has and with one of the marks.
Grown(s, u, st, marks) ==
  /\ Is(u) /\ Len(s) \in Nat /\ Len(u) \in Nat /\ Len(s) <= Len(u)
  /\ \A i \in 1..Len(s) : u[i] = s[i] /\ i \in 1..Len(u)
  /\ \A i \in 1..Len(u) :
       \/ i \in 1..Len(s)
       \/ /\ u[i].starts \in marks /\ u[i].kind \in Kinds \cup {"none"}
          /\ u[i].kind = "none" \/ u[i].value = st[u[i].kind]

LEMMA GrownAtAll ==
  ASSUME NEW s, Is(s), NEW st, NEW marks PROVE Grown(s, s, st, marks)
<1>1. PICK S : s \in Seq(S)
  BY DEF Is
<1> QED BY <1>1 DEF Grown, Is

LEMMA GrownBy ==
  ASSUME NEW s, NEW u, NEW st, NEW marks, Grown(s, u, st, marks), NEW e,
         e.starts \in marks, e.kind \in Kinds \cup {"none"},
         e.kind = "none" \/ e.value = st[e.kind]
  PROVE  /\ Grown(s, Append(u, e), st, marks)
         /\ Len(u) + 1 \in 1..Len(Append(u, e)) /\ Append(u, e)[Len(u) + 1] = e
         /\ Len(u) + 1 \notin 1..Len(s)
         /\ \A i \in 1..Len(u) : Append(u, e)[i] = u[i] /\ i \in 1..Len(Append(u, e))
<1> DEFINE v == Append(u, e)
<1>1. /\ Is(v) /\ Len(v) = Len(u) + 1
      /\ \A i \in 1..Len(u) : v[i] = u[i] /\ i \in 1..Len(v)
      /\ v[Len(u) + 1] = e /\ Len(u) + 1 \in 1..Len(v)
      /\ \A i \in 1..Len(v) : i \in 1..Len(u) \/ i = Len(u) + 1
  <2>1. Is(u)
    BY DEF Grown
  <2> QED BY <2>1, AppendAt
<1>2. /\ Len(s) \in Nat /\ Len(u) \in Nat /\ Len(s) <= Len(u)
      /\ \A i \in 1..Len(s) : u[i] = s[i] /\ i \in 1..Len(u)
      /\ \A i \in 1..Len(u) :
           \/ i \in 1..Len(s)
           \/ /\ u[i].starts \in marks /\ u[i].kind \in Kinds \cup {"none"}
              /\ u[i].kind = "none" \/ u[i].value = st[u[i].kind]
  BY DEF Grown
<1> HIDE DEF v
<1>3. \A i \in 1..Len(s) : v[i] = s[i] /\ i \in 1..Len(v)
  BY <1>1, <1>2
<1>4. \A i \in 1..Len(v) :
        \/ i \in 1..Len(s)
        \/ /\ v[i].starts \in marks /\ v[i].kind \in Kinds \cup {"none"}
           /\ v[i].kind = "none" \/ v[i].value = st[v[i].kind]
  BY <1>1, <1>2
<1>5. Len(v) \in Nat /\ Len(s) <= Len(v) /\ Len(u) + 1 \notin 1..Len(s)
  BY <1>1, <1>2
<1>6. Grown(s, v, st, marks)
  BY <1>1, <1>2, <1>3, <1>4, <1>5 DEF Grown
<1> QED BY <1>1, <1>5, <1>6 DEF v

LEMMA GrownTypes ==
  ASSUME PageTypes, NEW marks \in SUBSET BOOLEAN, Grown(posts, posts', state', marks),
         state' \in States
  PROVE  Is(posts') /\ \A i \in 1..Len(posts') : Posted(posts'[i])
<1> SUFFICES ASSUME NEW i \in 1..Len(posts') PROVE Posted(posts'[i])
  BY DEF Grown
<1>1. CASE i \in 1..Len(posts)
  BY <1>1 DEF PageTypes, Grown
<1>2. CASE i \notin 1..Len(posts)
  <2>1. /\ posts'[i].starts \in marks /\ posts'[i].kind \in Kinds \cup {"none"}
        /\ posts'[i].kind = "none" \/ posts'[i].value = state'[posts'[i].kind]
    BY <1>2 DEF Grown
  <2>2. \A k \in Kinds : state'[k] \in Value(k)
    BY Parts
  <2> QED BY <2>1, <2>2 DEF Posted, Kinds
<1> QED BY <1>1, <1>2

\* Posts u that go on from q, and tell of k what posts does not.
Extends(q, u) == \A i \in 1..Len(q) : i \in 1..Len(u) /\ u[i] = q[i]
Tells(u, k) == \E i \in 1..Len(u) : i \notin 1..Len(posts) /\ u[i].kind = k

LEMMA AgreesGrown ==
  ASSUME NEW k \in Kinds, NEW read \in Nat, Agrees(k, read),
         NEW marks, Grown(posts, posts', state', marks),
         state'[k] = state[k] \/ Tells(posts', k),
         Choosing(k)' \/ ~ Choosing(k) \/ Posting(k)',
         UNCHANGED <<editor, boot, shown>>
  PROVE  Agrees(k, read)'
<1> USE DEF Grown, Tells
<1>1. ASSUME NEW i \in 1..Len(posts'), posts'[i].kind = k,
             \A j \in (i + 1)..Len(posts') : posts'[j].kind # k
      PROVE  posts'[i].value = state'[k]
  <2>1. CASE i \notin 1..Len(posts)
    BY <1>1, <2>1 DEF Kinds
  <2>2. CASE i \in 1..Len(posts)
    <3>1. \A j \in 1..Len(posts') : j \notin 1..Len(posts) => j \in (i + 1)..Len(posts')
      BY <2>2
    <3>2. state'[k] = state[k]
      BY <1>1, <3>1
    <3>3. \A j \in (i + 1)..Len(posts) : posts[j].kind # k
      <4>1. \A j \in (i + 1)..Len(posts) : j \in 1..Len(posts) /\ j \in (i + 1)..Len(posts')
        BY <2>2
      <4> QED BY <1>1, <4>1
    <3>4. posts[i].kind = k /\ posts'[i] = posts[i]
      BY <1>1, <2>2
    <3> QED BY <2>2, <3>2, <3>3, <3>4 DEF Agrees, LastSays
  <2> QED BY <2>1, <2>2
<1>2. LastSays(k)'
  BY <1>1 DEF LastSays
<1>3. ~ Posting(k)' => ~ Posting(k) /\ state'[k] = state[k]
  BY DEF Posting
<1> QED BY <1>2, <1>3 DEF Agrees

\* What stays when the page is left alone.
LEMMA GuiAlone ==
  ASSUME PageTypes, TypeOK', StartKept, PageAgrees, UNCHANGED gui,
         state'["page"] = state["page"], state'["latency"] = state["latency"]
  PROVE  PageTypes' /\ StartKept' /\ PageAgrees'
<1>1. PageTypes'
  BY DEF gui, PageTypes
<1>2. StartKept'
  BY DEF gui, StartKept
<1>3. PageAgrees'
  BY DEF gui, PageAgrees, Agrees, LastSays, Posting, Choosing
<1> QED BY <1>1, <1>2, <1>3

LEMMA HostStepInv ==
  ASSUME PageTypes, StartKept, PageAgrees, Activate \/ Deactivate \/ Automate \/ Save
  PROVE  PageTypes' /\ StartKept' /\ PageAgrees'
<1> USE DEF report, project
<1>t. TypeOK
  BY DEF PageTypes
<1>c. Counted => calls' \in 0..MaxCalls
  BY <1>t, BoundAssumption DEF Counted, TypeOK
<1>1. CASE Activate \/ Deactivate \/ Save
  <2>1. UNCHANGED gui /\ state' = state
    BY <1>1 DEF Activate, Deactivate, Save
  <2>2. TypeOK'
    <3>1. state.latency \in Frames
      BY <1>t, Parts DEF TypeOK, Value, Kinds
    <3>2. /\ active_frames' \in Frames /\ saved' \in States
          /\ {processor', restart_requested', dirty'} \subseteq BOOLEAN
          /\ calls' \in 0..MaxCalls
      BY <1>1, <1>t, <1>c, <3>1 DEF Activate, Deactivate, Save, TypeOK
    <3> QED BY <1>t, <2>1, <3>2 DEF TypeOK, gui
  <2> QED BY <2>1, <2>2, GuiAlone
<1>2. CASE Automate
  <2>1. PICK g \in Levels : state' = [state EXCEPT !["gain"] = g]
    BY <1>2 DEF Automate
  <2>2. /\ state' \in States /\ state'["page"] = state["page"]
        /\ state'["latency"] = state["latency"]
    <3>1. "gain" \in Kinds /\ "page" \in Kinds /\ "latency" \in Kinds /\ g \in Value("gain")
      BY DEF Kinds, Value
    <3>2. state \in States
      BY <1>t DEF TypeOK
    <3>3. /\ [state EXCEPT !["gain"] = g] \in States
          /\ \A j \in Kinds : j # "gain" => [state EXCEPT !["gain"] = g][j] = state[j]
      BY <3>1, <3>2, Assign
    <3> QED BY <2>1, <3>1, <3>3
  <2>3. TypeOK' /\ UNCHANGED gui
    BY <1>2, <1>t, <1>c, <2>2 DEF Automate, TypeOK, gui
  <2> QED BY <2>2, <2>3, GuiAlone
<1> QED BY <1>1, <1>2

LEMMA WindowStepInv ==
  ASSUME PageTypes, StartKept, PageAgrees, Open \/ Show \/ Hide \/ Close
  PROVE  PageTypes' /\ StartKept' /\ PageAgrees'
<1> USE DEF report, project
<1>t. TypeOK
  BY DEF PageTypes
<1>c. Counted => calls' \in 0..MaxCalls
  BY <1>t, BoundAssumption DEF Counted, TypeOK
<1>1. CASE Show \/ Hide
  <2>1. /\ UNCHANGED <<state, report, project, editor, boot, subscriptions, invokes, posts, shown>>
        /\ visible' \in BOOLEAN /\ (visible' => editor) /\ calls' \in 0..MaxCalls
    BY <1>1, <1>t, <1>c DEF Show, Hide, PageTypes, TypeOK
  <2>2. TypeOK'
    BY <1>t, <2>1 DEF TypeOK
  <2>3. PageTypes'
    BY <2>1, <2>2 DEF PageTypes
  <2>4. StartKept' /\ PageAgrees'
    BY <2>1 DEF StartKept, PageAgrees, Agrees, LastSays, Posting, Choosing
  <2> QED BY <2>3, <2>4
<1>2. CASE Open
  <2>1. /\ ~ editor /\ editor' = TRUE /\ visible' = TRUE /\ boot' = 0
        /\ invokes' = <<BootScript[1]>> /\ posts' = <<>> /\ shown' = Fresh
        /\ UNCHANGED <<state, report, project, subscriptions, calls>>
    BY <1>2 DEF Open
  <2>2. Fresh \in States
    BY FramesAssumption DEF Fresh, States, Levels, Pages
  <2>3. TypeOK'
    BY <1>t, <2>1, <2>2, BootSteps DEF TypeOK
  <2>4. /\ Is(invokes') /\ Is(posts') /\ Len(invokes') = 1 /\ Len(posts') = 0
        /\ invokes'[1] = [name |-> "get", kind |-> "gain"]
    <3> DEFINE b == [name |-> "get", kind |-> "gain"]
    <3>1. invokes' = <<b>> /\ posts' = <<>>
      BY <2>1, BootSteps
    <3>2. <<b>> \in Seq({b}) /\ <<>> \in Seq({b}) /\ Len(<<b>>) = 1 /\ <<b>>[1] = b
      OBVIOUS
    <3> QED BY <3>1, <3>2 DEF Is
  <2>5. PageTypes'
    BY <2>1, <2>3, <2>4 DEF PageTypes, Invoked, Kinds
  <2>6. StartKept'
    BY <2>1, <2>4, BootSteps DEF StartKept
  <2>7. PageAgrees'
    BY <2>1, <2>4 DEF PageAgrees, Agrees, LastSays
  <2> QED BY <2>5, <2>6, <2>7
<1>3. CASE Close
  <2>1. /\ editor' = FALSE /\ visible' = FALSE /\ boot' = 0
        /\ subscriptions' = {} /\ invokes' = <<>> /\ posts' = <<>>
        /\ UNCHANGED <<state, report, project, shown>> /\ calls' \in 0..MaxCalls
    BY <1>3, <1>c DEF Close
  <2>2. TypeOK'
    <3>1. boot' \in 0..Len(BootScript)
      BY <2>1, BootSteps
    <3> QED BY <1>t, <2>1, <3>1 DEF TypeOK
  <2>3. <<>> \in Seq({}) /\ Len(<<>>) = 0
    OBVIOUS
  <2>4. PageTypes'
    BY <2>1, <2>2, <2>3 DEF PageTypes, Is
  <2>5. StartKept'
    BY <2>1, <2>3 DEF StartKept
  <2>6. PageAgrees'
    BY <2>1, <2>3 DEF PageAgrees, Agrees, LastSays
  <2> QED BY <2>4, <2>5, <2>6
<1> QED BY <1>1, <1>2, <1>3

\* A choice is shown at once and sent.
LEMMA ChooseInv ==
  ASSUME PageTypes, StartKept, PageAgrees, NEW k \in Kinds, NEW v \in Value(k), Choose(k, v)
  PROVE  PageTypes' /\ StartKept' /\ PageAgrees'
<1> DEFINE call_ == [name |-> "set", kind |-> k, value |-> v]
<1>t. TypeOK /\ shown \in States
  BY DEF PageTypes, TypeOK
<1>1. /\ UNCHANGED <<state, report, project, editor, visible, boot, subscriptions, posts>>
      /\ invokes' = Append(invokes, call_) /\ shown' = [shown EXCEPT ![k] = v]
      /\ calls' \in 0..MaxCalls /\ editor
  BY <1>t, BoundAssumption DEF Choose, Counted, Display, TypeOK, PageTypes
<1>2. shown' \in States /\ \A j \in Kinds : j # k => shown'[j] = shown[j]
  <2>1. /\ [shown EXCEPT ![k] = v] \in States
        /\ \A j \in Kinds : j # k => [shown EXCEPT ![k] = v][j] = shown[j]
    BY <1>t, Assign
  <2> QED BY <1>1, <2>1
<1>3. TypeOK'
  BY <1>t, <1>1, <1>2 DEF TypeOK, report, project
<1>4. call_.name = "set" /\ call_.kind = k /\ call_.value = v
  OBVIOUS
<1> HIDE DEF call_
<1>5. Is(invokes)
  BY DEF PageTypes
<1>6. /\ Is(invokes') /\ Len(invokes) \in Nat /\ Len(invokes') = Len(invokes) + 1
      /\ \A i \in 1..Len(invokes) : invokes'[i] = invokes[i] /\ i \in 1..Len(invokes')
      /\ invokes'[Len(invokes) + 1] = call_ /\ Len(invokes) + 1 \in 1..Len(invokes')
      /\ \A i \in 1..Len(invokes') : i \in 1..Len(invokes) \/ i = Len(invokes) + 1
  BY <1>1, <1>5, AppendAt
<1>7. \A i \in 1..Len(invokes') : invokes'[i] = call_ \/ (i \in 1..Len(invokes) /\ invokes'[i] = invokes[i])
  BY <1>6
<1>8. PageTypes'
  <2>1. \A i \in 1..Len(invokes') : Invoked(invokes'[i])
    BY <1>4, <1>7 DEF PageTypes, Invoked
  <2> QED BY <1>1, <1>3, <1>6, <2>1 DEF PageTypes
<1>9. StartKept'
  BY <1>1, <1>4, <1>7 DEF StartKept
<1>10. ASSUME NEW j \in Kinds, NEW read \in Nat, Agrees(j, read) PROVE Agrees(j, read)'
  <2>1. j = k => Choosing(j)'
    BY <1>4, <1>6 DEF Choosing
  <2>2. Choosing(j) => Choosing(j)'
    BY <1>6 DEF Choosing
  <2>3. LastSays(j)' /\ Posting(j)' = Posting(j)
    BY <1>1, <1>10 DEF Agrees, LastSays, Posting
  <2> QED BY <1>1, <1>2, <1>10, <2>1, <2>2, <2>3 DEF Agrees
<1>11. PageAgrees'
  BY <1>10 DEF PageAgrees, Kinds
<1> QED BY <1>8, <1>9, <1>11

LEMMA InputInv ==
  ASSUME PageTypes, StartKept, PageAgrees, Input
  PROVE  PageTypes' /\ StartKept' /\ PageAgrees'
<1>1. \E k \in Kinds : \E v \in Value(k) : Choose(k, v)
  BY DEF Input, SetEditorPage, ApplyGain, SelectLatency, Kinds, Value
<1> QED BY <1>1, ChooseInv

\* The page shows what it is given, and its start goes on with the reply it awaits.
LEMMA DeliverInv ==
  ASSUME PageTypes, StartKept, PageAgrees, Deliver
  PROVE  PageTypes' /\ StartKept' /\ PageAgrees'
<1> DEFINE post == posts[1]
<1>t. TypeOK /\ shown \in States /\ boot \in 0..6
  BY BootSteps DEF PageTypes, TypeOK
<1>p. /\ Is(posts') /\ Len(posts) \in Nat /\ Len(posts') = Len(posts) - 1 /\ Len(posts) >= 1
      /\ \A i \in 1..Len(posts') : posts'[i] = posts[i + 1] /\ i + 1 \in 1..Len(posts)
      /\ Head(posts) = post /\ 1 \in 1..Len(posts)
      /\ \A i \in 2..Len(posts) : i - 1 \in 1..Len(posts') /\ posts'[i - 1] = posts[i]
  <2>1. Is(posts) /\ posts # <<>> /\ posts' = Tail(posts)
    BY DEF PageTypes, Deliver
  <2> QED BY <2>1, TailAt
<1>1. /\ UNCHANGED <<state, report, project, editor, visible, subscriptions, calls>> /\ editor
      /\ shown' = IF post.kind = "none" THEN shown ELSE [shown EXCEPT ![post.kind] = post.value]
      /\ IF post.starts
         THEN /\ boot' = boot + 1
              /\ invokes' = IF boot' < 6 THEN Append(invokes, BootScript[boot' + 1]) ELSE invokes
         ELSE UNCHANGED <<boot, invokes>>
  BY <1>p, BootSteps DEF Deliver, Display, PageTypes
<1>2. Posted(post)
  BY <1>p DEF PageTypes
<1>3. /\ shown' \in States
      /\ \A j \in Kinds : shown'[j] = IF j = post.kind THEN post.value ELSE shown[j]
  <2>1. CASE post.kind = "none"
    BY <1>1, <1>t, <2>1 DEF Kinds
  <2>2. CASE post.kind # "none"
    <3>1. post.kind \in Kinds /\ post.value \in Value(post.kind)
      BY <1>2, <2>2 DEF Posted
    <3> DEFINE w == [shown EXCEPT ![post.kind] = post.value]
    <3>2. /\ w \in States /\ w[post.kind] = post.value
          /\ \A j \in Kinds : j # post.kind => w[j] = shown[j]
      BY <1>t, <3>1, Assign
    <3>3. shown' = w
      BY <1>1, <2>2
    <3> HIDE DEF w
    <3> QED BY <3>2, <3>3
  <2> QED BY <2>1, <2>2
<1>4. post.starts => boot < 6
  BY <1>p DEF StartKept
<1>5. boot' \in 0..6 /\ boot <= boot' /\ TypeOK'
  <2>1. boot' \in 0..6 /\ boot <= boot'
    BY <1>1, <1>2, <1>4, <1>t DEF Posted
  <2> QED BY <1>1, <1>3, <1>t, <2>1, BootSteps DEF TypeOK, report, project
<1> HIDE DEF post
<1>n. /\ Is(invokes') /\ Len(invokes) \in Nat /\ Len(invokes') \in Nat
      /\ \A i \in 1..Len(invokes) : invokes'[i] = invokes[i] /\ i \in 1..Len(invokes')
      /\ \/ invokes' = invokes
         \/ /\ post.starts /\ boot' < 6 /\ Len(invokes') = Len(invokes) + 1
            /\ invokes'[Len(invokes) + 1] = BootScript[boot' + 1]
      /\ \A i \in 1..Len(invokes') : i \in 1..Len(invokes) \/ i = Len(invokes) + 1
  <2>1. Is(invokes)
    BY DEF PageTypes
  <2>2. CASE invokes' = invokes
    <3>1. PICK S : invokes \in Seq(S)
      BY <2>1 DEF Is
    <3> QED BY <2>1, <2>2, <3>1
  <2>3. CASE post.starts /\ boot' < 6 /\ invokes' = Append(invokes, BootScript[boot' + 1])
    BY <2>1, <2>3, AppendAt
  <2> QED BY <1>1, <2>2, <2>3
<1>6. PageTypes'
  <2>1. \A i \in 1..Len(posts') : Posted(posts'[i])
    BY <1>p DEF PageTypes
  <2>2. boot' < 6 => Invoked(BootScript[boot' + 1])
    BY <1>5, BootNext
  <2>3. \A i \in 1..Len(invokes') : Invoked(invokes'[i])
    BY <1>n, <2>2 DEF PageTypes
  <2> QED BY <1>1, <1>5, <1>p, <1>n, <2>1, <2>3 DEF PageTypes
<1>7. StartKept'
  <2>1. CASE ~ post.starts
    <3>1. UNCHANGED <<boot, invokes, subscriptions>>
      BY <1>1, <2>1
    <3>2. \A i \in 1..Len(posts') : posts'[i] = posts[i + 1] /\ i + 1 \in 1..Len(posts) /\ i \in Int
      BY <1>p
    <3>3. \A i, j \in 1..Len(posts') : i + 1 = j + 1 => i = j
      BY <1>p
    <3>4. \A i \in 1..Len(posts') : posts'[i].starts =>
            \A j \in 1..Len(posts') : posts'[j].starts => j = i
      BY <3>2, <3>3 DEF StartKept
    <3>5. \A i \in 1..Len(posts') : posts'[i].starts =>
            /\ boot < 6
            /\ IF BootScript[boot + 1].name = "get" THEN posts'[i].kind = BootScript[boot + 1].kind
               ELSE posts'[i].kind = "none" /\ BootScript[boot + 1].kind \in subscriptions
      BY <3>2 DEF StartKept
    <3>6. \A i \in 1..Len(invokes) : invokes[i].name # "set" =>
            /\ boot < 6 /\ invokes[i] = BootScript[boot + 1]
            /\ \A j \in 1..Len(invokes) : invokes[j].name # "set" => j = i
            /\ \A j \in 1..Len(posts') : ~ posts'[j].starts
      BY <3>2 DEF StartKept
    <3>7. (boot >= 4 => "page" \in subscriptions) /\ (boot >= 6 => "latency" \in subscriptions)
      BY DEF StartKept
    <3> QED BY <3>1, <3>4, <3>5, <3>6, <3>7 DEF StartKept
  <2>2. CASE post.starts
    <3>1. \A i \in 1..Len(posts') : ~ posts'[i].starts
      <4>1. \A i \in 1..Len(posts') : i + 1 # 1 /\ i + 1 \in 1..Len(posts) /\ posts'[i] = posts[i + 1]
        BY <1>p
      <4> QED BY <4>1, <2>2, <1>p DEF StartKept, post
    <3>2. \A i \in 1..Len(invokes) : invokes[i].name = "set"
      BY <2>2, <1>p DEF StartKept, post
    <3>3. \A i \in 1..Len(invokes') : invokes'[i].name # "set" =>
            i = Len(invokes) + 1 /\ boot' < 6 /\ invokes'[i] = BootScript[boot' + 1]
      BY <1>n, <3>2
    <3>4. (boot' >= 4 => "page" \in subscriptions) /\ (boot' >= 6 => "latency" \in subscriptions)
      <4>1. /\ boot' = boot + 1
            /\ BootScript[boot + 1].name # "get" => BootScript[boot + 1].kind \in subscriptions
        BY <1>1, <1>p, <2>2 DEF StartKept, post
      <4>2. CASE boot = 3
        BY <4>1, <4>2, BootSteps
      <4>3. CASE boot = 5
        BY <4>1, <4>3, BootSteps DEF StartKept
      <4>4. CASE boot # 3 /\ boot # 5
        BY <4>1, <4>4, <1>t DEF StartKept
      <4> QED BY <4>2, <4>3, <4>4
    <3> QED BY <1>1, <3>1, <3>3, <3>4 DEF StartKept
  <2> QED BY <2>1, <2>2
<1>8. ASSUME NEW k \in Kinds, NEW read \in {3, 5}, Agrees(k, read),
             BootScript[read] = [name |-> "get", kind |-> k]
      PROVE  Agrees(k, read)'
  <2>1. \A i \in 1..Len(posts') : posts'[i].kind = k /\ (\A j \in (i + 1)..Len(posts') : posts'[j].kind # k)
          => posts'[i].value = state'[k]
    <3> SUFFICES ASSUME NEW i \in 1..Len(posts'), posts'[i].kind = k,
                        \A j \in (i + 1)..Len(posts') : posts'[j].kind # k
                 PROVE  posts'[i].value = state'[k]
      OBVIOUS
    <3>1. posts[i + 1].kind = k /\ i + 1 \in 1..Len(posts) /\ posts'[i] = posts[i + 1]
      BY <1>p
    <3>2. \A j \in ((i + 1) + 1)..Len(posts) : posts[j].kind # k
      <4>1. \A j \in ((i + 1) + 1)..Len(posts) : j \in 2..Len(posts) /\ j - 1 \in (i + 1)..Len(posts')
        BY <1>p
      <4> QED BY <4>1, <1>p
    <3> QED BY <1>1, <1>8, <3>1, <3>2 DEF Agrees, LastSays
  <2>2. Choosing(k) => Choosing(k)'
    BY <1>n DEF Choosing
  <2>3. ASSUME ~ Posting(k)', ~ Choosing(k)', boot' >= read PROVE shown'[k] = state'[k]
    <3>1. CASE post.kind = k
      <4>1. \A j \in (1 + 1)..Len(posts) : posts[j].kind # k
        BY <1>p, <2>3 DEF Posting
      <4>2. post.value = state[k]
        BY <1>8, <1>p, <3>1, <4>1 DEF Agrees, LastSays, post
      <4> QED BY <1>1, <1>3, <3>1, <4>2
    <3>2. CASE post.kind # k
      <4>1. ~ Posting(k)
        <5>1. \A i \in 1..Len(posts) : i = 1 \/ i \in 2..Len(posts)
          BY <1>p
        <5>2. \A i \in 2..Len(posts) : posts[i].kind # k
          BY <1>p, <2>3 DEF Posting
        <5>3. \A i \in 1..Len(posts) : posts[i].kind # k
          BY <3>2, <5>1, <5>2 DEF post
        <5> QED BY <5>3 DEF Posting
      <4>2. boot >= read
        <5>1. CASE post.starts /\ boot + 1 = read
          <6>1. post.kind = k
            BY <1>8, <1>p, <5>1 DEF StartKept, post
          <6> QED BY <3>2, <6>1
        <5>2. CASE ~ post.starts \/ boot + 1 # read
          BY <1>1, <1>t, <1>5, <2>3, <5>2
        <5> QED BY <5>1, <5>2
      <4>3. shown'[k] = shown[k] /\ state' = state
        BY <1>1, <1>3, <3>2
      <4> QED BY <1>1, <1>8, <2>2, <2>3, <4>1, <4>2, <4>3 DEF Agrees
    <3> QED BY <3>1, <3>2
  <2> QED BY <2>1, <2>3 DEF Agrees, LastSays
<1>9. PageAgrees'
  <2>1. "page" \in Kinds /\ "latency" \in Kinds
    BY DEF Kinds
  <2> QED BY <1>8, <2>1, BootSteps DEF PageAgrees
<1> QED BY <1>6, <1>7, <1>9

LEMMA JoinAt ==
  ASSUME NEW s, Is(s), NEW a, NEW b
  PROVE  /\ s \o <<>> = s /\ s \o <<a>> = Append(s, a)
         /\ s \o (<<>> \o <<>>) = s /\ s \o (<<>> \o <<b>>) = Append(s, b)
         /\ s \o (<<a>> \o <<>>) = Append(s, a)
         /\ s \o (<<a>> \o <<b>>) = Append(Append(s, a), b)
<1>1. PICK S : s \in Seq(S)
  BY DEF Is
<1> DEFINE T == S \cup {a, b}
<1>2. s \in Seq(T) /\ a \in T /\ b \in T
  BY <1>1
<1> HIDE DEF T
<1>3. s \o <<>> = s /\ s \o <<a>> = Append(s, a)
  BY <1>2
<1>4. <<>> \o <<>> = <<>> /\ <<>> \o <<b>> = <<b>> /\ <<a>> \o <<>> = <<a>>
  BY <1>2
<1>5. s \o <<b>> = Append(s, b)
  BY <1>2
<1>6. s \o (<<a>> \o <<b>>) = Append(Append(s, a), b)
  BY <1>2
<1> QED BY <1>3, <1>4, <1>5, <1>6

\* A command is taken from those that wait.
LEMMA Taken ==
  ASSUME PageTypes, StartKept, invokes # <<>>, invokes' = Tail(invokes)
  PROVE  /\ Is(invokes') /\ \A i \in 1..Len(invokes') : Invoked(invokes'[i])
         /\ Head(invokes) = invokes[1] /\ Invoked(invokes[1])
         /\ \A k : Choosing(k) /\ ~ Choosing(k)' =>
                     invokes[1].name = "set" /\ invokes[1].kind = k
         /\ invokes[1].name = "set" =>
              \A i \in 1..Len(invokes') : invokes'[i].name # "set" =>
                /\ boot < 6 /\ invokes'[i] = BootScript[boot + 1]
                /\ \A j \in 1..Len(invokes') : invokes'[j].name # "set" => j = i
                /\ \A j \in 1..Len(posts) : ~ posts[j].starts
         /\ invokes[1].name # "set" =>
              /\ boot < 6 /\ invokes[1] = BootScript[boot + 1]
              /\ \A i \in 1..Len(invokes') : invokes'[i].name = "set"
              /\ \A j \in 1..Len(posts) : ~ posts[j].starts
<1>1. /\ Is(invokes') /\ Len(invokes) \in Nat /\ Len(invokes') = Len(invokes) - 1 /\ Len(invokes) >= 1
      /\ \A i \in 1..Len(invokes') : invokes'[i] = invokes[i + 1] /\ i + 1 \in 1..Len(invokes)
      /\ Head(invokes) = invokes[1] /\ 1 \in 1..Len(invokes)
      /\ \A i \in 2..Len(invokes) : i - 1 \in 1..Len(invokes') /\ invokes'[i - 1] = invokes[i]
  <2>1. Is(invokes)
    BY DEF PageTypes
  <2> QED BY <2>1, TailAt
<1>2. Invoked(invokes[1]) /\ \A i \in 1..Len(invokes') : Invoked(invokes'[i])
  BY <1>1 DEF PageTypes
<1>3. ASSUME NEW k, Choosing(k), ~ Choosing(k)'
      PROVE  invokes[1].name = "set" /\ invokes[1].kind = k
  <2>1. PICK i \in 1..Len(invokes) : invokes[i].name = "set" /\ invokes[i].kind = k
    BY <1>3 DEF Choosing
  <2>2. i \in 2..Len(invokes) => Choosing(k)'
    BY <1>1, <2>1 DEF Choosing
  <2>3. i = 1
    BY <1>1, <1>3, <2>2
  <2> QED BY <2>1, <2>3
<1>4. \A i \in 1..Len(invokes') : i + 1 # 1 /\ \A j \in 1..Len(invokes') : j + 1 = i + 1 => j = i
  BY <1>1
<1>5. ASSUME NEW i \in 1..Len(invokes'), invokes'[i].name # "set"
      PROVE  /\ boot < 6 /\ invokes'[i] = BootScript[boot + 1]
             /\ \A j \in 1..Len(invokes') : invokes'[j].name # "set" => j = i
             /\ \A j \in 1..Len(posts) : ~ posts[j].starts
  BY <1>1, <1>4, <1>5 DEF StartKept
<1>6. ASSUME invokes[1].name # "set"
      PROVE  /\ boot < 6 /\ invokes[1] = BootScript[boot + 1]
             /\ \A i \in 1..Len(invokes') : invokes'[i].name = "set"
             /\ \A j \in 1..Len(posts) : ~ posts[j].starts
  <2>1. /\ boot < 6 /\ invokes[1] = BootScript[boot + 1]
        /\ \A j \in 1..Len(invokes) : invokes[j].name # "set" => j = 1
        /\ \A j \in 1..Len(posts) : ~ posts[j].starts
    BY <1>1, <1>6 DEF StartKept
  <2>2. \A i \in 1..Len(invokes') : invokes'[i].name = "set"
    BY <1>1, <1>4, <2>1
  <2> QED BY <2>1, <2>2
<1> QED BY <1>1, <1>2, <1>3, <1>5, <1>6

\* The start of the page is left alone by posts that are not its replies.
LEMMA StartGrown ==
  ASSUME StartKept, Grown(posts, posts', state', {FALSE}), UNCHANGED <<boot, subscriptions>>,
         \A i \in 1..Len(invokes') : invokes'[i].name # "set" =>
           /\ boot < 6 /\ invokes'[i] = BootScript[boot + 1]
           /\ \A j \in 1..Len(invokes') : invokes'[j].name # "set" => j = i
           /\ \A j \in 1..Len(posts) : ~ posts[j].starts
  PROVE  StartKept'
<1>1. \A i \in 1..Len(posts') : posts'[i].starts => i \in 1..Len(posts) /\ posts'[i] = posts[i]
  BY DEF Grown
<1>2. \A i \in 1..Len(posts') : posts'[i].starts =>
       /\ boot < 6
       /\ IF BootScript[boot + 1].name = "get" THEN posts'[i].kind = BootScript[boot + 1].kind
          ELSE posts'[i].kind = "none" /\ BootScript[boot + 1].kind \in subscriptions
       /\ \A j \in 1..Len(posts') : posts'[j].starts => j = i
  BY <1>1 DEF StartKept
<1>3. (boot >= 4 => "page" \in subscriptions) /\ (boot >= 6 => "latency" \in subscriptions)
  BY DEF StartKept
<1>4. \A i \in 1..Len(invokes') : invokes'[i].name # "set" =>
           /\ boot < 6 /\ invokes'[i] = BootScript[boot + 1]
           /\ \A j \in 1..Len(invokes') : invokes'[j].name # "set" => j = i
           /\ \A j \in 1..Len(posts') : ~ posts'[j].starts
  BY <1>1
<1> QED BY <1>2, <1>3, <1>4 DEF StartKept

\* The replies that the start of the page awaits.
LEMMA ReplyInv ==
  ASSUME PageTypes, StartKept, PageAgrees, invokes # <<>>, invokes' = Tail(invokes),
         invokes[1].name # "set", NEW e, posts' = Append(posts, e), e.starts = TRUE,
         IF invokes[1].name = "get"
         THEN e.kind = invokes[1].kind /\ e.value = state[invokes[1].kind]
              /\ UNCHANGED subscriptions
         ELSE e.kind = "none" /\ subscriptions' = subscriptions \cup {invokes[1].kind},
         UNCHANGED <<state, report, project, editor, visible, boot, shown, calls>>
  PROVE  PageTypes' /\ StartKept' /\ PageAgrees'
<1>t. TypeOK /\ state \in States /\ Is(posts) /\ boot \in 0..6
  BY BootSteps DEF PageTypes, TypeOK
<1>1. /\ Is(invokes') /\ \A i \in 1..Len(invokes') : Invoked(invokes'[i])
      /\ Invoked(invokes[1])
      /\ \A k : Choosing(k) /\ ~ Choosing(k)' => invokes[1].name = "set"
      /\ boot < 6 /\ invokes[1] = BootScript[boot + 1]
      /\ \A i \in 1..Len(invokes') : invokes'[i].name = "set"
      /\ \A j \in 1..Len(posts) : ~ posts[j].starts
  BY Taken
<1>2. /\ invokes[1].kind \in Kinds
      /\ invokes[1].name = "get" => e.kind \in Kinds /\ e.value = state[e.kind]
      /\ invokes[1].name # "get" => e.kind = "none"
  BY <1>1 DEF Invoked
<1>3. Grown(posts, posts', state', {TRUE}) /\ Len(posts) + 1 \in 1..Len(posts')
      /\ posts'[Len(posts) + 1] = e
      /\ \A i \in 1..Len(posts') : (i \in 1..Len(posts) /\ posts'[i] = posts[i]) \/ i = Len(posts) + 1
  <2> DEFINE marks == {TRUE}
  <2>1. Grown(posts, posts, state, marks)
    BY <1>t, GrownAtAll
  <2>2. /\ e.starts \in marks /\ e.kind \in Kinds \cup {"none"}
        /\ e.kind = "none" \/ e.value = state[e.kind]
    BY <1>2
  <2> HIDE DEF marks
  <2>3. Grown(posts, Append(posts, e), state, marks)
    BY <2>1, <2>2, GrownBy
  <2>4. /\ \A i \in 1..Len(posts) : posts'[i] = posts[i]
        /\ posts'[Len(posts) + 1] = e /\ Len(posts) + 1 \in 1..Len(posts')
        /\ \A i \in 1..Len(posts') : i \in 1..Len(posts) \/ i = Len(posts) + 1
    BY <1>t, AppendAt
  <2> QED BY <2>3, <2>4 DEF marks
<1>4. TypeOK'
  <2>1. subscriptions' \subseteq Kinds
    BY <1>2, <1>t DEF TypeOK
  <2> QED BY <1>t, <2>1 DEF TypeOK, report, project
<1>5. PageTypes'
  <2>1. Is(posts') /\ \A i \in 1..Len(posts') : Posted(posts'[i])
    BY <1>t, <1>3, GrownTypes
  <2>2. editor
    BY DEF PageTypes
  <2> QED BY <1>1, <1>4, <2>1, <2>2 DEF PageTypes
<1>6. StartKept'
  <2>1. \A i \in 1..Len(posts') : posts'[i].starts => i = Len(posts) + 1
    BY <1>1, <1>3
  <2>2. IF BootScript[boot + 1].name = "get" THEN e.kind = BootScript[boot + 1].kind
        ELSE e.kind = "none" /\ BootScript[boot + 1].kind \in subscriptions'
    BY <1>1
  <2>3. subscriptions \subseteq subscriptions'
    OBVIOUS
  <2>4. (boot >= 4 => "page" \in subscriptions) /\ (boot >= 6 => "latency" \in subscriptions)
    BY DEF StartKept
  <2> QED BY <1>1, <1>3, <2>1, <2>2, <2>3, <2>4 DEF StartKept
<1>7. ASSUME NEW k \in Kinds, NEW read \in Nat, Agrees(k, read) PROVE Agrees(k, read)'
  <2>1. Choosing(k)' \/ ~ Choosing(k)
    BY <1>1
  <2> QED BY <1>3, <1>7, <2>1, AgreesGrown
<1>8. PageAgrees'
  BY <1>7 DEF PageAgrees, Kinds
<1> QED BY <1>5, <1>6, <1>8

LEMMA GetInv ==
  ASSUME PageTypes, StartKept, PageAgrees, Get
  PROVE  PageTypes' /\ StartKept' /\ PageAgrees'
<1> DEFINE e == Message(Head(invokes).kind, state[Head(invokes).kind], TRUE)
<1>1. invokes # <<>> /\ invokes' = Tail(invokes) /\ Head(invokes).name = "get"
      /\ posts' = posts \o <<e>>
      /\ UNCHANGED <<state, report, project, editor, visible, boot, subscriptions, shown, calls>>
  BY DEF Get, Command, HandleNext
<1>2. Head(invokes) = invokes[1] /\ Is(posts)
  BY <1>1, Taken DEF PageTypes
<1>3. e.starts = TRUE /\ e.kind = invokes[1].kind /\ e.value = state[invokes[1].kind]
  BY <1>2 DEF Message
<1> HIDE DEF e
<1>4. posts' = Append(posts, e)
  BY <1>1, <1>2, JoinAt
<1> QED BY <1>1, <1>2, <1>3, <1>4, ReplyInv

LEMMA SubscribeInv ==
  ASSUME PageTypes, StartKept, PageAgrees, Subscribe
  PROVE  PageTypes' /\ StartKept' /\ PageAgrees'
<1> DEFINE e == Message("none", 0, TRUE)
<1>1. invokes # <<>> /\ invokes' = Tail(invokes) /\ Head(invokes).name = "subscribe"
      /\ posts' = posts \o <<e>> /\ subscriptions' = subscriptions \cup {Head(invokes).kind}
      /\ UNCHANGED <<state, report, project, editor, visible, boot, shown, calls>>
  BY DEF Subscribe, Command, HandleNext
<1>2. Head(invokes) = invokes[1] /\ Is(posts)
  BY <1>1, Taken DEF PageTypes
<1>3. e.starts = TRUE /\ e.kind = "none"
  BY DEF Message
<1> HIDE DEF e
<1>4. posts' = Append(posts, e)
  BY <1>1, <1>2, JoinAt
<1> QED BY <1>1, <1>2, <1>3, <1>4, ReplyInv

\* A notification, when the page has asked for those of the kind.
LEMMA NotifyGrows ==
  ASSUME NEW q, NEW marks, FALSE \in marks, NEW k \in Kinds, NEW st, Grown(posts, q, st, marks)
  PROVE  /\ Grown(posts, q \o Notify(st, k), st, marks)
         /\ k \notin subscriptions => q \o Notify(st, k) = q
         /\ k \in subscriptions => Tells(q \o Notify(st, k), k)
         /\ Extends(q, q \o Notify(st, k))
<1> DEFINE e == Notice(st, k)
<1>0. Is(q)
  BY DEF Grown
<1>1. e.starts = FALSE /\ e.kind = k /\ e.value = st[k]
  BY DEF Notice, Message
<1>2. Notify(st, k) = IF k \in subscriptions THEN <<e>> ELSE <<>>
  BY DEF Notify
<1> HIDE DEF e
<1>3. CASE k \in subscriptions
  <2>1. q \o Notify(st, k) = Append(q, e)
    BY <1>0, <1>2, <1>3, JoinAt
  <2>2. e.starts \in marks /\ e.kind \in Kinds \cup {"none"}
        /\ (e.kind = "none" \/ e.value = st[e.kind])
    BY <1>1
  <2>3. /\ Grown(posts, Append(q, e), st, marks)
        /\ Len(q) + 1 \in 1..Len(Append(q, e)) /\ Append(q, e)[Len(q) + 1] = e
        /\ Len(q) + 1 \notin 1..Len(posts)
        /\ \A i \in 1..Len(q) : Append(q, e)[i] = q[i] /\ i \in 1..Len(Append(q, e))
    BY <2>2, GrownBy
  <2>4. Tells(Append(q, e), k) /\ Extends(q, Append(q, e))
    BY <1>1, <2>3 DEF Tells, Extends
  <2> QED BY <1>3, <2>1, <2>3, <2>4
<1>4. CASE k \notin subscriptions
  <2>1. q \o Notify(st, k) = q
    BY <1>0, <1>2, <1>4, JoinAt
  <2>2. Extends(q, q)
    BY DEF Extends
  <2> QED BY <1>4, <2>1, <2>2
<1> QED BY <1>3, <1>4

LEMMA TickInv ==
  ASSUME PageTypes, StartKept, PageAgrees, Tick
  PROVE  PageTypes' /\ StartKept' /\ PageAgrees'
<1> DEFINE e == Notice(state, "gain")
<1>t. TypeOK /\ state \in States /\ Is(posts) /\ editor
  BY DEF PageTypes, TypeOK, Tick
<1>1. posts' = Append(posts, e) /\ "gain" \in Kinds
      /\ UNCHANGED <<state, report, project, editor, visible, boot, subscriptions, invokes,
                     shown, calls>>
  BY DEF Tick, TickValue, Kinds
<1>2. /\ e.starts \in {FALSE} /\ e.kind \in Kinds \cup {"none"}
      /\ e.kind = "none" \/ e.value = state[e.kind]
  BY DEF Notice, Message, Kinds
<1> HIDE DEF e
<1>3. Grown(posts, posts', state', {FALSE})
  <2> DEFINE marks == {FALSE}
  <2>1. Grown(posts, posts, state, marks)
    BY <1>t, GrownAtAll
  <2>2. e.starts \in marks
    BY <1>2
  <2> HIDE DEF marks
  <2>3. Grown(posts, Append(posts, e), state, marks)
    BY <1>2, <2>1, <2>2, GrownBy
  <2> QED BY <1>1, <2>3 DEF marks
<1>4. PageTypes'
  <2>1. Is(posts') /\ \A i \in 1..Len(posts') : Posted(posts'[i])
    BY <1>t, <1>1, <1>3, GrownTypes
  <2>2. TypeOK'
    BY <1>t, <1>1 DEF TypeOK, report, project
  <2> QED BY <1>t, <1>1, <2>1, <2>2 DEF PageTypes
<1>5. StartKept'
  <2>1. \A i \in 1..Len(invokes) : invokes[i].name # "set" =>
           /\ boot < 6 /\ invokes[i] = BootScript[boot + 1]
           /\ \A j \in 1..Len(invokes) : invokes[j].name # "set" => j = i
           /\ \A j \in 1..Len(posts) : ~ posts[j].starts
    BY DEF StartKept
  <2> QED BY <1>1, <1>3, <2>1, StartGrown
<1>6. ASSUME NEW k \in Kinds, NEW read \in Nat, Agrees(k, read) PROVE Agrees(k, read)'
  <2>1. Choosing(k)' = Choosing(k)
    BY <1>1 DEF Choosing
  <2> QED BY <1>1, <1>3, <1>6, <2>1, AgreesGrown
<1>7. PageAgrees'
  BY <1>6 DEF PageAgrees, Kinds
<1> QED BY <1>4, <1>5, <1>7

\* A command of the page that assigns one part of the state.
LEMMA SetInv ==
  ASSUME PageTypes, StartKept, PageAgrees, Set
  PROVE  PageTypes' /\ StartKept' /\ PageAgrees'
<1> DEFINE kind  == Head(invokes).kind
           value == Head(invokes).value
           e     == Message(kind, value, FALSE)
           reply == IF kind = "gain" THEN <<>> ELSE <<e>>
           marks == {FALSE}
<1>t. TypeOK /\ state \in States /\ Is(posts)
  BY DEF PageTypes, TypeOK
<1>1. /\ invokes # <<>> /\ invokes' = Tail(invokes) /\ Head(invokes).name = "set"
      /\ state' = [state EXCEPT ![kind] = value]
      /\ posts' = posts \o (Notify(state', kind) \o reply)
      /\ IF kind = "latency"
         THEN /\ restart_requested' = (restart_requested \/ value # active_frames)
              /\ dirty' = (dirty \/ value # state.latency)
         ELSE UNCHANGED <<restart_requested, dirty>>
      /\ UNCHANGED <<active_frames, processor, saved, editor, visible, boot, subscriptions,
                     shown, calls>>
  BY DEF Set, Command, HandleNext, RequestRestart, MarkDirty
<1>2. /\ Is(invokes') /\ \A i \in 1..Len(invokes') : Invoked(invokes'[i])
      /\ Head(invokes) = invokes[1] /\ Invoked(invokes[1])
      /\ \A k : Choosing(k) /\ ~ Choosing(k)' => invokes[1].kind = k
      /\ \A i \in 1..Len(invokes') : invokes'[i].name # "set" =>
           /\ boot < 6 /\ invokes'[i] = BootScript[boot + 1]
           /\ \A j \in 1..Len(invokes') : invokes'[j].name # "set" => j = i
           /\ \A j \in 1..Len(posts) : ~ posts[j].starts
  BY <1>1, Taken
<1>3. kind \in Kinds /\ value \in Value(kind) /\ kind = invokes[1].kind
  BY <1>1, <1>2 DEF Invoked
<1>4. e.kind = kind /\ e.value = value /\ e.starts = FALSE
  BY DEF Message
<1>r. reply = IF kind = "gain" THEN <<>> ELSE <<e>>
  OBVIOUS
<1> HIDE DEF kind, value, e, reply
<1>5. /\ state' \in States /\ state'[kind] = value
      /\ \A j \in Kinds : j # kind => state'[j] = state[j]
  <2> DEFINE w == [state EXCEPT ![kind] = value]
  <2>1. w \in States /\ w[kind] = value /\ \A j \in Kinds : j # kind => w[j] = state[j]
    BY <1>t, <1>3, Assign
  <2>2. state' = w
    BY <1>1
  <2> HIDE DEF w
  <2> QED BY <2>1, <2>2
<1>m. FALSE \in marks
  OBVIOUS
<1> HIDE DEF marks
<1>6. /\ Grown(posts, posts', state', marks)
      /\ kind # "gain" => Tells(posts', kind)
  <2> DEFINE q == posts \o Notify(state', kind)
  <2>1. Grown(posts, posts, state', marks)
    BY <1>t, GrownAtAll
  <2>2. Grown(posts, q, state', marks)
    BY <1>3, <1>m, <2>1, NotifyGrows
  <2>3. CASE kind = "gain"
    <3>1. Notify(state', kind) \o reply = Notify(state', kind)
      <4>1. Notify(state', kind) = <<>> \/ Notify(state', kind) = <<Notice(state', kind)>>
        BY DEF Notify
      <4>2. <<>> \o <<>> = <<>> /\ \A x : <<x>> \o <<>> = <<x>>
        OBVIOUS
      <4> QED BY <1>r, <2>3, <4>1, <4>2
    <3> QED BY <1>1, <2>2, <2>3, <3>1
  <2>4. CASE kind # "gain"
    <3>1. posts' = Append(q, e)
      <4> DEFINE a == Notice(state', kind)
      <4>1. Notify(state', kind) = <<>> \/ Notify(state', kind) = <<a>>
        BY DEF Notify
      <4> HIDE DEF a
      <4>2. reply = <<e>>
        BY <1>r, <2>4
      <4>3. CASE Notify(state', kind) = <<>>
        <5>1. posts \o (<<>> \o <<e>>) = Append(posts, e) /\ posts \o <<>> = posts
          BY <1>t, JoinAt
        <5> QED BY <1>1, <4>2, <4>3, <5>1
      <4>4. CASE Notify(state', kind) = <<a>>
        <5>1. posts \o (<<a>> \o <<e>>) = Append(Append(posts, a), e)
              /\ posts \o <<a>> = Append(posts, a)
          BY <1>t, JoinAt
        <5> QED BY <1>1, <4>2, <4>4, <5>1
      <4> QED BY <4>1, <4>3, <4>4
    <3> HIDE DEF q
    <3>2. e.starts \in marks /\ e.kind \in Kinds \cup {"none"} /\ e.value = state'[e.kind]
      BY <1>3, <1>4, <1>5, <1>m
    <3>3. /\ Grown(posts, Append(q, e), state', marks)
          /\ Len(q) + 1 \in 1..Len(Append(q, e)) /\ Append(q, e)[Len(q) + 1] = e
          /\ Len(q) + 1 \notin 1..Len(posts)
      BY <2>2, <3>2, GrownBy
    <3> QED BY <1>4, <3>1, <3>3 DEF Tells
  <2> QED BY <2>3, <2>4
<1>7. TypeOK'
  <2>1. kind = "latency" => value \in Frames
    BY <1>3 DEF Value, Kinds
  <2>2. restart_requested' \in BOOLEAN /\ dirty' \in BOOLEAN
    BY <1>1, <1>t DEF TypeOK
  <2> QED BY <1>t, <1>1, <1>5, <2>2 DEF TypeOK
<1>8. PageTypes'
  <2>1. editor
    BY <1>1 DEF PageTypes
  <2>2. Is(posts') /\ \A i \in 1..Len(posts') : Posted(posts'[i])
    <3>1. marks \in SUBSET BOOLEAN
      BY DEF marks
    <3> QED BY <1>5, <1>6, <3>1, GrownTypes
  <2> QED BY <1>1, <1>2, <1>7, <2>1, <2>2 DEF PageTypes
<1>9. StartKept'
  <2>1. Grown(posts, posts', state', {FALSE})
    BY <1>6 DEF marks
  <2> QED BY <1>1, <1>2, <2>1, StartGrown
<1>10. ASSUME NEW k \in Kinds \ {"gain"}, NEW read \in Nat, Agrees(k, read)
       PROVE  Agrees(k, read)'
  <2>1. state'[k] = state[k] \/ Tells(posts', k)
    BY <1>5, <1>6
  <2>2. Choosing(k)' \/ ~ Choosing(k) \/ Posting(k)'
    BY <1>2, <1>3, <1>6 DEF Posting, Tells
  <2> QED BY <1>1, <1>6, <1>10, <2>1, <2>2, AgreesGrown
<1>11. PageAgrees'
  BY <1>10 DEF PageAgrees, Kinds
<1> QED BY <1>8, <1>9, <1>11

\* restore_state: a state is taken as a whole, and told, or not at all.
LEMMA LoadInv ==
  ASSUME PageTypes, StartKept, PageAgrees, Load
  PROVE  PageTypes' /\ StartKept' /\ PageAgrees'
<1>t. /\ TypeOK /\ state \in States /\ Is(posts) /\ calls' \in 0..MaxCalls
  BY BoundAssumption DEF PageTypes, TypeOK, Load, Counted
<1>k. "gain" \in Kinds /\ "page" \in Kinds /\ "latency" \in Kinds
  BY DEF Kinds
<1>0. /\ UNCHANGED <<active_frames, processor, editor, visible, boot, subscriptions,
                     invokes, shown>>
      /\ LoadWhileOpening \/ ~ editor \/ boot = 6
  BY BootSteps DEF Load, Started
<1>1. PICK blob \in SavedStates :
       IF Loadable(blob)
       THEN /\ state' = [blob EXCEPT !.gain = clamp_gain(@)]
            /\ RequestRestart(blob.latency)
            /\ posts' = posts \o Notify(state', "gain") \o Notify(state', "page")
                          \o Notify(state', "latency")
            /\ saved' = state' /\ dirty' = FALSE
       ELSE /\ state' = Rejected(blob)
            /\ UNCHANGED <<restart_requested, posts, project>>
  BY DEF Load
<1>2. CASE ~ Loadable(blob)
  <2>1. UNCHANGED <<state, report, project, gui>>
    BY <1>0, <1>1, <1>2 DEF Rejected, report, gui
  <2>2. TypeOK'
    BY <1>t, <2>1 DEF TypeOK, report, project, gui
  <2> QED BY <2>1, <2>2, GuiAlone
<1>3. CASE Loadable(blob)
  <2> DEFINE marks == {FALSE}
             p1 == posts \o Notify(state', "gain")
             p2 == p1 \o Notify(state', "page")
  <2>m. FALSE \in marks
    OBVIOUS
  <2> HIDE DEF marks
  <2>1. state' \in States /\ saved' = state' /\ dirty' = FALSE
        /\ posts' = p2 \o Notify(state', "latency") /\ RequestRestart(blob.latency)
    <3>1. blob.latency \in Frames /\ blob.page \in Pages /\ blob.gain \in 0..3
          /\ blob = [gain |-> blob.gain, page |-> blob.page, latency |-> blob.latency]
      BY <1>3 DEF SavedStates, Loadable, Pages
    <3>2. clamp_gain(blob.gain) \in Levels
      BY <3>1 DEF clamp_gain, Levels
    <3>3. [blob EXCEPT !.gain = clamp_gain(@)] \in States
      BY <3>1, <3>2 DEF States
    <3> QED BY <1>1, <1>3, <3>3
  <2>2. Grown(posts, posts, state', marks)
    BY <1>t, GrownAtAll
  <2>n. ASSUME NEW k \in Kinds, NEW q, Grown(posts, q, state', marks)
        PROVE  /\ Grown(posts, q \o Notify(state', k), state', marks)
               /\ k \notin subscriptions => q \o Notify(state', k) = q
               /\ k \in subscriptions => Tells(q \o Notify(state', k), k)
               /\ Extends(q, q \o Notify(state', k))
    <3>1. Grown(posts, q \o Notify(state', k), state', marks)
      BY <2>m, <2>n, NotifyGrows
    <3>2. k \notin subscriptions => q \o Notify(state', k) = q
      BY <2>m, <2>n, NotifyGrows
    <3>3. k \in subscriptions => Tells(q \o Notify(state', k), k)
      BY <2>m, <2>n, NotifyGrows
    <3>4. Extends(q, q \o Notify(state', k))
      BY <2>m, <2>n, NotifyGrows
    <3> QED BY <3>1, <3>2, <3>3, <3>4
  <2>3. Grown(posts, p1, state', marks) /\ ("gain" \notin subscriptions => p1 = posts)
    <3>1. Grown(posts, posts \o Notify(state', "gain"), state', marks)
      BY <1>k, <2>n, <2>2
    <3>2. "gain" \notin subscriptions => posts \o Notify(state', "gain") = posts
      BY <1>k, <2>n, <2>2
    <3> QED BY <3>1, <3>2
  <2> HIDE DEF p1
  <2>4. /\ Grown(posts, p2, state', marks) /\ ("page" \notin subscriptions => p2 = p1)
        /\ "page" \in subscriptions => Tells(p2, "page")
    <3>1. Grown(posts, p1 \o Notify(state', "page"), state', marks)
      BY <1>k, <2>n, <2>3
    <3>2. "page" \notin subscriptions => p1 \o Notify(state', "page") = p1
      BY <1>k, <2>n, <2>3
    <3>3. "page" \in subscriptions => Tells(p1 \o Notify(state', "page"), "page")
      BY <1>k, <2>n, <2>3
    <3> QED BY <3>1, <3>2, <3>3
  <2> HIDE DEF p2
  <2>5. /\ Grown(posts, posts', state', marks)
        /\ "latency" \notin subscriptions => posts' = p2
        /\ "latency" \in subscriptions => Tells(posts', "latency")
        /\ Extends(p2, posts')
    <3> DEFINE p3 == p2 \o Notify(state', "latency")
    <3>1. Grown(posts, p3, state', marks)
      BY <1>k, <2>n, <2>4
    <3>2. "latency" \notin subscriptions => p3 = p2
      BY <1>k, <2>n, <2>4
    <3>3. "latency" \in subscriptions => Tells(p3, "latency")
      BY <1>k, <2>n, <2>4
    <3>4. Extends(p2, p3)
      BY <1>k, <2>n, <2>4
    <3>5. posts' = p3
      BY <2>1
    <3> HIDE DEF p3
    <3> QED BY <3>1, <3>2, <3>3, <3>4, <3>5
  <2>6. TypeOK'
    <3>1. restart_requested' \in BOOLEAN
      BY <1>t, <2>1 DEF RequestRestart, TypeOK
    <3> QED BY <1>t, <1>0, <2>1, <3>1 DEF TypeOK
  <2>7. PageTypes'
    <3>1. Is(posts') /\ \A i \in 1..Len(posts') : Posted(posts'[i])
      <4>1. marks \in SUBSET BOOLEAN
        BY DEF marks
      <4> QED BY <2>1, <2>5, <4>1, GrownTypes
    <3>2. ~ editor => posts' = <<>>
      BY <2>3, <2>4, <2>5 DEF PageTypes
    <3> QED BY <1>0, <2>6, <3>1, <3>2 DEF PageTypes
  <2>8. StartKept'
    <3>1. Grown(posts, posts', state', {FALSE})
      BY <2>5 DEF marks
    <3>2. \A i \in 1..Len(invokes) : invokes[i].name # "set" =>
             /\ boot < 6 /\ invokes[i] = BootScript[boot + 1]
             /\ \A j \in 1..Len(invokes) : invokes[j].name # "set" => j = i
             /\ \A j \in 1..Len(posts) : ~ posts[j].starts
      BY DEF StartKept
    <3> QED BY <1>0, <3>1, <3>2, StartGrown
  <2>9. PageAgrees'
    <3>1. CASE LoadWhileOpening
      BY <3>1, LoadAssumption DEF PageAgrees
    <3>2. CASE ~ editor
      <4>1. posts' = <<>> /\ Len(posts') = 0
        BY <2>3, <2>4, <2>5, <3>2 DEF PageTypes
      <4> QED BY <1>0, <3>2, <4>1 DEF PageAgrees, Agrees, LastSays
    <3>3. CASE ~ LoadWhileOpening /\ boot = 6
      <4>1. "page" \in subscriptions /\ "latency" \in subscriptions
        BY <3>3 DEF StartKept
      <4>2. \A k \in {"page", "latency"} : Tells(posts', k)
        <5>1. Tells(p2, "page") => Tells(posts', "page")
          BY <2>5 DEF Tells, Extends
        <5> QED BY <2>4, <2>5, <4>1, <5>1
      <4>3. ASSUME NEW k \in {"page", "latency"}, NEW read \in Nat, Agrees(k, read)
            PROVE  Agrees(k, read)'
        <5>1. Choosing(k)' = Choosing(k) /\ k \in Kinds
          BY <1>k, <1>0 DEF Choosing
        <5> QED BY <1>0, <2>5, <4>2, <4>3, <5>1, AgreesGrown
      <4> QED BY <3>3, <4>3 DEF PageAgrees
    <3> QED BY <1>0, <3>1, <3>2, <3>3
  <2> QED BY <2>7, <2>8, <2>9
<1> QED BY <1>2, <1>3

-----------------------------------------------------------------------------
(* The report to the host and its project. *)

LEMMA ReportStep ==
  ASSUME PageTypes, StartKept, ReportFollows, UnsavedDelayIsDirty, [Next]_vars
  PROVE  ReportFollows' /\ UnsavedDelayIsDirty'
<1> USE DEF ReportFollows, UnsavedDelayIsDirty
<1>t. state \in States /\ (Counted => calls' \in Nat)
  BY DEF PageTypes, TypeOK, Counted
<1>1. CASE UNCHANGED <<state, report, project>>
  BY <1>1 DEF report, project
<1>2. CASE Open \/ Input \/ Deliver \/ Get \/ Subscribe \/ Tick \/ Show \/ Hide \/ Close
  BY <1>1, <1>2 DEF Open, Input, SetEditorPage, ApplyGain, SelectLatency, Choose, Deliver, Get,
                    Subscribe, Tick, Show, Hide, Close
<1>3. CASE Set
  <2> DEFINE kind == Head(invokes).kind
             value == Head(invokes).value
             w == [state EXCEPT ![kind] = value]
  <2>1. /\ state' = w
        /\ IF kind = "latency"
           THEN /\ restart_requested' = (restart_requested \/ value # active_frames)
                /\ dirty' = (dirty \/ value # state.latency)
           ELSE UNCHANGED <<restart_requested, dirty>>
        /\ UNCHANGED <<active_frames, processor, saved>>
    BY <1>3 DEF Set, RequestRestart, MarkDirty
  <2>2. w.latency = IF kind = "latency" THEN value ELSE state.latency
    BY <1>t DEF States
  <2> HIDE DEF w, kind, value
  <2>3. CASE kind = "latency"
    BY <2>1, <2>2, <2>3
  <2>4. CASE kind # "latency"
    BY <2>1, <2>2, <2>4
  <2> QED BY <2>3, <2>4
<1>4. CASE Load
  <2>1. PICK blob \in SavedStates :
          IF Loadable(blob)
          THEN /\ state' = [blob EXCEPT !.gain = clamp_gain(@)]
               /\ RequestRestart(blob.latency)
               /\ saved' = state' /\ dirty' = FALSE
          ELSE /\ state' = Rejected(blob)
               /\ UNCHANGED <<restart_requested, posts, project>>
    BY <1>4 DEF Load
  <2>2. UNCHANGED <<active_frames, processor>>
    BY <1>4 DEF Load
  <2>3. CASE Loadable(blob)
    <3>1. [blob EXCEPT !.gain = clamp_gain(@)].latency = blob.latency
      BY DEF SavedStates
    <3> QED BY <2>1, <2>2, <2>3, <3>1 DEF RequestRestart
  <2>4. CASE ~ Loadable(blob)
    BY <1>1, <2>1, <2>2, <2>4 DEF Rejected, report, project
  <2> QED BY <2>3, <2>4
<1>5. CASE Activate \/ Deactivate \/ Save
  BY <1>5 DEF Activate, Deactivate, Save, report, project
<1>6. CASE Automate
  <2>1. PICK g \in Levels : state' = [state EXCEPT !.gain = g]
    BY <1>6 DEF Automate
  <2>2. [state EXCEPT !.gain = g].latency = state.latency
    BY <1>t DEF States
  <2> QED BY <1>6, <2>1, <2>2 DEF Automate, report, project
<1>7. CASE UNCHANGED vars
  BY <1>1, <1>7 DEF vars
<1> QED BY <1>2, <1>3, <1>4, <1>5, <1>6, <1>7 DEF Next, Host, Handle

LEMMA PageInit == Init => PageInv
<1> SUFFICES ASSUME Init PROVE PageInv
  OBVIOUS
<1> USE DEF Init
<1>1. Fresh \in States
  BY FramesAssumption DEF Fresh, States, Levels, Pages
<1>2. TypeOK
  <2>1. 0 \in Frames /\ 0 \in 0..Len(BootScript) /\ 0 \in 0..MaxCalls
    BY BootSteps, FramesAssumption, BoundAssumption
  <2> QED BY <1>1, <2>1 DEF TypeOK
<1>3. <<>> \in Seq({}) /\ Len(<<>>) = 0
  OBVIOUS
<1>4. PageTypes
  BY <1>2, <1>3 DEF PageTypes, Is
<1>5. StartKept
  BY <1>3 DEF StartKept
<1>6. PageAgrees
  BY <1>3 DEF PageAgrees, Agrees, LastSays
<1>7. ReportFollows /\ UnsavedDelayIsDirty
  BY DEF ReportFollows, UnsavedDelayIsDirty
<1> QED BY <1>4, <1>5, <1>6, <1>7 DEF PageInv

LEMMA PageStep == PageInv /\ [Next]_vars => PageInv'
<1> SUFFICES ASSUME PageInv, [Next]_vars PROVE PageInv'
  OBVIOUS
<1>1. PageTypes /\ StartKept /\ PageAgrees
  BY DEF PageInv
<1>2. CASE UNCHANGED vars
  <2>1. TypeOK' /\ UNCHANGED <<state, gui>>
    BY <1>1, <1>2 DEF PageTypes, TypeOK, vars, report, project, gui
  <2> QED BY <1>1, <2>1, GuiAlone, ReportStep DEF PageInv
<1>3. CASE Next
  <2>1. PageTypes' /\ StartKept' /\ PageAgrees'
    BY <1>1, <1>3, WindowStepInv, InputInv, DeliverInv, GetInv, SubscribeInv, SetInv, TickInv,
       HostStepInv, LoadInv DEF Next, Host, Handle
  <2> QED BY <2>1, ReportStep DEF PageInv
<1> QED BY <1>2, <1>3

\* What the page displays once nothing is on its way.
LEMMA PageShows == PageInv /\ ~ LoadWhileOpening => PageShowsState
<1> SUFFICES ASSUME PageInv, ~ LoadWhileOpening,
                    editor, Started, invokes = <<>>, posts = <<>>
             PROVE  shown.page = state.page /\ shown.latency = state.latency
  BY DEF PageShowsState
<1>1. boot = 6 /\ Len(invokes) = 0 /\ Len(posts) = 0
  BY BootSteps DEF Started
<1>2. shown["page"] = state["page"] /\ shown["latency"] = state["latency"]
  BY <1>1 DEF PageInv, PageAgrees, Agrees, Posting, Choosing
<1> QED BY <1>2

THEOREM PageInductive == Spec => []PageInv
BY PageInit, PageStep, PTL DEF Spec

-----------------------------------------------------------------------------
(* The controller of the WebView. *)

\* Where a creation has no WebView yet, and where it has one no session shows.
Making == {"inputs", "quiet", "inputs again", "convert", "factory"}
Made   == {"finish", "latest", "install"}

\* What is posted to the run loop.
Removed(q, id) == \E i \in 1..Len(q) : q[i] = Gui!Remove(id)
Creating(q, g) == \E i \in 1..Len(q) : q[i].kind = "create" /\ q[i].generation = g
ReleasesAt(q) == {i \in 1..Len(q) : q[i] = Gui!ReleasePost}

\* One creation at most, behind the removal of every WebView there is.
QueueKept(q, ids, next) ==
  /\ q \in Seq(Gui!Posts)
  /\ \A i \in 1..Len(q) : q[i].kind = "remove" => q[i].id < next
  /\ \A i \in 1..Len(q) : q[i].kind = "create" =>
       /\ \A j \in 1..Len(q) : q[j].kind = "create" => j = i
       /\ \A id \in ids : \E j \in 1..(i - 1) : q[j] = Gui!Remove(id)

\* The flag of the creation in flight is up from its post to its end.
FlightKept ==
  /\ \A g : Creating(queue, g) => is_creating_runtime /\ creating_generation = g
  /\ job.at \in Making \cup {"finish"} =>
       /\ is_creating_runtime /\ creating_generation = job.generation
       /\ \A g : ~ Creating(queue, g)

RuntimesKept ==
  /\ \A a, b \in DOMAIN runtimes : a = b
  /\ \A id \in DOMAIN runtimes : id < next_id
  /\ job.at \in Making => DOMAIN runtimes = {}
  /\ job.at \in Made =>
       /\ DOMAIN runtimes = {job.id} /\ runtimes[job.id].generation = job.generation
       /\ ~ Removed(queue, job.id)
  /\ job.leased <=> job.at = "factory"
  /\ \A id \in DOMAIN runtimes :
       \/ session # NoSession /\ session.handle = id
       \/ job.at \in Made /\ job.id = id
       \/ Removed(queue, id)

Leased(s) == s # NoSession /\ s.parent_lease # NoThread

\* A session is on one thread, the owner's when it has a parent; the WebView it has is its
\* own, shown as it asks, and not on its way out.
SessionKept ==
  /\ session # NoSession =>
       /\ gui_thread # NoThread
       /\ session.parent = NoParent <=> session.parent_lease = NoThread
  /\ Leased(session) => session.parent_lease = gui_thread /\ owner = session.parent_lease
  /\ session # NoSession /\ session.handle # 0 =>
       /\ session.parent_lease # NoThread /\ job.at \notin Made
       /\ session.handle \in DOMAIN runtimes /\ ~ Removed(queue, session.handle)
       /\ runtimes[session.handle].generation = session.generation
       /\ runtimes[session.handle].shown = session.visible
       /\ runtimes[session.handle].scale = session.scale
  /\ call.at # "idle" => call.thread # NoThread
  /\ call.op = "create" => gui_thread # NoThread
  /\ call.at = "open" => call.op = "create" /\ session = NoSession

\* A creation is of a session with a parent, or of one that is gone.
GenerationsKept ==
  /\ session # NoSession => session.generation <= generation
  /\ pending_creation_generation <= generation
  /\ job.at # "idle" => job.generation <= generation
  /\ \A g : Creating(queue, g) => g <= generation
  /\ session # NoSession /\ ~ Leased(session) =>
       /\ job.at \in Making \cup Made => job.generation # session.generation
       /\ ~ Creating(queue, session.generation)

\* The creation runs on the owner's thread, for a parent; nothing asks for another look in between.
ThreadsKept ==
  /\ job.at # "idle" => job.thread # NoThread
  /\ job.at \in Making => job.parent \in Parents
  /\ job.at \in Made \cup {"factory"} => owner = job.thread
  /\ job.at = "install" /\ Gui!Current =>
       /\ runtimes[job.id].shown = session.visible
       /\ runtimes[job.id].scale = session.scale

Jobs == [at : Gui!JobSteps, thread : Threads \cup {NoThread}, generation : Gui!Generations,
         parent : Parents \cup {NoParent}, id : Gui!Ids \cup {0}, scale : Scales \cup {0},
         leased : BOOLEAN]

LeaseSum(s, leased, ids, q) ==
  (IF Leased(s) THEN 1 ELSE 0) + (IF leased THEN 1 ELSE 0) + Cardinality(ids)
    + Cardinality(ReleasesAt(q))

LeasesKept ==
  /\ ref_count = LeaseSum(session, job.leased, DOMAIN runtimes, queue)
  /\ owner # NoThread <=> ref_count > 0

GuiInv ==
  /\ Gui!TypeOK /\ QueueKept(queue, DOMAIN runtimes, next_id)
  /\ FlightKept /\ RuntimesKept /\ SessionKept /\ GenerationsKept /\ ThreadsKept /\ LeasesKept
-----------------------------------------------------------------------------
(* Queues of posts. *)

LEMMA PostShapes ==
  /\ \A e \in Gui!Posts : e.kind \in {"create", "remove", "release"}
  /\ \A e \in Gui!Posts : e.kind = "create" => e.generation \in Gui!Generations /\ e.parent \in Parents
  /\ \A e \in Gui!Posts : e.kind = "remove" => e = Gui!Remove(e.id) /\ e.id \in Gui!Ids
  /\ \A e \in Gui!Posts : e.kind = "release" <=> e = Gui!ReleasePost
  /\ \A id : Gui!Remove(id).kind = "remove" /\ Gui!Remove(id).id = id
  /\ Gui!ReleasePost.kind = "release" /\ Gui!ReleasePost \in Gui!Posts
  /\ \A id \in Gui!Ids : Gui!Remove(id) \in Gui!Posts
  /\ \A g \in Gui!Generations, p \in Parents :
       /\ Gui!Create(g, p) \in Gui!Posts /\ Gui!Create(g, p).kind = "create"
       /\ Gui!Create(g, p).generation = g
<1> USE DEF Gui!Posts, Gui!Remove, Gui!ReleasePost, Gui!Create
<1>1. \A e \in Gui!Posts :
        \/ e \in [kind : {"create"}, generation : Gui!Generations, parent : Parents]
        \/ e \in [kind : {"remove"}, id : Gui!Ids]
        \/ e = Gui!ReleasePost
  OBVIOUS
<1>2. \A e \in [kind : {"create"}, generation : Gui!Generations, parent : Parents] :
        e.kind = "create" /\ e.generation \in Gui!Generations /\ e.parent \in Parents
  OBVIOUS
<1>3. \A e \in [kind : {"remove"}, id : Gui!Ids] :
        e.kind = "remove" /\ e.id \in Gui!Ids /\ e = Gui!Remove(e.id)
  OBVIOUS
<1>4. /\ \A id : Gui!Remove(id).kind = "remove" /\ Gui!Remove(id).id = id
      /\ Gui!ReleasePost.kind = "release" /\ Gui!ReleasePost \in Gui!Posts
      /\ \A id \in Gui!Ids : Gui!Remove(id) \in Gui!Posts
      /\ \A g \in Gui!Generations, p \in Parents :
           /\ Gui!Create(g, p) \in Gui!Posts /\ Gui!Create(g, p).kind = "create"
           /\ Gui!Create(g, p).generation = g
  OBVIOUS
<1> QED BY ONLY <1>1, <1>2, <1>3, <1>4

LEMMA PostAt ==
  ASSUME NEW q \in Seq(Gui!Posts), NEW e \in Gui!Posts
  PROVE  /\ Append(q, e) \in Seq(Gui!Posts) /\ Len(Append(q, e)) = Len(q) + 1 /\ Len(q) \in Nat
         /\ \A i \in 1..Len(q) : Append(q, e)[i] = q[i] /\ q[i] \in Gui!Posts
                                   /\ i \in 1..Len(Append(q, e))
         /\ Append(q, e)[Len(q) + 1] = e /\ Len(q) + 1 \in 1..Len(Append(q, e))
         /\ \A i \in 1..Len(Append(q, e)) : i \in 1..Len(q) \/ i = Len(q) + 1
<1> DEFINE P == Gui!Posts
<1>1. q \in Seq(P) /\ e \in P
  OBVIOUS
<1> HIDE DEF P
<1>2. Append(q, e) \in Seq(P) /\ Len(Append(q, e)) = Len(q) + 1 /\ Len(q) \in Nat
  BY <1>1
<1>3. /\ \A i \in 1..Len(q) : Append(q, e)[i] = q[i] /\ q[i] \in P
      /\ Append(q, e)[Len(q) + 1] = e
  BY <1>1
<1>4. /\ \A i \in 1..Len(q) : i \in 1..(Len(q) + 1)
      /\ Len(q) + 1 \in 1..(Len(q) + 1)
      /\ \A i \in 1..(Len(q) + 1) : i \in 1..Len(q) \/ i = Len(q) + 1
  BY <1>2
<1> QED BY <1>2, <1>3, <1>4 DEF P

LEMMA PostedIs ==
  ASSUME NEW q \in Seq(Gui!Posts), NEW e \in Gui!Posts
  PROVE  /\ \A id : Removed(Append(q, e), id) <=> Removed(q, id) \/ e = Gui!Remove(id)
         /\ \A g : Creating(Append(q, e), g)
                     <=> Creating(q, g) \/ (e.kind = "create" /\ e.generation = g)
<1> DEFINE u == Append(q, e)
           n == Len(q) + 1
<1>1. /\ \A i \in 1..Len(q) : u[i] = q[i] /\ i \in 1..Len(u)
      /\ u[n] = e /\ n \in 1..Len(u)
      /\ \A i \in 1..Len(u) : i \in 1..Len(q) \/ i = n
  BY PostAt
<1> HIDE DEF u, n
<1>2. \A id : Removed(u, id) <=> Removed(q, id) \/ e = Gui!Remove(id)
  BY <1>1 DEF Removed
<1>3. \A g : Creating(u, g) <=> Creating(q, g) \/ (e.kind = "create" /\ e.generation = g)
  BY <1>1 DEF Creating
<1> QED BY <1>2, <1>3 DEF u

LEMMA ReleasesFinite ==
  ASSUME NEW q \in Seq(Gui!Posts)
  PROVE  IsFiniteSet(ReleasesAt(q)) /\ Cardinality(ReleasesAt(q)) \in Nat
<1>1. Len(q) \in Nat
  OBVIOUS
<1>2. IsFiniteSet(1..Len(q)) /\ ReleasesAt(q) \in SUBSET (1..Len(q))
  BY <1>1, FS_Interval DEF ReleasesAt
<1> QED BY <1>2, FS_Subset, FS_CardinalityType

LEMMA PostCounts ==
  ASSUME NEW q \in Seq(Gui!Posts), NEW e \in Gui!Posts
  PROVE  Cardinality(ReleasesAt(Append(q, e)))
           = Cardinality(ReleasesAt(q)) + IF e = Gui!ReleasePost THEN 1 ELSE 0
<1> DEFINE u == Append(q, e)
           n == Len(q) + 1
<1>1. /\ \A i \in 1..Len(q) : u[i] = q[i] /\ i \in 1..Len(u)
      /\ u[n] = e /\ n \in 1..Len(u)
      /\ \A i \in 1..Len(u) : i \in 1..Len(q) \/ i = n
  BY PostAt
<1>2. n \notin 1..Len(q)
  BY PostAt
<1> HIDE DEF u, n
<1>3. CASE e = Gui!ReleasePost
  <2>1. ReleasesAt(u) = ReleasesAt(q) \cup {n} /\ n \notin ReleasesAt(q)
    BY <1>1, <1>2, <1>3 DEF ReleasesAt
  <2> QED BY <1>3, <2>1, FS_AddElement, ReleasesFinite DEF u
<1>4. CASE e # Gui!ReleasePost
  <2>1. ReleasesAt(u) = ReleasesAt(q)
    BY <1>1, <1>2, <1>4 DEF ReleasesAt
  <2> QED BY <1>4, <2>1, ReleasesFinite DEF u
<1> QED BY <1>3, <1>4

LEMMA TakeAt ==
  ASSUME NEW q \in Seq(Gui!Posts), q # <<>>
  PROVE  /\ Tail(q) \in Seq(Gui!Posts) /\ Len(q) \in Nat /\ Len(Tail(q)) = Len(q) - 1
         /\ Head(q) = q[1] /\ q[1] \in Gui!Posts /\ 1 \in 1..Len(q)
         /\ \A i \in 1..Len(Tail(q)) : Tail(q)[i] = q[i + 1] /\ i + 1 \in 2..Len(q)
         /\ \A i \in 1..Len(q) : i # 1 => i - 1 \in 1..Len(Tail(q)) /\ Tail(q)[i - 1] = q[i]
         /\ \A i \in 1..Len(q) : q[i] \in Gui!Posts
<1> DEFINE P == Gui!Posts
<1>1. q \in Seq(P) /\ q # <<>>
  OBVIOUS
<1> HIDE DEF P
<1>2. /\ Tail(q) \in Seq(P) /\ Len(q) \in Nat /\ Len(Tail(q)) = Len(q) - 1 /\ Len(q) >= 1
      /\ Head(q) = q[1] /\ \A i \in 1..Len(q) : q[i] \in P
      /\ \A i \in 1..Len(Tail(q)) : Tail(q)[i] = q[i + 1]
  BY <1>1
<1> DEFINE u == Tail(q)
<1> HIDE DEF u
<1>3. /\ \A i \in 1..(Len(q) - 1) : i + 1 \in 2..Len(q)
      /\ \A i \in 1..Len(q) : i # 1 => i - 1 \in 1..(Len(q) - 1) /\ (i - 1) + 1 = i
      /\ 1 \in 1..Len(q)
  BY <1>2
<1> QED BY <1>2, <1>3 DEF P

LEMMA TakenIs ==
  ASSUME NEW q \in Seq(Gui!Posts), q # <<>>
  PROVE  /\ \A id : Removed(q, id) <=> Removed(Tail(q), id) \/ Head(q) = Gui!Remove(id)
         /\ \A g : Creating(q, g) <=> Creating(Tail(q), g)
                                        \/ (Head(q).kind = "create" /\ Head(q).generation = g)
<1> DEFINE u == Tail(q)
<1>1. /\ Head(q) = q[1] /\ 1 \in 1..Len(q)
      /\ \A i \in 1..Len(u) : u[i] = q[i + 1] /\ i + 1 \in 1..Len(q)
      /\ \A i \in 1..Len(q) : i # 1 => i - 1 \in 1..Len(u) /\ u[i - 1] = q[i]
  <2>1. \A i \in 2..Len(q) : i \in 1..Len(q)
    BY TakeAt
  <2> QED BY <2>1, TakeAt
<1> HIDE DEF u
<1>2. \A id : Removed(q, id) <=> Removed(u, id) \/ Head(q) = Gui!Remove(id)
  BY ZenonT(40), <1>1 DEF Removed
<1>3. \A g : Creating(q, g) <=> Creating(u, g) \/ (Head(q).kind = "create" /\ Head(q).generation = g)
  BY <1>1 DEF Creating
<1> QED BY <1>2, <1>3 DEF u

LEMMA TakeCounts ==
  ASSUME NEW q \in Seq(Gui!Posts), q # <<>>
  PROVE  Cardinality(ReleasesAt(q))
           = Cardinality(ReleasesAt(Tail(q))) + IF Head(q) = Gui!ReleasePost THEN 1 ELSE 0
<1> DEFINE u == Tail(q)
           R == ReleasesAt(q)
           S == ReleasesAt(u)
           f == [i \in S |-> i + 1]
<1>1. /\ Head(q) = q[1] /\ 1 \in 1..Len(q) /\ Len(q) \in Nat
      /\ \A i \in 1..Len(u) : u[i] = q[i + 1] /\ i + 1 \in 2..Len(q)
      /\ \A i \in 1..Len(q) : i # 1 => i - 1 \in 1..Len(u) /\ u[i - 1] = q[i]
      /\ u \in Seq(Gui!Posts)
  BY TakeAt
<1> HIDE DEF u
<1>2. \A i \in S : i \in Nat /\ i + 1 \in R \ {1}
  <2>1. \A i \in S : i \in 1..Len(u) /\ i \in Int /\ q[i + 1] = Gui!ReleasePost /\ i + 1 \in 2..Len(q)
    BY <1>1 DEF ReleasesAt
  <2>2. \A i \in S : i \in Nat /\ i + 1 \in 1..Len(q) /\ i + 1 # 1
    BY <1>1, <2>1
  <2> QED BY <2>1, <2>2 DEF ReleasesAt
<1>3. \A i \in R \ {1} : i - 1 \in S /\ f[i - 1] = i
  <2>1. \A i \in R \ {1} : i \in 1..Len(q) /\ i # 1 /\ q[i] = Gui!ReleasePost
    BY DEF ReleasesAt
  <2>2. \A i \in R \ {1} : i - 1 \in S
    BY <1>1, <2>1 DEF ReleasesAt
  <2>3. \A i \in R \ {1} : (i - 1) + 1 = i
    BY <1>1, <2>1
  <2> QED BY <2>2, <2>3
<1>4. f \in Bijection(S, R \ {1})
  <2>1. f \in [S -> R \ {1}]
    BY <1>2
  <2>2. \A a, b \in S : f[a] = f[b] => a = b
    BY <1>2
  <2>3. \A i \in R \ {1} : \E a \in S : f[a] = i
    BY <1>3
  <2> HIDE DEF f
  <2> QED BY <2>1, <2>2, <2>3 DEF Bijection, Injection, Surjection, IsInjective
<1>5. IsFiniteSet(R) /\ IsFiniteSet(S) /\ Cardinality(R) \in Nat
  BY <1>1, ReleasesFinite
<1>6. Cardinality(R \ {1}) = Cardinality(S)
  BY <1>4, <1>5, FS_Bijection DEF ExistsBijection
<1>7. Cardinality(R \ {1}) = IF 1 \in R THEN Cardinality(R) - 1 ELSE Cardinality(R)
  BY <1>5, FS_RemoveElement
<1>8. 1 \in R <=> Head(q) = Gui!ReleasePost
  BY <1>1 DEF ReleasesAt
<1> HIDE DEF R, S
<1> QED BY <1>5, <1>6, <1>7, <1>8 DEF R, S, u

\* Removals and releases are posted, and what is posted first is taken.
LEMMA QueuePosted ==
  ASSUME NEW q, NEW ids, NEW next, QueueKept(q, ids, next), NEW e \in Gui!Posts,
         e.kind # "create", e.kind = "remove" => e.id < next
  PROVE  QueueKept(Append(q, e), ids, next)
<1> DEFINE u == Append(q, e)
           n == Len(q) + 1
<1>0. q \in Seq(Gui!Posts)
  BY DEF QueueKept
<1>1. /\ u \in Seq(Gui!Posts)
      /\ \A i \in 1..Len(q) : u[i] = q[i] /\ i \in 1..Len(u)
      /\ u[n] = e
      /\ \A i \in 1..Len(u) : i \in 1..Len(q) \/ i = n
  BY <1>0, PostAt
<1>2. \A i \in 1..Len(q) : \A j \in 1..(i - 1) : j \in 1..Len(q)
  BY <1>0
<1> HIDE DEF u, n
<1>3. \A i \in 1..Len(u) : u[i].kind = "remove" => u[i].id < next
  BY <1>1 DEF QueueKept
<1>4. ASSUME NEW i \in 1..Len(u), u[i].kind = "create"
      PROVE  /\ \A j \in 1..Len(u) : u[j].kind = "create" => j = i
             /\ \A id \in ids : \E j \in 1..(i - 1) : u[j] = Gui!Remove(id)
  <2>1. i \in 1..Len(q) /\ q[i].kind = "create"
    BY <1>1, <1>4
  <2>2. \A j \in 1..Len(u) : u[j].kind = "create" => j = i
    BY <1>1, <2>1 DEF QueueKept
  <2>3. \A id \in ids : \E j \in 1..(i - 1) : u[j] = Gui!Remove(id)
    BY <1>1, <1>2, <2>1 DEF QueueKept
  <2> QED BY <2>2, <2>3
<1> QED BY <1>1, <1>3, <1>4 DEF QueueKept, u

\* A creation is posted behind the removals.
LEMMA QueueCreate ==
  ASSUME NEW q, NEW ids, NEW next, QueueKept(q, ids, next), NEW e \in Gui!Posts,
         e.kind = "create", \A g : ~ Creating(q, g), \A id \in ids : Removed(q, id)
  PROVE  QueueKept(Append(q, e), ids, next)
<1> DEFINE u == Append(q, e)
           n == Len(q) + 1
<1>0. q \in Seq(Gui!Posts)
  BY DEF QueueKept
<1>1. /\ u \in Seq(Gui!Posts)
      /\ \A i \in 1..Len(q) : u[i] = q[i] /\ i \in 1..Len(u)
      /\ u[n] = e
      /\ \A i \in 1..Len(u) : i \in 1..Len(q) \/ i = n
  BY <1>0, PostAt
<1>2. \A j \in 1..Len(q) : j \in 1..(n - 1)
  BY <1>0
<1> HIDE DEF u, n
<1>3. \A i \in 1..Len(u) : u[i].kind = "remove" => u[i].id < next
  BY <1>1 DEF QueueKept
<1>4. \A i \in 1..Len(u) : u[i].kind = "create" => i = n
  BY <1>1 DEF Creating
<1>5. \A id \in ids : \E j \in 1..(n - 1) : u[j] = Gui!Remove(id)
  BY <1>1, <1>2 DEF Removed
<1> QED BY <1>1, <1>3, <1>4, <1>5 DEF QueueKept, u

LEMMA QueueTaken ==
  ASSUME NEW q, NEW ids, NEW next, QueueKept(q, ids, next), q # <<>>, NEW left \in SUBSET ids,
         \A id \in left : Head(q) # Gui!Remove(id)
  PROVE  /\ QueueKept(Tail(q), left, next)
         /\ Head(q).kind = "create" => ids = {} /\ \A g : ~ Creating(Tail(q), g)
<1> DEFINE u == Tail(q)
<1>0. q \in Seq(Gui!Posts)
  BY DEF QueueKept
<1>1. /\ u \in Seq(Gui!Posts) /\ Head(q) = q[1] /\ 1 \in 1..Len(q)
      /\ \A i \in 1..Len(u) : u[i] = q[i + 1] /\ i + 1 \in 2..Len(q)
  BY <1>0, TakeAt
<1>2. \A i \in 1..Len(u) : i + 1 \in 1..Len(q) /\ i + 1 # 1
                             /\ \A j \in 1..Len(u) : j + 1 = i + 1 => j = i
  BY <1>0, <1>1
<1>3. \A i \in 1..Len(u) : \A j \in 1..((i + 1) - 1) :
        j = 1 \/ (j - 1 \in 1..(i - 1) /\ u[j - 1] = q[j])
  <2>1. \A i \in 1..Len(q) : i # 1 => i - 1 \in 1..Len(u) /\ u[i - 1] = q[i]
    BY <1>0, TakeAt
  <2>2. ASSUME NEW i \in 1..Len(u), NEW j \in 1..((i + 1) - 1)
        PROVE  j \in 1..Len(q) /\ (j = 1 \/ j - 1 \in 1..(i - 1))
    BY <1>0, <1>1
  <2> QED BY <2>1, <2>2
<1> HIDE DEF u
<1>4. \A i \in 1..Len(u) : u[i].kind = "remove" => u[i].id < next
  BY <1>1, <1>2 DEF QueueKept
<1>5. ASSUME NEW i \in 1..Len(u), u[i].kind = "create"
      PROVE  /\ \A j \in 1..Len(u) : u[j].kind = "create" => j = i
             /\ \A id \in left : \E j \in 1..(i - 1) : u[j] = Gui!Remove(id)
  <2>1. i + 1 \in 1..Len(q) /\ q[i + 1].kind = "create"
    BY <1>1, <1>2, <1>5
  <2>2. \A j \in 1..Len(u) : u[j].kind = "create" => j = i
    BY <1>1, <1>2, <2>1 DEF QueueKept
  <2>3. ASSUME NEW id \in left PROVE \E j \in 1..(i - 1) : u[j] = Gui!Remove(id)
    <3>1. PICK j \in 1..((i + 1) - 1) : q[j] = Gui!Remove(id)
      BY <2>1 DEF QueueKept
    <3>2. j # 1
      BY <1>1, <3>1
    <3> QED BY <1>3, <3>1, <3>2
  <2> QED BY <2>2, <2>3
<1>6. QueueKept(u, left, next)
  BY <1>1, <1>4, <1>5 DEF QueueKept
<1>7. ASSUME Head(q).kind = "create" PROVE ids = {} /\ \A g : ~ Creating(u, g)
  <2>1. ids = {}
    <3>1. \A id \in ids : \E j \in 1..(1 - 1) : q[j] = Gui!Remove(id)
      BY <1>1, <1>7 DEF QueueKept
    <3>2. 1..(1 - 1) = {}
      OBVIOUS
    <3> QED BY <3>1, <3>2
  <2>2. \A i \in 1..Len(u) : u[i].kind # "create"
    BY <1>1, <1>2, <1>7 DEF QueueKept
  <2> QED BY <2>1, <2>2 DEF Creating
<1> QED BY <1>6, <1>7 DEF u

LEMMA QueueEmpty ==
  ASSUME NEW ids, NEW next
  PROVE  /\ QueueKept(<<>>, ids, next) /\ Cardinality(ReleasesAt(<<>>)) = 0
         /\ \A id : ~ Removed(<<>>, id) /\ \A g : ~ Creating(<<>>, g)
<1>1. <<>> \in Seq(Gui!Posts) /\ Len(<<>>) = 0 /\ 1..0 = {}
  OBVIOUS
<1>2. ReleasesAt(<<>>) = {}
  BY <1>1 DEF ReleasesAt
<1> QED BY <1>1, <1>2, FS_EmptySet DEF QueueKept, Removed, Creating

\* Other WebViews than those a creation waits for.
LEMMA QueueOther ==
  ASSUME NEW q, NEW ids, NEW next \in Nat, QueueKept(q, ids, next), NEW some, NEW more \in Nat,
         next <= more, some \subseteq ids \/ \A g : ~ Creating(q, g)
  PROVE  QueueKept(q, some, more)
<1>1. q \in Seq(Gui!Posts) /\ \A i \in 1..Len(q) : q[i] \in Gui!Posts
  BY DEF QueueKept
<1>2. \A i \in 1..Len(q) : q[i].kind = "remove" => q[i].id \in Nat
  BY <1>1, PostShapes DEF Gui!Ids
<1>3. \A i \in 1..Len(q) : q[i].kind = "remove" => q[i].id < more
  BY <1>2 DEF QueueKept
<1>4. \A i \in 1..Len(q) : q[i].kind = "create" => some \subseteq ids
  BY DEF Creating
<1> QED BY <1>1, <1>3, <1>4 DEF QueueKept
-----------------------------------------------------------------------------
(* Leases. *)

\* The last lease that is released frees the thread, and then nothing is left.
LEMMA ReleaseLast ==
  ASSUME NEW q \in Seq(Gui!Posts), NEW s, NEW leased \in BOOLEAN, NEW ids, IsFiniteSet(ids),
         Gui!Release(q), ref_count \in Nat, ref_count - 1 = LeaseSum(s, leased, ids, q),
         owner # NoThread <=> ref_count > 0
  PROVE  /\ ref_count' \in Nat /\ queue' \in Seq(Gui!Posts) /\ queue' \in {q, <<>>}
         /\ ref_count' = LeaseSum(s, leased, ids, queue')
         /\ owner' # NoThread <=> ref_count' > 0
         /\ \/ owner' = owner /\ queue' = q /\ owner # NoThread
            \/ owner' = NoThread /\ ~ Leased(s) /\ ~ leased /\ ids = {}
<1> DEFINE n == Cardinality(ids)
           r == Cardinality(ReleasesAt(q))
<1>1. n \in Nat /\ r \in Nat /\ (n = 0 => ids = {})
  BY FS_CardinalityType, FS_EmptySet, ReleasesFinite
<1>2. ref_count - 1 = (IF Leased(s) THEN 1 ELSE 0) + (IF leased THEN 1 ELSE 0) + n + r
  BY DEF LeaseSum
<1>3. /\ ref_count' = ref_count - 1
      /\ IF ref_count = 1 THEN owner' = NoThread /\ queue' \in Gui!Survivors(q)
         ELSE owner' = owner /\ queue' = q
  BY DEF Gui!Release
<1>4. Gui!Survivors(q) \subseteq {q, <<>>}
  BY DEF Gui!Survivors
<1>5. <<>> \in Seq(Gui!Posts) /\ Cardinality(ReleasesAt(<<>>)) = 0
  BY QueueEmpty
<1> HIDE DEF n, r
<1>6. ref_count >= 1 /\ ref_count' \in Nat
  BY <1>1, <1>2, <1>3
<1>7. CASE ref_count = 1
  <2>1. ~ Leased(s) /\ leased = FALSE /\ n = 0 /\ r = 0
    BY <1>1, <1>2, <1>7
  <2>2. owner' = NoThread /\ queue' \in {q, <<>>} /\ ref_count' = 0
    BY <1>3, <1>4, <1>7
  <2>3. Cardinality(ReleasesAt(queue')) = 0
    BY <1>5, <2>1, <2>2 DEF r
  <2>4. LeaseSum(s, leased, ids, queue') = 0
    BY <2>1, <2>3 DEF LeaseSum, n
  <2>5. ref_count' \in Nat /\ queue' \in Seq(Gui!Posts)
    BY <1>5, <1>6, <2>2
  <2>6. owner' # NoThread <=> ref_count' > 0
    BY <2>2
  <2>7. ~ Leased(s) /\ ~ leased /\ ids = {}
    BY <1>1, <2>1
  <2> QED BY <2>2, <2>4, <2>5, <2>6, <2>7
<1>8. CASE ref_count # 1
  <2>1. owner' = owner /\ queue' = q /\ ref_count' = ref_count - 1 /\ ref_count > 1
    BY <1>3, <1>6, <1>8
  <2>2. owner' # NoThread /\ ref_count' > 0
    BY <2>1
  <2> QED BY <1>6, <2>1, <2>2
<1> QED BY <1>7, <1>8

-----------------------------------------------------------------------------
(* The host's callbacks. *)

LEMMA CallsCounted ==
  ASSUME Gui!TypeOK, NEW t, Gui!Admitted(t)
  PROVE  calls_left' \in 0..MaxGuiCalls
<1>1. MaxGuiCalls \in Nat /\ calls_left \in 0..MaxGuiCalls
  BY GuiAssumption DEF Gui!TypeOK
<1> QED BY <1>1 DEF Gui!Admitted

\* What a callback admitted on t may rely on: it is on the thread of the session.
LEMMA BeginInv ==
  ASSUME GuiInv, NEW t \in Threads,
         Gui!BeginCreate(t) \/ Gui!BeginDestroy(t) \/ Gui!BeginDrop(t)
  PROVE  GuiInv'
<1>0. t # NoThread
  BY GuiAssumption
<1>1. /\ UNCHANGED <<session, generation, is_creating_runtime, creating_generation,
                     pending_creation_generation, destroy_requested_while_creating,
                     destroyed_before, scale, runtimes, next_id, ref_count, owner, queue, job>>
      /\ \E op \in {"create", "destroy", "drop"} :
           call' = [op |-> op, thread |-> t, at |-> "check"]
  BY DEF Gui!BeginCreate, Gui!BeginDestroy, Gui!BeginDrop, Gui!Begin, Gui!flightVars, Gui!tableVars,
         Gui!leaseVars
<1>2. gui_thread' = gui_thread \/ (gui_thread = NoThread /\ gui_thread' = t)
  BY DEF Gui!BeginCreate, Gui!BeginDestroy, Gui!BeginDrop, Gui!Admitted
<1>3. call'.op = "create" => gui_thread' = t
  <2>1. Gui!BeginDestroy(t) \/ Gui!BeginDrop(t) => call'.op # "create"
    BY DEF Gui!BeginDestroy, Gui!BeginDrop, Gui!Begin
  <2>2. Gui!BeginCreate(t) => gui_thread' = t
    BY DEF Gui!BeginCreate
  <2> QED BY <2>1, <2>2
<1>4. dropped' \in BOOLEAN /\ calls_left' \in 0..MaxGuiCalls
  <2>1. calls_left \in 0..MaxGuiCalls /\ dropped \in BOOLEAN
    BY DEF GuiInv, Gui!TypeOK
  <2>2. calls_left' \in 0..MaxGuiCalls
    BY <2>1, CallsCounted DEF GuiInv, Gui!BeginCreate, Gui!BeginDestroy, Gui!BeginDrop
  <2>3. dropped' \in BOOLEAN
    BY <2>1 DEF Gui!BeginCreate, Gui!BeginDestroy, Gui!BeginDrop
  <2> QED BY <2>2, <2>3
<1>5. /\ call' \in [op : {"none", "create", "destroy", "drop"}, thread : Threads \cup {NoThread},
                    at : {"idle", "check", "take", "open"}]
      /\ call'.at = "check" /\ call'.thread = t
  BY <1>1
<1>6. Gui!TypeOK'
  BY <1>1, <1>2, <1>4, <1>5 DEF GuiInv, Gui!TypeOK
<1>7. QueueKept(queue, DOMAIN runtimes, next_id)'
  BY <1>1 DEF GuiInv
<1>8. FlightKept' /\ RuntimesKept' /\ GenerationsKept' /\ ThreadsKept' /\ LeasesKept'
  BY <1>1 DEF GuiInv, FlightKept, RuntimesKept, GenerationsKept, ThreadsKept, LeasesKept, Gui!Current
<1>9. SessionKept'
  BY <1>0, <1>1, <1>2, <1>3, <1>5 DEF GuiInv, SessionKept, Leased
<1> QED BY <1>6, <1>7, <1>8, <1>9 DEF GuiInv

LEMMA RuntimesFinite ==
  ASSUME GuiInv
  PROVE  /\ IsFiniteSet(DOMAIN runtimes)
         /\ Cardinality(DOMAIN runtimes) = IF DOMAIN runtimes = {} THEN 0 ELSE 1
<1>1. CASE DOMAIN runtimes = {}
  BY <1>1, FS_EmptySet
<1>2. CASE DOMAIN runtimes # {}
  <2>1. PICK a : a \in DOMAIN runtimes
    BY <1>2
  <2>2. DOMAIN runtimes = {a}
    BY <2>1 DEF GuiInv, RuntimesKept
  <2> QED BY ZenonT(40), <1>2, <2>2, FS_Singleton
<1> QED BY <1>1, <1>2

\* The removal of the WebView that a session shows.
LEMMA RemovalsPosted ==
  ASSUME GuiInv
  PROVE  LET q == queue \o Gui!Removals(session)
             shows(id) == session # NoSession /\ session.handle # 0 /\ session.handle = id
         IN  /\ QueueKept(q, DOMAIN runtimes, next_id)
             /\ \A g : Creating(q, g) <=> Creating(queue, g)
             /\ \A id : Removed(q, id) <=> Removed(queue, id) \/ shows(id)
             /\ Cardinality(ReleasesAt(q)) = Cardinality(ReleasesAt(queue))
<1> DEFINE q == queue \o Gui!Removals(session)
           has == session # NoSession /\ session.handle # 0
           e == Gui!Remove(session.handle)
<1>0. queue \in Seq(Gui!Posts) /\ QueueKept(queue, DOMAIN runtimes, next_id)
  BY DEF GuiInv, QueueKept
<1>1. CASE ~ has
  <2>1. q = queue
    <3>1. Gui!Removals(session) = <<>>
      BY <1>1 DEF Gui!Removals
    <3> QED BY <1>0, <3>1
  <2> HIDE DEF q
  <2> QED BY <1>0, <1>1, <2>1 DEF q
<1>2. CASE has
  <2>1. session.handle \in DOMAIN runtimes
    BY <1>2 DEF GuiInv, SessionKept
  <2>2. session.handle \in Gui!Ids /\ session.handle < next_id
    BY <2>1 DEF GuiInv, Gui!TypeOK, RuntimesKept
  <2>3. e \in Gui!Posts /\ e.kind = "remove" /\ e.id = session.handle /\ e # Gui!ReleasePost
    BY <2>2, PostShapes
  <2>4. q = Append(queue, e)
    <3>1. Gui!Removals(session) = <<e>>
      BY <1>2 DEF Gui!Removals
    <3>2. queue \o <<e>> = Append(queue, e)
      BY <1>0, <2>3
    <3> QED BY <3>1, <3>2
  <2>5. \A id : e = Gui!Remove(id) <=> session.handle = id
    BY <2>3, PostShapes
  <2> HIDE DEF e, q
  <2>6. QueueKept(q, DOMAIN runtimes, next_id)
    BY <1>0, <2>2, <2>3, <2>4, QueuePosted
  <2>7. /\ \A g : Creating(q, g) <=> Creating(queue, g)
        /\ \A id : Removed(q, id) <=> Removed(queue, id) \/ e = Gui!Remove(id)
    BY <1>0, <2>3, <2>4, PostedIs
  <2>8. Cardinality(ReleasesAt(q)) = Cardinality(ReleasesAt(queue))
    <3>1. Cardinality(ReleasesAt(q)) = Cardinality(ReleasesAt(queue)) + 0
      BY <1>0, <2>3, <2>4, PostCounts
    <3> QED BY <1>0, <3>1, ReleasesFinite
  <2> QED BY <1>2, <2>5, <2>6, <2>7, <2>8 DEF q
<1> QED BY <1>1, <1>2

\* What the end of a session leaves behind.
LEMMA DropStep ==
  ASSUME GuiInv, NEW t, t # NoThread, Gui!DropSession(t), session' = NoSession, UNCHANGED <<runtimes, next_id, job>>
  PROVE  /\ QueueKept(queue, DOMAIN runtimes, next_id)' /\ LeasesKept'
         /\ queue' \in Seq(Gui!Posts) /\ ref_count' \in Nat
         /\ owner' \in Threads \cup {NoThread} /\ destroyed_before' \in BOOLEAN
         /\ \A g : Creating(queue', g) => Creating(queue, g)
         /\ RuntimesKept'
         /\ owner' = owner \/ (DOMAIN runtimes = {} /\ ~ job.leased)
<1> DEFINE q     == queue \o Gui!Removals(session)
           lease == IF session = NoSession THEN NoThread ELSE session.parent_lease
           ids   == DOMAIN runtimes
           shows(id) == session # NoSession /\ session.handle # 0 /\ session.handle = id
<1>1. /\ QueueKept(q, ids, next_id)
      /\ \A g : Creating(q, g) <=> Creating(queue, g)
      /\ \A id : Removed(q, id) <=> Removed(queue, id) \/ shows(id)
      /\ Cardinality(ReleasesAt(q)) = Cardinality(ReleasesAt(queue))
  BY RemovalsPosted
<1>2. /\ destroyed_before' = (destroyed_before \/ q # queue)
      /\ CASE lease = NoThread -> queue' = q /\ UNCHANGED <<ref_count, owner>>
           [] lease = t        -> Gui!Release(q)
           [] OTHER -> queue' = Append(q, Gui!ReleasePost) /\ UNCHANGED <<ref_count, owner>>
  BY DEF Gui!DropSession
<1>t. /\ destroyed_before \in BOOLEAN /\ ref_count \in Nat /\ owner \in Threads \cup {NoThread}
      /\ job.leased \in BOOLEAN /\ Cardinality(ReleasesAt(queue)) \in Nat
      /\ Cardinality(ids) \in Nat /\ IsFiniteSet(ids)
  <2>1. destroyed_before \in BOOLEAN /\ ref_count \in Nat /\ owner \in Threads \cup {NoThread}
        /\ job.leased \in BOOLEAN /\ queue \in Seq(Gui!Posts)
    BY DEF GuiInv, Gui!TypeOK
  <2> QED BY <2>1, ReleasesFinite, RuntimesFinite
<1>3. q \in Seq(Gui!Posts)
  BY <1>1 DEF QueueKept
<1>4. ref_count = LeaseSum(session, job.leased, ids, queue) /\ (owner # NoThread <=> ref_count > 0)
  BY DEF GuiInv, LeasesKept
<1>5. Leased(session) <=> lease # NoThread
  BY DEF Leased
<1> HIDE DEF q, lease, ids
<1>6. LeaseSum(NoSession, job.leased, ids, q)
        = (IF job.leased THEN 1 ELSE 0) + Cardinality(ids) + Cardinality(ReleasesAt(queue))
  BY <1>1, <1>t DEF LeaseSum, Leased
<1>s. /\ QueueKept(queue', ids, next_id) /\ queue' \in Seq(Gui!Posts) /\ ref_count' \in Nat
      /\ ref_count' = LeaseSum(NoSession, job.leased, ids, queue')
      /\ owner' # NoThread <=> ref_count' > 0
      /\ owner' \in Threads \cup {NoThread}
      /\ \A g : Creating(queue', g) => Creating(queue, g)
      /\ \A id \in ids : Removed(queue', id) <=> Removed(queue, id) \/ shows(id)
      /\ owner' = owner \/ (ids = {} /\ ~ job.leased)
  <2>1. CASE lease = NoThread
    <3>1. queue' = q /\ ref_count' = ref_count /\ owner' = owner
      BY <1>2, <2>1
    <3>2. ref_count' = LeaseSum(NoSession, job.leased, ids, queue')
      BY <1>4, <1>5, <1>6, <1>t, <2>1, <3>1 DEF LeaseSum
    <3> QED BY <1>1, <1>3, <1>4, <1>t, <3>1, <3>2
  <2>2. CASE lease = t /\ lease # NoThread
    <3>1. Gui!Release(q)
      BY <1>2, <2>2
    <3>2. ref_count - 1 = LeaseSum(NoSession, job.leased, ids, q)
      BY <1>4, <1>5, <1>6, <1>t, <2>2 DEF LeaseSum
    <3>3. /\ ref_count' \in Nat /\ queue' \in Seq(Gui!Posts) /\ queue' \in {q, <<>>}
          /\ ref_count' = LeaseSum(NoSession, job.leased, ids, queue')
          /\ owner' # NoThread <=> ref_count' > 0
          /\ \/ owner' = owner /\ queue' = q /\ owner # NoThread
             \/ owner' = NoThread /\ ~ Leased(NoSession) /\ ~ job.leased /\ ids = {}
      BY <1>3, <1>4, <1>t, <3>1, <3>2, ReleaseLast
    <3>4. /\ QueueKept(queue', ids, next_id)
          /\ \A g : Creating(queue', g) => Creating(queue, g)
      BY <1>1, <3>3, QueueEmpty
    <3>5. \A id \in ids : Removed(queue', id) <=> Removed(queue, id) \/ shows(id)
      BY <1>1, <3>3
    <3> QED BY <1>t, <3>3, <3>4, <3>5
  <2>3. CASE lease # t /\ lease # NoThread
    <3> DEFINE e == Gui!ReleasePost
    <3>1. queue' = Append(q, e) /\ ref_count' = ref_count /\ owner' = owner
      BY <1>2, <2>3
    <3>2. e \in Gui!Posts /\ e.kind = "release" /\ \A id : e # Gui!Remove(id)
      <4>1. e \in Gui!Posts /\ e.kind = "release" /\ \A id : Gui!Remove(id).kind = "remove"
        BY PostShapes
      <4> QED BY <4>1
    <3>r. e = Gui!ReleasePost
      OBVIOUS
    <3> HIDE DEF e
    <3>3. QueueKept(queue', ids, next_id) /\ queue' \in Seq(Gui!Posts)
      <4>1. QueueKept(Append(q, e), ids, next_id)
        BY <1>1, <3>2, QueuePosted
      <4> QED BY <3>1, <4>1 DEF QueueKept
    <3>4. /\ \A g : Creating(queue', g) => Creating(queue, g)
          /\ \A id : Removed(queue', id) <=> Removed(queue, id) \/ shows(id)
      <4>1. /\ \A id : Removed(queue', id) <=> Removed(q, id) \/ e = Gui!Remove(id)
            /\ \A g : Creating(queue', g) <=> Creating(q, g) \/ (e.kind = "create" /\ e.generation = g)
        BY <1>3, <3>1, <3>2, PostedIs
      <4> QED BY <1>1, <3>2, <4>1
    <3>5. ref_count' = LeaseSum(NoSession, job.leased, ids, queue')
      <4>1. Cardinality(ReleasesAt(queue')) = Cardinality(ReleasesAt(q)) + 1
        BY <1>3, <3>1, <3>2, <3>r, PostCounts
      <4>2. LeaseSum(session, job.leased, ids, queue)
              = 1 + (IF job.leased THEN 1 ELSE 0) + Cardinality(ids) + Cardinality(ReleasesAt(queue))
        BY <1>5, <2>3 DEF LeaseSum
      <4>3. LeaseSum(NoSession, job.leased, ids, queue')
              = (IF job.leased THEN 1 ELSE 0) + Cardinality(ids) + Cardinality(ReleasesAt(queue'))
        BY <1>t, <1>1, <4>1 DEF LeaseSum, Leased
      <4> QED BY <1>1, <1>4, <1>t, <3>1, <4>1, <4>2, <4>3
    <3> QED BY <1>4, <1>t, <3>1, <3>3, <3>4, <3>5
  <2> QED BY <2>1, <2>2, <2>3
<1>7. LeasesKept' /\ QueueKept(queue, DOMAIN runtimes, next_id)'
  BY <1>s DEF LeasesKept, ids
<1>8. RuntimesKept'
  <2>1. job.at \in Made => job.id \in ids /\ ~ Removed(queue, job.id) /\ ~ shows(job.id)
    BY DEF GuiInv, RuntimesKept, SessionKept, ids
  <2>2. job.at \in Made => ~ Removed(queue', job.id)
    BY <1>s, <2>1
  <2>3. \A id \in ids : id # 0
    BY DEF GuiInv, Gui!TypeOK, Gui!Ids, ids
  <2>4. \A id \in ids : (job.at \in Made /\ job.id = id) \/ Removed(queue', id)
    BY <1>s, <2>3 DEF GuiInv, RuntimesKept, ids
  <2> QED BY <2>2, <2>4 DEF GuiInv, RuntimesKept, ids
<1> QED BY <1>2, <1>s, <1>7, <1>8, <1>t DEF ids

\* The session is ended, and the callback with it or about to open another.
LEMMA EndInv ==
  ASSUME GuiInv, call.at \in {"check", "take"}, Gui!DropSession(call.thread), session' = NoSession,
         Gui!Ended, generation' \in {generation, generation + 1},
         destroy_requested_while_creating' \in BOOLEAN,
         UNCHANGED <<is_creating_runtime, creating_generation, pending_creation_generation, scale,
                     runtimes, next_id, job, dropped, calls_left>>
  PROVE  GuiInv'
<1>1. call.thread # NoThread
  BY DEF GuiInv, SessionKept
<1>2. /\ QueueKept(queue, DOMAIN runtimes, next_id)' /\ LeasesKept'
      /\ queue' \in Seq(Gui!Posts) /\ ref_count' \in Nat
      /\ owner' \in Threads \cup {NoThread} /\ destroyed_before' \in BOOLEAN
      /\ \A g : Creating(queue', g) => Creating(queue, g)
      /\ RuntimesKept'
      /\ owner' = owner \/ (DOMAIN runtimes = {} /\ ~ job.leased)
  BY <1>1, DropStep
<1>3. /\ call' \in [op : {"none", "create", "destroy", "drop"}, thread : Threads \cup {NoThread},
                    at : {"idle", "check", "take", "open"}]
      /\ gui_thread' \in Threads \cup {NoThread}
      /\ call'.at # "idle" => call'.thread # NoThread
      /\ call'.op = "create" => gui_thread' # NoThread
      /\ call'.at = "open" => call'.op = "create"
  <2>1. /\ call \in [op : {"none", "create", "destroy", "drop"}, thread : Threads \cup {NoThread},
                     at : {"idle", "check", "take", "open"}]
        /\ gui_thread \in Threads \cup {NoThread}
        /\ call.op = "create" => gui_thread # NoThread
    BY DEF GuiInv, Gui!TypeOK, SessionKept
  <2>2. CASE call.op = "create"
    <3>1. call' = [call EXCEPT !.at = "open"] /\ gui_thread' = gui_thread
      BY <2>2 DEF Gui!Ended
    <3>2. /\ call' \in [op : {"none", "create", "destroy", "drop"}, thread : Threads \cup {NoThread},
                        at : {"idle", "check", "take", "open"}]
          /\ call'.op = call.op /\ call'.thread = call.thread
      BY <2>1, <3>1
    <3> QED BY <1>1, <2>1, <2>2, <3>1, <3>2
  <2>3. CASE call.op # "create"
    <3>1. call' = [op |-> "none", thread |-> NoThread, at |-> "idle"] /\ gui_thread' = NoThread
      BY <2>3 DEF Gui!Ended, Gui!NoCall
    <3> QED BY <3>1
  <2> QED BY <2>2, <2>3
<1>4. generation \in Nat /\ generation' \in Nat /\ generation <= generation'
  <2>1. generation \in Nat
    BY DEF GuiInv, Gui!TypeOK, Gui!Generations
  <2> QED BY <2>1
<1>5. Gui!TypeOK'
  BY <1>2, <1>3, <1>4 DEF GuiInv, Gui!TypeOK, Gui!Generations
<1>6. FlightKept'
  BY <1>2 DEF GuiInv, FlightKept
<1>7. SessionKept'
  BY <1>3 DEF SessionKept, Leased
<1>8. GenerationsKept'
  <2>1. /\ pending_creation_generation \in Nat /\ job.generation \in Nat
        /\ \A g : Creating(queue, g) => g \in Nat
    <3>1. /\ pending_creation_generation \in Nat /\ job.generation \in Nat
          /\ creating_generation \in Nat
      BY DEF GuiInv, Gui!TypeOK, Gui!Generations
    <3>2. \A g : Creating(queue, g) => g = creating_generation
      BY DEF GuiInv, FlightKept
    <3> QED BY <3>1, <3>2
  <2>2. \A m \in Nat : m <= generation => m <= generation'
    BY <1>4
  <2>3. pending_creation_generation <= generation'
    BY <2>1, <2>2 DEF GuiInv, GenerationsKept
  <2>4. job.at # "idle" => job.generation <= generation'
    BY <2>1, <2>2 DEF GuiInv, GenerationsKept
  <2>5. \A g : Creating(queue', g) => g <= generation'
    BY <1>2, <2>1, <2>2 DEF GuiInv, GenerationsKept
  <2> QED BY <2>3, <2>4, <2>5 DEF GenerationsKept
<1>9. ThreadsKept'
  <2>1. job.at \in Made \cup {"factory"} => owner' = job.thread
    <3>1. job.at \in Made \cup {"factory"} => owner = job.thread
      BY DEF GuiInv, ThreadsKept
    <3>2. job.at \in Made => DOMAIN runtimes # {}
      BY DEF GuiInv, RuntimesKept
    <3>3. job.at = "factory" => job.leased
      BY DEF GuiInv, RuntimesKept
    <3> QED BY <1>2, <3>1, <3>2, <3>3
  <2> QED BY <2>1 DEF GuiInv, ThreadsKept, Gui!Current
<1> QED BY <1>2, <1>5, <1>6, <1>7, <1>8, <1>9 DEF GuiInv

LEMMA HostStepInv2 ==
  ASSUME GuiInv, Gui!HostStep
  PROVE  GuiInv'
<1>1. CASE Gui!TakeSession
  <2>1. destroy_requested_while_creating' \in BOOLEAN
    BY <1>1 DEF Gui!TakeSession, Gui!flightVars, GuiInv, Gui!TypeOK
  <2> QED BY <1>1, <2>1, EndInv DEF Gui!TakeSession, Gui!flightVars, Gui!tableVars
<1>2. CASE Gui!CheckCreating /\ is_creating_runtime
  BY <1>2, EndInv DEF Gui!CheckCreating, Gui!RequestDestroy, Gui!tableVars
<1>3. CASE Gui!CheckCreating /\ ~ is_creating_runtime
  <2>1. /\ UNCHANGED <<session, generation, is_creating_runtime, creating_generation,
                       pending_creation_generation, destroy_requested_while_creating,
                       destroyed_before, scale, runtimes, next_id, ref_count, owner, queue, job,
                       gui_thread, dropped, calls_left>>
        /\ call' = [call EXCEPT !.at = "take"] /\ call.at = "check"
    BY <1>3 DEF Gui!CheckCreating, Gui!tableVars, Gui!leaseVars
  <2>2. call \in [op : {"none", "create", "destroy", "drop"}, thread : Threads \cup {NoThread},
                  at : {"idle", "check", "take", "open"}]
    BY DEF GuiInv, Gui!TypeOK
  <2>3. /\ call' \in [op : {"none", "create", "destroy", "drop"}, thread : Threads \cup {NoThread},
                      at : {"idle", "check", "take", "open"}]
        /\ call'.at = "take" /\ call'.op = call.op /\ call'.thread = call.thread
    BY <2>1, <2>2
  <2>4. Gui!TypeOK'
    BY <2>1, <2>3 DEF GuiInv, Gui!TypeOK
  <2>5. QueueKept(queue, DOMAIN runtimes, next_id)'
    BY <2>1 DEF GuiInv
  <2>6. FlightKept' /\ RuntimesKept' /\ GenerationsKept' /\ ThreadsKept' /\ LeasesKept'
    BY <2>1 DEF GuiInv, FlightKept, RuntimesKept, GenerationsKept, ThreadsKept, LeasesKept,
                Gui!Current, Leased
  <2>7. SessionKept'
    BY <2>1, <2>3 DEF GuiInv, SessionKept, Leased
  <2> QED BY <2>4, <2>5, <2>6, <2>7 DEF GuiInv
<1>4. CASE Gui!OpenSession
  <2> DEFINE s == [generation |-> generation + 1, parent |-> NoParent, parent_lease |-> NoThread,
                   handle |-> 0, visible |-> TRUE, scale |-> scale]
  <2>1. /\ UNCHANGED <<is_creating_runtime, creating_generation, pending_creation_generation,
                       destroy_requested_while_creating, destroyed_before, scale, runtimes, next_id,
                       ref_count, owner, queue, job, gui_thread, dropped, calls_left>>
        /\ session' = s /\ generation' = generation + 1 /\ call' = Gui!NoCall /\ call.at = "open"
    BY <1>4 DEF Gui!OpenSession, Gui!flightVars, Gui!tableVars, Gui!leaseVars
  <2>t. /\ generation \in Nat /\ scale \in Scales /\ pending_creation_generation \in Nat
        /\ job.generation \in Nat /\ creating_generation \in Nat
    BY DEF GuiInv, Gui!TypeOK, Gui!Generations
  <2>2. /\ s \in Gui!Sessions /\ s.generation = generation + 1 /\ s.parent = NoParent
        /\ s.parent_lease = NoThread /\ s.handle = 0
    BY <2>t DEF Gui!Sessions, Gui!Generations
  <2> HIDE DEF s
  <2>3. s # NoSession /\ session = NoSession /\ gui_thread # NoThread
    BY <2>1, <2>2, GuiAssumption DEF GuiInv, SessionKept
  <2>4. \A g : Creating(queue, g) => g \in Nat /\ g <= generation
    BY <2>t DEF GuiInv, GenerationsKept, FlightKept
  <2>5. Gui!TypeOK'
    BY <2>1, <2>2, <2>t DEF GuiInv, Gui!TypeOK, Gui!Generations, Gui!NoCall
  <2>6. QueueKept(queue, DOMAIN runtimes, next_id)'
    BY <2>1 DEF GuiInv
  <2>7. FlightKept'
    BY <2>1 DEF GuiInv, FlightKept
  <2>8. RuntimesKept'
    BY <2>1, <2>3 DEF GuiInv, RuntimesKept
  <2>9. SessionKept'
    BY <2>1, <2>2, <2>3 DEF SessionKept, Leased, Gui!NoCall
  <2>10. \A n \in Nat : n <= generation => n <= generation + 1 /\ n # generation + 1
    BY <2>t
  <2>11. GenerationsKept'
    <3>1. /\ session'.generation = generation'
          /\ pending_creation_generation <= generation'
          /\ job.at # "idle" => job.generation <= generation' /\ job.generation # session'.generation
          /\ \A g : Creating(queue, g) => g <= generation' /\ g # session'.generation
      BY <2>1, <2>2, <2>t, <2>4, <2>10 DEF GuiInv, GenerationsKept
    <3>2. generation' <= generation'
      BY <2>1, <2>t
    <3> QED BY <2>1, <3>1, <3>2 DEF GenerationsKept, Making, Made
  <2>12. ThreadsKept'
    <3>1. job.at = "install" => job.generation # session'.generation
      <4>1. job.at = "install" => job.generation <= generation
        BY DEF GuiInv, GenerationsKept
      <4> QED BY <2>1, <2>2, <2>t, <2>10, <4>1
    <3> QED BY <2>1, <3>1 DEF GuiInv, ThreadsKept, Gui!Current
  <2>13. LeasesKept'
    <3>1. ~ Leased(session) /\ ~ Leased(session')
      BY <2>1, <2>2, <2>3 DEF Leased
    <3> QED BY <2>1, <3>1 DEF GuiInv, LeasesKept, LeaseSum
  <2> QED BY <2>5, <2>6, <2>7, <2>8, <2>9, <2>11, <2>12, <2>13 DEF GuiInv
<1> QED BY <1>1, <1>2, <1>3, <1>4 DEF Gui!HostStep

\* A callback that is admitted is on the session's thread, and not within a creation.
LEMMA AdmittedAt ==
  ASSUME GuiInv, NEW t \in Threads, Gui!Admitted(t), Gui!Bind(t)
  PROVE  /\ t # NoThread /\ gui_thread' = t /\ call' = call /\ dropped' = dropped
         /\ call.op = "none" /\ call.at = "idle" /\ calls_left' \in 0..MaxGuiCalls
         /\ session # NoSession => gui_thread = t
         /\ Leased(session) => owner = t
         /\ owner = t => job.at \notin Made
         /\ ~ (job.at = "install" /\ Gui!Current)
<1>1. /\ t # NoThread /\ gui_thread' = t /\ call' = call /\ dropped' = dropped
      /\ call = Gui!NoCall /\ Gui!Free(t) /\ gui_thread \in {NoThread, t}
  BY GuiAssumption DEF Gui!Admitted, Gui!Bind
<1>2. calls_left' \in 0..MaxGuiCalls
  BY CallsCounted DEF GuiInv
<1>3. call.op = "none" /\ call.at = "idle"
  BY <1>1 DEF Gui!NoCall
<1>4. session # NoSession => gui_thread = t
  BY <1>1 DEF GuiInv, SessionKept
<1>5. Leased(session) => owner = t
  BY <1>4 DEF GuiInv, SessionKept, Leased
<1>6. owner = t => job.at \notin Made
  BY <1>1 DEF GuiInv, ThreadsKept, Gui!Free, Made
<1>7. job.at = "install" /\ Gui!Current => Leased(session)
  BY DEF GuiInv, GenerationsKept, Gui!Current, Made
<1> QED BY <1>1, <1>2, <1>3, <1>4, <1>5, <1>6, <1>7 DEF Made

\* Visibility or scale of the session and of the WebView it shows.
LEMMA LookInv ==
  ASSUME GuiInv, NEW t \in Threads, Gui!Admitted(t), Gui!Bind(t), session # NoSession,
         session' \in Gui!Sessions, session'.generation = session.generation,
         session'.parent = session.parent, session'.parent_lease = session.parent_lease,
         session'.handle = session.handle, scale' \in Scales,
         DOMAIN runtimes' = DOMAIN runtimes,
         \A id \in DOMAIN runtimes :
           /\ runtimes'[id] \in Gui!Runtimes /\ runtimes'[id].generation = runtimes[id].generation
           /\ id = session.handle =>
                /\ runtimes'[id].shown = session'.visible /\ runtimes'[id].scale = session'.scale,
         UNCHANGED <<generation, is_creating_runtime, creating_generation,
                     pending_creation_generation, destroy_requested_while_creating,
                     destroyed_before, next_id, ref_count, owner, queue, job>>
  PROVE  GuiInv'
<1>1. /\ t # NoThread /\ gui_thread' = t /\ call' = call /\ dropped' = dropped
      /\ calls_left' \in 0..MaxGuiCalls
      /\ gui_thread = t /\ ~ (job.at = "install" /\ Gui!Current)
  BY AdmittedAt
<1>2. session' # NoSession /\ (Leased(session') <=> Leased(session))
  BY GuiAssumption DEF Leased
<1>3. Gui!TypeOK'
  <2>1. \A id \in DOMAIN runtimes' : runtimes'[id] \in Gui!Runtimes
    OBVIOUS
  <2> QED BY <1>1, <2>1 DEF GuiInv, Gui!TypeOK
<1>4. QueueKept(queue, DOMAIN runtimes, next_id)' /\ FlightKept'
  BY DEF GuiInv, FlightKept
<1>5. RuntimesKept'
  <2>1. \A id \in DOMAIN runtimes : runtimes'[id].generation = runtimes[id].generation
    OBVIOUS
  <2>2. job.at \in Made => job.id \in DOMAIN runtimes
    BY DEF GuiInv, RuntimesKept
  <2> QED BY <1>2, <2>1, <2>2 DEF GuiInv, RuntimesKept
<1>6. SessionKept'
  <2>1. \A id \in DOMAIN runtimes : runtimes'[id].generation = runtimes[id].generation
    OBVIOUS
  <2> QED BY <1>1, <1>2, <2>1 DEF GuiInv, SessionKept
<1>7. GenerationsKept'
  BY <1>2 DEF GuiInv, GenerationsKept
<1>8. ThreadsKept'
  <2>1. Gui!Current' => Gui!Current
    BY DEF Gui!Current
  <2> QED BY <1>1, <2>1 DEF GuiInv, ThreadsKept
<1>9. LeasesKept'
  BY <1>2 DEF GuiInv, LeasesKept, LeaseSum
<1> QED BY <1>3, <1>4, <1>5, <1>6, <1>7, <1>8, <1>9 DEF GuiInv

\* A callback that finds nothing to do.
LEMMA IdleInv ==
  ASSUME GuiInv, NEW t \in Threads, Gui!Admitted(t), Gui!Bind(t), scale' \in Scales,
         UNCHANGED <<session, generation, is_creating_runtime, creating_generation,
                     pending_creation_generation, destroy_requested_while_creating,
                     destroyed_before, runtimes, next_id, ref_count, owner, queue, job>>
  PROVE  GuiInv'
<1>1. /\ t # NoThread /\ gui_thread' = t /\ call' = call /\ dropped' = dropped
      /\ call.op = "none" /\ call.at = "idle" /\ calls_left' \in 0..MaxGuiCalls
      /\ session # NoSession => gui_thread = t
  BY AdmittedAt
<1>2. Gui!TypeOK'
  BY <1>1 DEF GuiInv, Gui!TypeOK
<1>3. QueueKept(queue, DOMAIN runtimes, next_id)'
  BY DEF GuiInv
<1>4. FlightKept' /\ RuntimesKept' /\ GenerationsKept' /\ ThreadsKept' /\ LeasesKept'
  BY DEF GuiInv, FlightKept, RuntimesKept, GenerationsKept, ThreadsKept, LeasesKept, Gui!Current,
         Leased
<1>5. SessionKept'
  BY <1>1 DEF GuiInv, SessionKept, Leased
<1> QED BY <1>2, <1>3, <1>4, <1>5 DEF GuiInv

\* What schedule_runtime_creation posts and which flags it leaves, when the WebViews there
\* are, if it may post, are on their way out.
LEMMA ScheduleStep ==
  ASSUME GuiInv, NEW s, NEW g \in Nat, NEW live \in BOOLEAN, NEW q,
         QueueKept(q, DOMAIN runtimes, next_id), \A x : Creating(q, x) <=> Creating(queue, x),
         Gui!Schedule(s, g, q, live), Gui!Schedulable(s, g) => s \in Gui!Sessions,
         ~ is_creating_runtime /\ Gui!Schedulable(s, g) => \A id \in DOMAIN runtimes : Removed(q, id)
  PROVE  /\ QueueKept(queue', DOMAIN runtimes, next_id)
         /\ \A id : Removed(queue', id) <=> Removed(q, id)
         /\ Cardinality(ReleasesAt(queue')) = Cardinality(ReleasesAt(q))
         /\ \A x : Creating(queue', x) => Creating(queue, x) \/ (x = g /\ Gui!Schedulable(s, g))
         /\ \A x : Creating(queue', x) => is_creating_runtime' /\ creating_generation' = x
         /\ is_creating_runtime => /\ is_creating_runtime' /\ creating_generation' = creating_generation
                                   /\ \A x : Creating(queue', x) => Creating(queue, x)
         /\ pending_creation_generation' \in {pending_creation_generation, g, 0}
         /\ is_creating_runtime' \in BOOLEAN /\ creating_generation' \in Nat
         /\ destroy_requested_while_creating' \in BOOLEAN
<1>t. /\ is_creating_runtime \in BOOLEAN /\ creating_generation \in Nat
      /\ destroy_requested_while_creating \in BOOLEAN
  BY DEF GuiInv, Gui!TypeOK, Gui!Generations
<1>f. \A x : Creating(queue, x) => is_creating_runtime /\ creating_generation = x
  BY DEF GuiInv, FlightKept
<1>1. CASE is_creating_runtime
  <2>1. /\ pending_creation_generation' = g /\ queue' = q
        /\ UNCHANGED <<is_creating_runtime, creating_generation, destroy_requested_while_creating>>
    BY <1>1 DEF Gui!Schedule, Gui!InFlight
  <2> QED BY <1>1, <1>t, <1>f, <2>1
<1>2. CASE ~ is_creating_runtime /\ ~ (Gui!Schedulable(s, g) /\ live)
  <2>1. /\ queue' = q /\ is_creating_runtime' \in BOOLEAN /\ creating_generation' \in Nat
        /\ destroy_requested_while_creating' \in BOOLEAN
        /\ pending_creation_generation' \in {pending_creation_generation, g, 0}
    <3>1. CASE Gui!Schedulable(s, g)
      <4>1. /\ queue' = q /\ is_creating_runtime' = FALSE /\ creating_generation' = 0
            /\ destroy_requested_while_creating' = FALSE /\ pending_creation_generation' = 0
        BY <1>2, <3>1 DEF Gui!Schedule, Gui!InFlight
      <4> QED BY <4>1
    <3>2. CASE ~ Gui!Schedulable(s, g)
      <4>1. queue' = q /\ UNCHANGED Gui!flightVars
        BY <1>2, <3>2 DEF Gui!Schedule, Gui!InFlight
      <4> QED BY <1>t, <4>1 DEF Gui!flightVars
    <3> QED BY <3>1, <3>2
  <2> QED BY <1>2, <1>f, <2>1
<1>3. CASE ~ is_creating_runtime /\ Gui!Schedulable(s, g) /\ live
  <2> DEFINE e == Gui!Create(g, s.parent)
  <2>1. /\ is_creating_runtime' = TRUE /\ creating_generation' = g
        /\ pending_creation_generation' = 0 /\ destroy_requested_while_creating' = FALSE
        /\ queue' = Append(q, e)
    BY <1>3 DEF Gui!Schedule, Gui!InFlight
  <2>2. e \in Gui!Posts /\ e.kind = "create" /\ e.generation = g
    <3>1. s.parent \in Parents
      BY <1>3 DEF Gui!Schedulable, Gui!Sessions
    <3> QED BY <3>1, PostShapes DEF Gui!Generations
  <2>3. e # Gui!ReleasePost /\ \A id : e # Gui!Remove(id)
    <3>1. /\ \A id : Gui!Remove(id).kind = "remove"
          /\ Gui!ReleasePost.kind = "release"
      BY PostShapes
    <3> QED BY <2>2, <3>1
  <2> HIDE DEF e
  <2>4. q \in Seq(Gui!Posts) /\ \A x : ~ Creating(q, x)
    BY <1>3, <1>f DEF QueueKept
  <2>5. QueueKept(queue', DOMAIN runtimes, next_id)
    BY <1>3, <2>1, <2>2, <2>4, QueueCreate
  <2>6. /\ \A id : Removed(queue', id) <=> Removed(q, id) \/ e = Gui!Remove(id)
        /\ \A x : Creating(queue', x) <=> Creating(q, x) \/ (e.kind = "create" /\ e.generation = x)
    BY <2>1, <2>2, <2>4, PostedIs
  <2>7. Cardinality(ReleasesAt(queue')) = Cardinality(ReleasesAt(q))
    <3>1. Cardinality(ReleasesAt(queue')) = Cardinality(ReleasesAt(q)) + 0
      BY <2>1, <2>2, <2>3, <2>4, PostCounts
    <3> QED BY <2>4, <3>1, ReleasesFinite
  <2>8. \A x : Creating(queue', x) => x = g
    BY <2>2, <2>4, <2>6
  <2> QED BY <1>3, <2>1, <2>3, <2>5, <2>6, <2>7, <2>8
<1> QED BY <1>1, <1>2, <1>3

\* A post that asks for a WebView for a session whose WebViews are all on their way out.
LEMMA AskInv ==
  ASSUME GuiInv, NEW t \in Threads, Gui!Admitted(t), Gui!Bind(t), session # NoSession,
         session' \in Gui!Sessions, session'.generation = session.generation,
         session'.handle = 0, session'.parent # NoParent, session'.parent_lease = t,
         NEW q, NEW s \in Gui!Sessions, NEW live \in BOOLEAN,
         QueueKept(q, DOMAIN runtimes, next_id), \A x : Creating(q, x) <=> Creating(queue, x),
         Cardinality(ReleasesAt(q)) = Cardinality(ReleasesAt(queue)),
         \A id \in DOMAIN runtimes : job.at \notin Made => Removed(q, id),
         Gui!Schedule(s, session.generation, q, live),
         IF Leased(session) THEN owner = t /\ UNCHANGED <<ref_count, owner>>
         ELSE Gui!MayAcquire(t) /\ Gui!Acquire(t),
         destroyed_before' \in BOOLEAN,
         UNCHANGED <<generation, scale, runtimes, next_id, job>>
  PROVE  GuiInv'
<1>1. /\ t # NoThread /\ gui_thread' = t /\ call' = call /\ dropped' = dropped
      /\ call.op = "none" /\ call.at = "idle" /\ calls_left' \in 0..MaxGuiCalls
      /\ gui_thread = t /\ owner = t => job.at \notin Made
      /\ ~ (job.at = "install" /\ Gui!Current)
  BY AdmittedAt
<1>2. /\ owner' = t /\ ref_count \in Nat /\ ref_count' \in Nat /\ owner \in {t, NoThread}
      /\ ref_count' = IF Leased(session) THEN ref_count ELSE ref_count + 1
  <2>1. ref_count \in Nat
    BY DEF GuiInv, Gui!TypeOK
  <2> QED BY <2>1 DEF Gui!MayAcquire, Gui!Acquire
<1>3. job.at \in Made \cup {"factory"} => owner = t /\ job.thread = t
  BY <1>2 DEF GuiInv, ThreadsKept, Made
<1>4. job.at \notin Made /\ \A id \in DOMAIN runtimes : Removed(q, id)
  <2>1. gui_thread = t /\ (owner = t => job.at \notin Made)
    BY AdmittedAt
  <2> QED BY <1>3, <2>1
<1>t. /\ session.generation \in Nat /\ generation \in Nat /\ pending_creation_generation \in Nat
      /\ session.generation <= generation /\ session \in Gui!Sessions
  <2>1. session \in Gui!Sessions /\ generation \in Nat /\ pending_creation_generation \in Nat
    BY DEF GuiInv, Gui!TypeOK, Gui!Generations
  <2> QED BY <2>1 DEF GuiInv, GenerationsKept, Gui!Sessions, Gui!Generations
<1>5. /\ QueueKept(queue', DOMAIN runtimes, next_id)
      /\ \A id : Removed(queue', id) <=> Removed(q, id)
      /\ Cardinality(ReleasesAt(queue')) = Cardinality(ReleasesAt(q))
      /\ \A x : Creating(queue', x) => Creating(queue, x) \/ x = session.generation
      /\ \A x : Creating(queue', x) => is_creating_runtime' /\ creating_generation' = x
      /\ is_creating_runtime => /\ is_creating_runtime' /\ creating_generation' = creating_generation
                                /\ \A x : Creating(queue', x) => Creating(queue, x)
      /\ pending_creation_generation' \in {pending_creation_generation, session.generation, 0}
      /\ is_creating_runtime' \in BOOLEAN /\ creating_generation' \in Nat
      /\ destroy_requested_while_creating' \in BOOLEAN
  <2> DEFINE g == session.generation
  <2>1. /\ g \in Nat /\ Gui!Schedule(s, g, q, live) /\ QueueKept(q, DOMAIN runtimes, next_id)
        /\ Gui!Schedulable(s, g) => s \in Gui!Sessions
        /\ ~ is_creating_runtime /\ Gui!Schedulable(s, g) => \A id \in DOMAIN runtimes : Removed(q, id)
    BY <1>4, <1>t
  <2> HIDE DEF g
  <2>2. /\ QueueKept(queue', DOMAIN runtimes, next_id)
        /\ \A id : Removed(queue', id) <=> Removed(q, id)
        /\ Cardinality(ReleasesAt(queue')) = Cardinality(ReleasesAt(q))
        /\ \A x : Creating(queue', x) => Creating(queue, x) \/ (x = g /\ Gui!Schedulable(s, g))
        /\ \A x : Creating(queue', x) => is_creating_runtime' /\ creating_generation' = x
        /\ is_creating_runtime => /\ is_creating_runtime' /\ creating_generation' = creating_generation
                                  /\ \A x : Creating(queue', x) => Creating(queue, x)
        /\ pending_creation_generation' \in {pending_creation_generation, g, 0}
        /\ is_creating_runtime' \in BOOLEAN /\ creating_generation' \in Nat
        /\ destroy_requested_while_creating' \in BOOLEAN
    BY <2>1, ScheduleStep
  <2> QED BY <2>2 DEF g
<1>6. session' # NoSession /\ Leased(session')
  BY <1>1, GuiAssumption DEF Leased
<1>7. pending_creation_generation' \in Nat /\ pending_creation_generation' <= generation
      /\ pending_creation_generation <= generation
  <2>1. pending_creation_generation <= generation
    BY DEF GuiInv, GenerationsKept
  <2> QED BY <1>5, <1>t, <2>1
<1>8. Gui!TypeOK'
  <2>1. queue' \in Seq(Gui!Posts)
    BY <1>5 DEF QueueKept
  <2> QED BY <1>1, <1>2, <1>5, <1>7, <1>t, <2>1 DEF GuiInv, Gui!TypeOK, Gui!Generations
<1>9. QueueKept(queue, DOMAIN runtimes, next_id)'
  BY <1>5
<1>10. FlightKept'
  BY <1>5 DEF GuiInv, FlightKept
<1>11. RuntimesKept'
  BY <1>4, <1>5 DEF GuiInv, RuntimesKept
<1>12. SessionKept'
  BY <1>1, <1>2, <1>6 DEF SessionKept
<1>13. GenerationsKept'
  BY <1>5, <1>6, <1>7, <1>t DEF GuiInv, GenerationsKept
<1>14. ThreadsKept'
  <2>1. Gui!Current' => Gui!Current
    BY DEF Gui!Current
  <2> QED BY <1>1, <1>2, <1>3, <2>1 DEF GuiInv, ThreadsKept
<1>15. LeasesKept'
  <2>1. /\ ref_count = LeaseSum(session, job.leased, DOMAIN runtimes, queue)
        /\ Cardinality(ReleasesAt(queue)) \in Nat /\ Cardinality(DOMAIN runtimes) \in Nat
    <3>1. queue \in Seq(Gui!Posts)
      BY DEF GuiInv, Gui!TypeOK
    <3> QED BY <3>1, ReleasesFinite, RuntimesFinite DEF GuiInv, LeasesKept
  <2>2. ref_count' = LeaseSum(session', job.leased, DOMAIN runtimes, queue')
    BY <1>2, <1>5, <1>6, <2>1 DEF LeaseSum
  <2>3. ref_count' > 0
    <3>1. Cardinality(ReleasesAt(queue')) = Cardinality(ReleasesAt(queue))
      BY <1>5
    <3> QED BY <1>6, <2>1, <2>2, <3>1 DEF LeaseSum
  <2> QED BY <1>1, <1>2, <2>2, <2>3 DEF LeasesKept
<1> QED BY <1>8, <1>9, <1>10, <1>11, <1>12, <1>13, <1>14, <1>15 DEF GuiInv

LEMMA SessionFields ==
  ASSUME NEW s \in Gui!Sessions, NEW v \in BOOLEAN, NEW c \in Scales
  PROVE  /\ [s EXCEPT !.visible = v] \in Gui!Sessions
         /\ [s EXCEPT !.scale = c] \in Gui!Sessions
         /\ [s EXCEPT !.visible = v] =
              [generation |-> s.generation, parent |-> s.parent, parent_lease |-> s.parent_lease,
               handle |-> s.handle, visible |-> v, scale |-> s.scale]
         /\ [s EXCEPT !.scale = c] =
              [generation |-> s.generation, parent |-> s.parent, parent_lease |-> s.parent_lease,
               handle |-> s.handle, visible |-> s.visible, scale |-> c]
BY DEF Gui!Sessions

\* show, hide: the WebView that is shown follows.
LEMMA VisibleInv ==
  ASSUME GuiInv, NEW t \in Threads, Gui!Admitted(t), Gui!Bind(t), session # NoSession,
         NEW v \in BOOLEAN, session' = [session EXCEPT !.visible = v],
         IF session.handle = 0 THEN UNCHANGED runtimes
         ELSE runtimes' = [runtimes EXCEPT ![session.handle].shown = v],
         UNCHANGED <<generation, is_creating_runtime, creating_generation,
                     pending_creation_generation, destroy_requested_while_creating,
                     destroyed_before, scale, next_id, ref_count, owner, queue, job>>
  PROVE  GuiInv'
<1>1. /\ session \in Gui!Sessions /\ scale \in Scales /\ DOMAIN runtimes \subseteq Gui!Ids
      /\ \A id \in DOMAIN runtimes : runtimes[id] \in Gui!Runtimes
      /\ session.scale \in Scales
  BY DEF GuiInv, Gui!TypeOK, Gui!Sessions
<1>2. /\ session' \in Gui!Sessions /\ session'.generation = session.generation
      /\ session'.parent = session.parent /\ session'.parent_lease = session.parent_lease
      /\ session'.handle = session.handle /\ session'.visible = v /\ session'.scale = session.scale
  <2> DEFINE w == [session EXCEPT !.visible = v]
  <2>1. /\ w \in Gui!Sessions
        /\ w = [generation |-> session.generation, parent |-> session.parent,
                parent_lease |-> session.parent_lease, handle |-> session.handle, visible |-> v,
                scale |-> session.scale]
    BY <1>1, SessionFields
  <2>2. session' = w
    OBVIOUS
  <2> HIDE DEF w
  <2> QED BY <2>1, <2>2
<1>3. session.handle # 0 => runtimes[session.handle].scale = session.scale
  BY DEF GuiInv, SessionKept
<1>4. /\ DOMAIN runtimes' = DOMAIN runtimes
      /\ \A id \in DOMAIN runtimes :
           /\ runtimes'[id] \in Gui!Runtimes /\ runtimes'[id].generation = runtimes[id].generation
           /\ id = session.handle => runtimes'[id].shown = v /\ runtimes'[id].scale = session.scale
  <2>1. CASE session.handle = 0
    BY <1>1, <2>1 DEF Gui!Ids
  <2>2. CASE session.handle # 0
    BY <1>1, <1>3, <2>2 DEF Gui!Runtimes
  <2> QED BY <2>1, <2>2
<1> QED BY <1>1, <1>2, <1>4, LookInv

LEMMA ScaleInv ==
  ASSUME GuiInv, NEW t \in Threads, NEW c \in Scales, Gui!SetScale(t, c)
  PROVE  GuiInv'
<1>0. /\ Gui!Admitted(t) /\ Gui!Bind(t) /\ scale' = c
      /\ UNCHANGED <<generation, is_creating_runtime, creating_generation,
                     pending_creation_generation, destroy_requested_while_creating,
                     destroyed_before, next_id, ref_count, owner, queue, job>>
  BY DEF Gui!SetScale, Gui!flightVars, Gui!leaseVars
<1>1. CASE session = NoSession
  BY <1>0, <1>1, IdleInv DEF Gui!SetScale
<1>2. CASE session # NoSession
  <2>1. /\ session \in Gui!Sessions /\ DOMAIN runtimes \subseteq Gui!Ids
        /\ \A id \in DOMAIN runtimes : runtimes[id] \in Gui!Runtimes
    BY <1>2 DEF GuiInv, Gui!TypeOK
  <2>2. /\ session' \in Gui!Sessions /\ session'.generation = session.generation
        /\ session'.parent = session.parent /\ session'.parent_lease = session.parent_lease
        /\ session'.handle = session.handle /\ session'.visible = session.visible
        /\ session'.scale = c
    <3> DEFINE w == [session EXCEPT !.scale = c]
    <3>1. /\ w \in Gui!Sessions
          /\ w = [generation |-> session.generation, parent |-> session.parent,
                  parent_lease |-> session.parent_lease, handle |-> session.handle,
                  visible |-> session.visible, scale |-> c]
      BY <2>1, SessionFields
    <3>2. session' = w
      BY <1>2 DEF Gui!SetScale
    <3> HIDE DEF w
    <3> QED BY <3>1, <3>2
  <2>3. session.handle # 0 => runtimes[session.handle].shown = session.visible
    BY <1>2 DEF GuiInv, SessionKept
  <2>4. IF session.handle = 0 THEN UNCHANGED runtimes
        ELSE runtimes' = [runtimes EXCEPT ![session.handle].scale = c]
    BY <1>2 DEF Gui!SetScale
  <2>5. /\ DOMAIN runtimes' = DOMAIN runtimes
        /\ \A id \in DOMAIN runtimes :
             /\ runtimes'[id] \in Gui!Runtimes /\ runtimes'[id].generation = runtimes[id].generation
             /\ id = session.handle => runtimes'[id].shown = session.visible /\ runtimes'[id].scale = c
    <3>1. CASE session.handle = 0
      BY <2>1, <2>4, <3>1 DEF Gui!Ids
    <3>2. CASE session.handle # 0
      BY <2>1, <2>3, <2>4, <3>2 DEF Gui!Runtimes
    <3> QED BY <3>1, <3>2
  <2> QED BY <1>0, <1>2, <2>2, <2>5, LookInv
<1> QED BY <1>1, <1>2

LEMMA HideInv ==
  ASSUME GuiInv, NEW t \in Threads, Gui!Hide(t)
  PROVE  GuiInv'
<1>0. /\ Gui!Admitted(t) /\ Gui!Bind(t) /\ scale \in Scales
      /\ UNCHANGED <<generation, is_creating_runtime, creating_generation,
                     pending_creation_generation, destroy_requested_while_creating,
                     destroyed_before, scale, next_id, ref_count, owner, queue, job>>
  BY DEF Gui!Hide, Gui!flightVars, Gui!leaseVars, GuiInv, Gui!TypeOK
<1>1. CASE session = NoSession
  BY <1>0, <1>1, IdleInv DEF Gui!Hide
<1>2. CASE session # NoSession
  <2>1. /\ session' = [session EXCEPT !.visible = FALSE]
        /\ IF session.handle = 0 THEN UNCHANGED runtimes
           ELSE runtimes' = [runtimes EXCEPT ![session.handle].shown = FALSE]
    BY <1>2 DEF Gui!Hide
  <2> QED BY <1>0, <1>2, <2>1, VisibleInv
<1> QED BY <1>1, <1>2

LEMMA ShowInv ==
  ASSUME GuiInv, NEW t \in Threads, Gui!Show(t)
  PROVE  GuiInv'
<1>0. /\ Gui!Admitted(t) /\ Gui!Bind(t) /\ scale \in Scales /\ destroyed_before \in BOOLEAN
      /\ UNCHANGED <<generation, destroyed_before, scale, next_id, ref_count, owner, job>>
  BY DEF Gui!Show, GuiInv, Gui!TypeOK
<1>1. CASE session = NoSession \/ (session.handle = 0 /\ session.parent = NoParent)
  <2>1. UNCHANGED <<session, is_creating_runtime, creating_generation, pending_creation_generation,
                    destroy_requested_while_creating, runtimes, queue>>
    BY <1>1 DEF Gui!Show, Gui!flightVars
  <2> QED BY <1>0, <2>1, IdleInv
<1>2. CASE session # NoSession /\ session.handle # 0
  <2>1. /\ runtimes' = [runtimes EXCEPT ![session.handle].shown = TRUE]
        /\ session' = [session EXCEPT !.visible = TRUE]
        /\ UNCHANGED <<is_creating_runtime, creating_generation, pending_creation_generation,
                       destroy_requested_while_creating, queue>>
    BY <1>2 DEF Gui!Show, Gui!flightVars
  <2> QED BY <1>0, <1>2, <2>1, VisibleInv
<1>3. CASE session # NoSession /\ session.handle = 0 /\ session.parent # NoParent
  <2>1. /\ Gui!Schedule(session, session.generation, queue, Gui!RunLoopLive)
        /\ session' = [session EXCEPT !.visible = TRUE] /\ UNCHANGED runtimes
    BY <1>3 DEF Gui!Show
  <2>2. session \in Gui!Sessions /\ Leased(session) /\ Gui!RunLoopLive \in BOOLEAN
    BY <1>3 DEF GuiInv, Gui!TypeOK, SessionKept, Leased, Gui!RunLoopLive
  <2>3. owner = t /\ session.parent_lease = t
    <3>1. owner = t
      BY <1>0, <2>2, AdmittedAt
    <3> QED BY <2>2, <3>1 DEF GuiInv, SessionKept
  <2>4. /\ session' \in Gui!Sessions /\ session'.generation = session.generation
        /\ session'.handle = 0 /\ session'.parent # NoParent /\ session'.parent_lease = t
    <3> DEFINE w == [session EXCEPT !.visible = TRUE]
    <3>1. /\ w \in Gui!Sessions
          /\ w = [generation |-> session.generation, parent |-> session.parent,
                  parent_lease |-> session.parent_lease, handle |-> session.handle, visible |-> TRUE,
                  scale |-> session.scale]
      <4>1. \A c \in Scales : w \in Gui!Sessions
        BY <2>2, SessionFields
      <4> QED BY <1>0, <2>2, SessionFields
    <3>2. session' = w
      BY <2>1
    <3> HIDE DEF w
    <3> QED BY <1>3, <2>3, <3>1, <3>2
  <2>5. \A id \in DOMAIN runtimes : job.at \notin Made => Removed(queue, id)
    <3>1. \A id \in DOMAIN runtimes : id # 0
      BY DEF GuiInv, Gui!TypeOK, Gui!Ids
    <3> QED BY <1>3, <3>1 DEF GuiInv, RuntimesKept
  <2>6. QueueKept(queue, DOMAIN runtimes, next_id)
    BY DEF GuiInv
  <2> HIDE DEF Gui!RunLoopLive
  <2> QED BY <1>0, <1>3, <2>1, <2>2, <2>3, <2>4, <2>5, <2>6, AskInv
<1> QED BY <1>1, <1>2, <1>3

LEMMA ParentInv ==
  ASSUME GuiInv, NEW t \in Threads, NEW p \in Parents, Gui!SetParent(t, p)
  PROVE  GuiInv'
<1>0. /\ Gui!Admitted(t) /\ Gui!Bind(t) /\ scale \in Scales /\ destroyed_before \in BOOLEAN
      /\ UNCHANGED <<generation, scale, runtimes, next_id, job>>
  BY DEF Gui!SetParent, Gui!tableVars, GuiInv, Gui!TypeOK
<1> DEFINE may == session # NoSession
                    /\ (IF Gui!NeedsLease THEN Gui!MayAcquire(t) ELSE owner = t)
           q == queue \o Gui!Removals(session)
           moved == Gui!Reparented(t, p)
<1>1. CASE ~ may
  <2>1. UNCHANGED <<session, is_creating_runtime, creating_generation, pending_creation_generation,
                    destroy_requested_while_creating, destroyed_before, ref_count, owner, queue>>
    BY <1>1 DEF Gui!SetParent, Gui!flightVars, Gui!leaseVars
  <2> QED BY <1>0, <2>1, IdleInv
<1>2. CASE may
  <2>1. /\ session' = moved /\ destroyed_before' = (destroyed_before \/ q # queue)
        /\ IF Gui!NeedsLease THEN Gui!Acquire(t) ELSE UNCHANGED <<ref_count, owner>>
        /\ Gui!Schedule(moved, moved.generation, q, TRUE)
    BY <1>2 DEF Gui!SetParent
  <2>2. session # NoSession /\ session \in Gui!Sessions
        /\ (IF Gui!NeedsLease THEN Gui!MayAcquire(t) ELSE owner = t)
    BY <1>2 DEF GuiInv, Gui!TypeOK
  <2>3. Gui!NeedsLease <=> ~ Leased(session)
    BY <2>2 DEF Gui!NeedsLease, GuiInv, SessionKept, Leased
  <2>4. /\ moved \in Gui!Sessions /\ moved.generation = session.generation /\ moved.handle = 0
        /\ moved.parent = p /\ moved.parent_lease = t
    BY <2>2 DEF Gui!Reparented, Gui!Sessions
  <2>5. p # NoParent
    BY GuiAssumption
  <2>6. /\ QueueKept(q, DOMAIN runtimes, next_id)
        /\ \A g : Creating(q, g) <=> Creating(queue, g)
        /\ \A id : Removed(q, id) <=> Removed(queue, id)
                     \/ (session # NoSession /\ session.handle # 0 /\ session.handle = id)
        /\ Cardinality(ReleasesAt(q)) = Cardinality(ReleasesAt(queue))
    BY RemovalsPosted
  <2>7. destroyed_before' \in BOOLEAN
    BY <1>0, <2>1
  <2> HIDE DEF moved, q
  <2>8. \A id \in DOMAIN runtimes : job.at \notin Made => Removed(q, id)
    <3>1. \A id \in DOMAIN runtimes : id # 0
      BY DEF GuiInv, Gui!TypeOK, Gui!Ids
    <3> QED BY <2>6, <3>1 DEF GuiInv, RuntimesKept
  <2>9. /\ Gui!Schedule(moved, session.generation, q, TRUE)
        /\ IF Leased(session) THEN owner = t /\ UNCHANGED <<ref_count, owner>>
           ELSE Gui!MayAcquire(t) /\ Gui!Acquire(t)
    BY <2>1, <2>2, <2>3, <2>4
  <2>10. /\ session' \in Gui!Sessions /\ session'.generation = session.generation
         /\ session'.handle = 0 /\ session'.parent # NoParent /\ session'.parent_lease = t
    BY <2>1, <2>4, <2>5
  <2> QED BY <1>0, <2>2, <2>4, <2>6, <2>7, <2>8, <2>9, <2>10, AskInv
<1> QED BY <1>1, <1>2

-----------------------------------------------------------------------------
(* Callbacks of the run loop. *)

\* A removal or a release is taken, at rest or while the factory pumps.
LEMMA TakenInv ==
  ASSUME GuiInv, job.at \in {"idle", "factory"},
         DOMAIN runtimes' \subseteq DOMAIN runtimes,
         \A id \in DOMAIN runtimes' : runtimes'[id] = runtimes[id],
         \A id \in DOMAIN runtimes : id \notin DOMAIN runtimes' => Removed(queue, id),
         QueueKept(queue', DOMAIN runtimes', next_id),
         \A g : Creating(queue', g) => Creating(queue, g),
         \A id \in DOMAIN runtimes' : Removed(queue', id) <=> Removed(queue, id),
         ref_count' \in Nat,
         ref_count' = LeaseSum(session, job.leased, DOMAIN runtimes', queue'),
         owner' # NoThread <=> ref_count' > 0,
         owner' = owner \/ (owner' = NoThread /\ ~ Leased(session) /\ ~ job.leased),
         UNCHANGED <<session, generation, is_creating_runtime, creating_generation,
                     pending_creation_generation, destroy_requested_while_creating,
                     destroyed_before, scale, next_id, job, call, gui_thread, dropped, calls_left>>
  PROVE  GuiInv'
<1>1. job.at \notin Made
  BY DEF Made
<1>2. session # NoSession /\ session.handle # 0 => session.handle \in DOMAIN runtimes'
  BY DEF GuiInv, SessionKept
<1>3. Gui!TypeOK'
  <2>1. queue' \in Seq(Gui!Posts) /\ owner' \in Threads \cup {NoThread}
    BY DEF QueueKept, GuiInv, Gui!TypeOK
  <2>2. DOMAIN runtimes' \subseteq Gui!Ids /\ \A id \in DOMAIN runtimes' : runtimes'[id] \in Gui!Runtimes
    BY DEF GuiInv, Gui!TypeOK
  <2> QED BY <2>1, <2>2 DEF GuiInv, Gui!TypeOK
<1>4. QueueKept(queue, DOMAIN runtimes, next_id)' /\ LeasesKept'
  BY DEF LeasesKept
<1>5. FlightKept' /\ GenerationsKept'
  BY DEF GuiInv, FlightKept, GenerationsKept, Leased
<1>6. RuntimesKept'
  BY <1>1 DEF GuiInv, RuntimesKept
<1>7. SessionKept'
  <2>1. session # NoSession /\ session.handle # 0 => ~ Removed(queue', session.handle)
    BY <1>2 DEF GuiInv, SessionKept
  <2>2. Leased(session) => owner' = owner
    OBVIOUS
  <2> QED BY <1>2, <2>1, <2>2 DEF GuiInv, SessionKept, Leased
<1>8. ThreadsKept'
  <2>1. job.at = "factory" => owner' = owner
    BY DEF GuiInv, RuntimesKept
  <2> QED BY <1>1, <2>1 DEF GuiInv, ThreadsKept, Made
<1> QED BY <1>3, <1>4, <1>5, <1>6, <1>7, <1>8 DEF GuiInv

LEMMA TakesAt ==
  ASSUME GuiInv, NEW kind, Gui!RunLoopTakes(kind)
  PROVE  /\ queue # <<>> /\ queue \in Seq(Gui!Posts) /\ Head(queue).kind = kind
         /\ job.at \in {"idle", "factory"} /\ owner # NoThread /\ ref_count \in Nat
         /\ owner \in Threads \cup {NoThread} /\ Head(queue) \in Gui!Posts
         /\ job.leased \in BOOLEAN /\ next_id \in Nat /\ IsFiniteSet(DOMAIN runtimes)
         /\ ref_count = LeaseSum(session, job.leased, DOMAIN runtimes, queue)
         /\ owner # NoThread <=> ref_count > 0
         /\ Cardinality(ReleasesAt(Tail(queue))) \in Nat
<1>1. /\ queue # <<>> /\ queue \in Seq(Gui!Posts) /\ Head(queue).kind = kind
      /\ job.at \in {"idle", "factory"} /\ owner # NoThread /\ ref_count \in Nat
      /\ owner \in Threads \cup {NoThread} /\ job.leased \in BOOLEAN /\ next_id \in Nat
  BY DEF Gui!RunLoopTakes, Gui!RunLoopLive, GuiInv, Gui!TypeOK, Gui!Ids
<1>2. Head(queue) \in Gui!Posts /\ Tail(queue) \in Seq(Gui!Posts)
  BY <1>1, TakeAt
<1>3. ref_count = LeaseSum(session, job.leased, DOMAIN runtimes, queue) /\ (owner # NoThread <=> ref_count > 0)
  BY DEF GuiInv, LeasesKept
<1>4. IsFiniteSet(DOMAIN runtimes)
  BY RuntimesFinite
<1> QED BY <1>1, <1>2, <1>3, <1>4, ReleasesFinite

LEMMA RemoveInv ==
  ASSUME GuiInv, Gui!RunRemove
  PROVE  GuiInv'
<1> DEFINE id == Head(queue).id
           q == Tail(queue)
<1>1. /\ queue # <<>> /\ queue \in Seq(Gui!Posts) /\ Head(queue).kind = "remove"
      /\ job.at \in {"idle", "factory"} /\ owner # NoThread /\ ref_count \in Nat
      /\ owner \in Threads \cup {NoThread} /\ Head(queue) \in Gui!Posts
      /\ job.leased \in BOOLEAN /\ next_id \in Nat /\ IsFiniteSet(DOMAIN runtimes)
      /\ ref_count = LeaseSum(session, job.leased, DOMAIN runtimes, queue)
      /\ owner # NoThread <=> ref_count > 0
      /\ Cardinality(ReleasesAt(q)) \in Nat
  <2>1. Gui!RunLoopTakes("remove")
    BY DEF Gui!RunRemove
  <2> QED BY <2>1, TakesAt
<1>2. /\ UNCHANGED <<session, generation, is_creating_runtime, creating_generation,
                     pending_creation_generation, destroy_requested_while_creating,
                     destroyed_before, scale, next_id, job, call, gui_thread, dropped, calls_left>>
      /\ IF id \in DOMAIN runtimes
         THEN /\ runtimes' = [i \in DOMAIN runtimes \ {id} |-> runtimes[i]]
              /\ Gui!Release(q)
         ELSE queue' = q /\ UNCHANGED <<runtimes, ref_count, owner>>
  BY DEF Gui!RunRemove, Gui!flightVars, Gui!hostVars
<1>3. /\ Head(queue) = Gui!Remove(id) /\ Head(queue) # Gui!ReleasePost
      /\ \A i : Head(queue) = Gui!Remove(i) <=> i = id
  BY <1>1, PostShapes
<1>4. /\ \A i : Removed(queue, i) <=> Removed(q, i) \/ i = id
      /\ \A g : Creating(q, g) => Creating(queue, g)
      /\ q \in Seq(Gui!Posts)
  <2>1. \A i : Removed(queue, i) <=> Removed(q, i) \/ Head(queue) = Gui!Remove(i)
    BY <1>1, TakenIs
  <2>2. \A g : Creating(q, g) => Creating(queue, g)
    BY <1>1, TakenIs
  <2> QED BY <1>1, <1>3, <2>1, <2>2, TakeAt
<1>5. Cardinality(ReleasesAt(queue)) = Cardinality(ReleasesAt(q))
  <2>1. Cardinality(ReleasesAt(queue)) = Cardinality(ReleasesAt(q)) + 0
    BY <1>1, <1>3, TakeCounts
  <2> QED BY <1>1, <2>1
<1>6. QueueKept(q, DOMAIN runtimes \ {id}, next_id)
  <2>1. \A i \in DOMAIN runtimes \ {id} : Head(queue) # Gui!Remove(i)
    BY <1>3
  <2>2. QueueKept(queue, DOMAIN runtimes, next_id) /\ DOMAIN runtimes \ {id} \in SUBSET DOMAIN runtimes
    BY DEF GuiInv
  <2> QED BY <1>1, <2>1, <2>2, QueueTaken
<1> HIDE DEF q, id
<1>7. CASE id \in DOMAIN runtimes
  <2>1. DOMAIN runtimes = {id} /\ DOMAIN runtimes' = {} /\ Gui!Release(q)
    <3>1. DOMAIN runtimes = {id}
      BY <1>7 DEF GuiInv, RuntimesKept
    <3> QED BY <1>2, <1>7, <3>1
  <2>2. ref_count - 1 = LeaseSum(session, job.leased, {}, q)
    <3>1. Cardinality(DOMAIN runtimes) = 1 /\ Cardinality({}) = 0
      BY <2>1, FS_EmptySet, FS_Singleton
    <3> QED BY <1>1, <1>5, <3>1 DEF LeaseSum
  <2>3. /\ ref_count' \in Nat /\ queue' \in Seq(Gui!Posts) /\ queue' \in {q, <<>>}
        /\ ref_count' = LeaseSum(session, job.leased, {}, queue')
        /\ owner' # NoThread <=> ref_count' > 0
        /\ \/ owner' = owner /\ queue' = q /\ owner # NoThread
           \/ owner' = NoThread /\ ~ Leased(session) /\ ~ job.leased /\ {} = {}
    BY <1>1, <1>4, <2>1, <2>2, FS_EmptySet, ReleaseLast
  <2>4. QueueKept(queue', {}, next_id) /\ \A g : Creating(queue', g) => Creating(queue, g)
    <3>1. DOMAIN runtimes \ {id} = {}
      BY <2>1
    <3> QED BY <1>4, <1>6, <2>3, <3>1, QueueEmpty
  <2>5. \A i \in DOMAIN runtimes : Removed(queue, i)
    BY <1>4, <2>1
  <2> QED BY <1>1, <1>2, <2>1, <2>3, <2>4, <2>5, TakenInv
<1>8. CASE id \notin DOMAIN runtimes
  <2>1. queue' = q /\ UNCHANGED <<runtimes, ref_count, owner>> /\ DOMAIN runtimes \ {id} = DOMAIN runtimes
    BY <1>2, <1>8
  <2>2. ref_count = LeaseSum(session, job.leased, DOMAIN runtimes, q)
    BY <1>1, <1>5 DEF LeaseSum
  <2>3. QueueKept(q, DOMAIN runtimes, next_id)
    BY <1>6, <2>1
  <2>4. \A i \in DOMAIN runtimes : Removed(q, i) <=> Removed(queue, i)
    BY <1>4, <1>8
  <2> QED BY <1>1, <1>2, <1>4, <2>1, <2>2, <2>3, <2>4, TakenInv
<1> QED BY <1>7, <1>8

LEMMA ReleaseInv ==
  ASSUME GuiInv, Gui!RunRelease
  PROVE  GuiInv'
<1> DEFINE q == Tail(queue)
<1>1. /\ queue # <<>> /\ queue \in Seq(Gui!Posts) /\ Head(queue).kind = "release"
      /\ job.at \in {"idle", "factory"} /\ owner # NoThread /\ ref_count \in Nat
      /\ owner \in Threads \cup {NoThread} /\ Head(queue) \in Gui!Posts
      /\ job.leased \in BOOLEAN /\ next_id \in Nat /\ IsFiniteSet(DOMAIN runtimes)
      /\ ref_count = LeaseSum(session, job.leased, DOMAIN runtimes, queue)
      /\ owner # NoThread <=> ref_count > 0
      /\ Cardinality(ReleasesAt(q)) \in Nat
  <2>1. Gui!RunLoopTakes("release")
    BY DEF Gui!RunRelease
  <2> QED BY <2>1, TakesAt
<1>2. /\ UNCHANGED <<session, generation, is_creating_runtime, creating_generation,
                     pending_creation_generation, destroy_requested_while_creating,
                     destroyed_before, scale, runtimes, next_id, job, call, gui_thread, dropped,
                     calls_left>>
      /\ Gui!Release(q)
  BY DEF Gui!RunRelease, Gui!flightVars, Gui!tableVars, Gui!hostVars
<1>3. Head(queue) = Gui!ReleasePost /\ \A i : Head(queue) # Gui!Remove(i)
  <2>1. Head(queue) = Gui!ReleasePost
    BY <1>1, PostShapes
  <2>2. \A i : Gui!Remove(i).kind = "remove"
    BY PostShapes
  <2> QED BY <1>1, <2>1, <2>2
<1>4. /\ \A i : Removed(queue, i) <=> Removed(q, i)
      /\ \A g : Creating(q, g) => Creating(queue, g)
      /\ q \in Seq(Gui!Posts)
  <2>1. \A i : Removed(queue, i) <=> Removed(q, i) \/ Head(queue) = Gui!Remove(i)
    BY <1>1, TakenIs
  <2>2. \A g : Creating(q, g) => Creating(queue, g)
    BY <1>1, TakenIs
  <2> QED BY <1>1, <1>3, <2>1, <2>2, TakeAt
<1>5. Cardinality(ReleasesAt(queue)) = Cardinality(ReleasesAt(q)) + 1
  BY <1>1, <1>3, TakeCounts
<1>6. QueueKept(q, DOMAIN runtimes, next_id)
  <2>1. QueueKept(queue, DOMAIN runtimes, next_id) /\ DOMAIN runtimes \in SUBSET DOMAIN runtimes
    BY DEF GuiInv
  <2> QED BY <1>1, <1>3, <2>1, QueueTaken
<1> HIDE DEF q
<1>7. ref_count - 1 = LeaseSum(session, job.leased, DOMAIN runtimes, q)
  BY <1>1, <1>5, FS_CardinalityType DEF LeaseSum
<1>8. /\ ref_count' \in Nat /\ queue' \in Seq(Gui!Posts) /\ queue' \in {q, <<>>}
      /\ ref_count' = LeaseSum(session, job.leased, DOMAIN runtimes, queue')
      /\ owner' # NoThread <=> ref_count' > 0
      /\ \/ owner' = owner /\ queue' = q /\ owner # NoThread
         \/ owner' = NoThread /\ ~ Leased(session) /\ ~ job.leased /\ DOMAIN runtimes = {}
  BY <1>1, <1>2, <1>4, <1>7, ReleaseLast
<1>9. /\ QueueKept(queue', DOMAIN runtimes, next_id)
      /\ \A g : Creating(queue', g) => Creating(queue, g)
  BY <1>4, <1>6, <1>8, QueueEmpty
<1>10. \A i \in DOMAIN runtimes : Removed(queue', i) <=> Removed(queue, i)
  BY <1>4, <1>8
<1> QED BY <1>1, <1>2, <1>8, <1>9, <1>10, TakenInv

LEMMA JobFields ==
  ASSUME GuiInv
  PROVE  /\ job \in Jobs /\ (job.leased <=> job.at = "factory")
         /\ \A a \in Gui!JobSteps :
              LET j == [job EXCEPT !.at = a]
              IN  /\ j \in Jobs /\ j.at = a /\ j.thread = job.thread
                  /\ j.generation = job.generation /\ j.parent = job.parent
                  /\ j.id = job.id /\ j.leased = job.leased
<1>1. job \in Jobs /\ (job.leased <=> job.at = "factory")
  BY DEF GuiInv, Gui!TypeOK, RuntimesKept, Jobs
<1>2. ASSUME NEW a \in Gui!JobSteps
      PROVE  LET j == [job EXCEPT !.at = a]
             IN  /\ j \in Jobs /\ j.at = a /\ j.thread = job.thread
                 /\ j.generation = job.generation /\ j.parent = job.parent
                 /\ j.id = job.id /\ j.leased = job.leased
  BY <1>1 DEF Jobs
<1> QED BY <1>1, <1>2

\* A creation that has no WebView and no lease yet, or no more, goes on.
LEMMA JobInv ==
  ASSUME GuiInv, job.at \notin Made \cup {"factory"},
         job' \in Jobs, job'.at \notin Made \cup {"factory"}, job'.leased = FALSE,
         job'.at \in Making =>
           job.at \in Making /\ job'.generation = job.generation /\ job'.parent = job.parent,
         job'.at # "idle" => job'.thread # NoThread /\ job'.generation <= generation,
         pending_creation_generation' \in {pending_creation_generation, 0},
         UNCHANGED <<session, generation, is_creating_runtime, creating_generation,
                     destroy_requested_while_creating, destroyed_before, scale, runtimes, next_id,
                     ref_count, owner, queue, call, gui_thread, dropped, calls_left>>
  PROVE  GuiInv'
<1>1. job.leased = FALSE
  BY JobFields DEF Jobs
<1>2. pending_creation_generation' \in Nat /\ pending_creation_generation' <= generation
  BY DEF GuiInv, Gui!TypeOK, GenerationsKept, Gui!Generations
<1>3. Gui!TypeOK'
  BY <1>2 DEF GuiInv, Gui!TypeOK, Gui!Generations, Jobs
<1>4. QueueKept(queue, DOMAIN runtimes, next_id)'
  BY DEF GuiInv
<1>5. FlightKept'
  BY DEF GuiInv, FlightKept, Made
<1>6. RuntimesKept'
  BY DEF GuiInv, RuntimesKept
<1>7. SessionKept'
  BY DEF GuiInv, SessionKept, Leased
<1>8. GenerationsKept'
  BY <1>2 DEF GuiInv, GenerationsKept, Leased
<1>9. ThreadsKept'
  BY DEF GuiInv, ThreadsKept, Made
<1>10. LeasesKept'
  BY <1>1 DEF GuiInv, LeasesKept, LeaseSum, Leased
<1> QED BY <1>3, <1>4, <1>5, <1>6, <1>7, <1>8, <1>9, <1>10 DEF GuiInv

LEMMA ReadInv ==
  ASSUME GuiInv, Gui!ReadInputs
  PROVE  GuiInv'
<1>1. /\ job.at \in {"inputs", "inputs again"}
      /\ UNCHANGED <<session, generation, is_creating_runtime, creating_generation,
                     pending_creation_generation, destroy_requested_while_creating,
                     destroyed_before, scale, runtimes, next_id, ref_count, owner, queue, call,
                     gui_thread, dropped, calls_left>>
  BY DEF Gui!ReadInputs, Gui!JobAt, Gui!flightVars, Gui!tableVars, Gui!leaseVars, Gui!hostVars
<1>2. job \in Jobs /\ job.leased = FALSE
  BY <1>1, JobFields DEF Jobs
<1>3. job.thread # NoThread /\ job.generation <= generation
  BY <1>1 DEF GuiInv, ThreadsKept, GenerationsKept
<1>4. /\ job' \in Jobs /\ job'.at \in {"quiet", "convert", "pending"} /\ job'.leased = FALSE
      /\ job'.generation = job.generation /\ job'.thread = job.thread /\ job'.parent = job.parent
  <2>1. CASE Gui!Current
    <3>1. session.scale \in Scales
      BY <2>1 DEF Gui!Current, GuiInv, Gui!TypeOK, Gui!Sessions
    <3>2. job' = [job EXCEPT !.scale = session.scale,
                             !.at = IF job.at = "inputs" THEN "quiet" ELSE "convert"]
      BY <2>1 DEF Gui!ReadInputs
    <3> QED BY ZenonT(40), <1>2, <3>1, <3>2 DEF Jobs, Gui!JobSteps
  <2>2. CASE ~ Gui!Current
    <3>1. job' = [job EXCEPT !.at = "pending"] /\ "pending" \in Gui!JobSteps
      BY <2>2 DEF Gui!ReadInputs, Gui!JobGoto, Gui!JobSteps
    <3> QED BY <1>2, <3>1, JobFields
  <2> QED BY <2>1, <2>2
<1>5. job.at \in Making /\ job.at \notin Made \cup {"factory"} /\ job'.at \notin Made \cup {"factory"}
  BY <1>1, <1>4 DEF Making, Made
<1> QED BY <1>1, <1>3, <1>4, <1>5, JobInv

\* The quiet period, a parent that fails to convert, and the pending generation.
LEMMA GotoInv ==
  ASSUME GuiInv, Gui!QuietPeriod \/ Gui!ConvertFails
  PROVE  GuiInv'
<1>1. /\ job.at \in {"quiet", "convert"}
      /\ \E a \in {"convert", "inputs again", "pending"} : job' = [job EXCEPT !.at = a]
      /\ UNCHANGED <<session, generation, is_creating_runtime, creating_generation,
                     pending_creation_generation, destroy_requested_while_creating,
                     destroyed_before, scale, runtimes, next_id, ref_count, owner, queue, call,
                     gui_thread, dropped, calls_left>>
  BY DEF Gui!QuietPeriod, Gui!ConvertFails, Gui!JobAt, Gui!JobGoto, Gui!flightVars, Gui!tableVars,
         Gui!leaseVars, Gui!hostVars
<1>2. job.thread # NoThread /\ job.generation <= generation
  BY <1>1 DEF GuiInv, ThreadsKept, GenerationsKept
<1>3. /\ job' \in Jobs /\ job'.at \in {"convert", "inputs again", "pending"}
      /\ job'.leased = FALSE /\ job'.generation = job.generation /\ job'.thread = job.thread
      /\ job'.parent = job.parent
  <2>1. PICK a \in {"convert", "inputs again", "pending"} : job' = [job EXCEPT !.at = a]
    BY <1>1
  <2>2. a \in Gui!JobSteps
    BY <2>1 DEF Gui!JobSteps
  <2>3. job.leased = FALSE
    BY <1>1, JobFields DEF Jobs
  <2> QED BY <2>1, <2>2, <2>3, JobFields
<1>4. job.at \in Making /\ job.at \notin Made \cup {"factory"} /\ job'.at \notin Made \cup {"factory"}
  BY <1>1, <1>3 DEF Making, Made
<1> QED BY <1>1, <1>2, <1>3, <1>4, JobInv

LEMMA PendingInv ==
  ASSUME GuiInv, Gui!TakePending
  PROVE  GuiInv'
<1>1. /\ job.at = "pending" /\ pending_creation_generation' = 0
      /\ UNCHANGED <<session, generation, is_creating_runtime, creating_generation,
                     destroy_requested_while_creating, destroyed_before, scale, runtimes, next_id,
                     ref_count, owner, queue, call, gui_thread, dropped, calls_left>>
      /\ \/ job' = Gui!NoJob
         \/ job' = [job EXCEPT !.at = "schedule", !.generation = pending_creation_generation]
  BY DEF Gui!TakePending, Gui!JobAt, Gui!tableVars, Gui!leaseVars, Gui!hostVars
<1>2. /\ job \in Jobs /\ job.leased = FALSE /\ job.thread # NoThread
      /\ pending_creation_generation \in Gui!Generations
      /\ pending_creation_generation <= generation
  <2>1. job \in Jobs /\ job.leased = FALSE
    BY <1>1, JobFields DEF Jobs
  <2> QED BY <1>1, <2>1 DEF GuiInv, ThreadsKept, GenerationsKept, Gui!TypeOK
<1>3. /\ job' \in Jobs /\ job'.at \in {"idle", "schedule"} /\ job'.leased = FALSE
      /\ job'.at = "schedule" => /\ job'.thread = job.thread
                                 /\ job'.generation = pending_creation_generation
  <2>1. CASE job' = Gui!NoJob
    BY <2>1 DEF Jobs, Gui!JobSteps, Gui!NoJob, Gui!Generations
  <2>2. CASE job' = [job EXCEPT !.at = "schedule", !.generation = pending_creation_generation]
    BY <1>2, <2>2 DEF Jobs, Gui!JobSteps
  <2> QED BY <1>1, <2>1, <2>2
<1>4. job.at \notin Made \cup {"factory"} /\ job'.at \notin Made \cup {"factory"} /\ job'.at \notin Making
  BY <1>1, <1>3 DEF Making, Made
<1>5. job'.at # "idle" => job'.thread # NoThread /\ job'.generation <= generation
  BY <1>2, <1>3
<1> QED BY <1>1, <1>3, <1>4, <1>5, JobInv

\* The creation that is taken finds no WebView: all of them were removed before it.
LEMMA CreateInv ==
  ASSUME GuiInv, Gui!RunCreate
  PROVE  GuiInv'
<1> DEFINE q == Tail(queue)
           e == Head(queue)
<1>1. /\ queue # <<>> /\ queue \in Seq(Gui!Posts) /\ e.kind = "create"
      /\ owner # NoThread /\ owner \in Threads \cup {NoThread} /\ e \in Gui!Posts
      /\ Cardinality(ReleasesAt(q)) \in Nat
  <2>1. Gui!RunLoopTakes("create")
    BY DEF Gui!RunCreate
  <2> QED BY <2>1, TakesAt
<1>2. /\ UNCHANGED <<session, generation, is_creating_runtime, creating_generation,
                     pending_creation_generation, destroy_requested_while_creating,
                     destroyed_before, scale, runtimes, next_id, ref_count, owner, call,
                     gui_thread, dropped, calls_left>>
      /\ queue' = q /\ job.at = "idle"
      /\ job' = [Gui!NoJob EXCEPT !.at = "inputs", !.thread = owner, !.generation = e.generation,
                                  !.parent = e.parent]
  BY DEF Gui!RunCreate, Gui!flightVars, Gui!tableVars, Gui!hostVars
<1>3. e.generation \in Gui!Generations /\ e.parent \in Parents
  BY <1>1, PostShapes
<1>4. /\ job' \in Jobs /\ job'.at = "inputs" /\ job'.thread = owner
      /\ job'.generation = e.generation /\ job'.leased = FALSE /\ job'.parent \in Parents
  <2> DEFINE g == e.generation
             p == e.parent
  <2>1. /\ g \in Gui!Generations /\ p \in Parents
        /\ job' = [Gui!NoJob EXCEPT !.at = "inputs", !.thread = owner, !.generation = g, !.parent = p]
    BY <1>2, <1>3
  <2> HIDE DEF g, p
  <2>2. /\ job' \in Jobs /\ job'.at = "inputs" /\ job'.thread = owner
        /\ job'.generation = g /\ job'.leased = FALSE /\ job'.parent \in Parents
    BY <1>1, <2>1 DEF Jobs, Gui!NoJob, Gui!JobSteps, Gui!Ids
  <2> QED BY <2>2 DEF g
<1>5. job.leased = FALSE
  BY <1>2, JobFields DEF Jobs
<1>6. e # Gui!ReleasePost /\ \A i : e # Gui!Remove(i)
  <2>1. Gui!ReleasePost.kind = "release" /\ \A i : Gui!Remove(i).kind = "remove"
    BY PostShapes
  <2> QED BY <1>1, <2>1
<1>7. /\ QueueKept(q, DOMAIN runtimes, next_id) /\ DOMAIN runtimes = {}
      /\ \A g : ~ Creating(q, g)
  <2>1. QueueKept(queue, DOMAIN runtimes, next_id) /\ DOMAIN runtimes \in SUBSET DOMAIN runtimes
    BY DEF GuiInv
  <2> QED BY <1>1, <1>6, <2>1, QueueTaken
<1>8. /\ \A i : Removed(queue, i) <=> Removed(q, i)
      /\ Creating(queue, e.generation)
  <2>1. \A i : Removed(queue, i) <=> Removed(q, i) \/ e = Gui!Remove(i)
    BY <1>1, TakenIs
  <2>2. \A g : Creating(queue, g) <=> Creating(q, g) \/ (e.kind = "create" /\ e.generation = g)
    BY <1>1, TakenIs
  <2> QED BY <1>1, <1>6, <2>1, <2>2
<1>9. Cardinality(ReleasesAt(queue)) = Cardinality(ReleasesAt(q))
  <2>1. Cardinality(ReleasesAt(queue)) = Cardinality(ReleasesAt(q)) + 0
    BY <1>1, <1>6, TakeCounts
  <2> QED BY <1>1, <2>1
<1>10. is_creating_runtime /\ creating_generation = e.generation /\ e.generation <= generation
  BY <1>8 DEF GuiInv, FlightKept, GenerationsKept
<1> HIDE DEF q, e
<1>11. Gui!TypeOK'
  BY <1>2, <1>4, <1>7 DEF GuiInv, Gui!TypeOK, QueueKept, Jobs
<1>12. QueueKept(queue, DOMAIN runtimes, next_id)'
  BY <1>2, <1>7
<1>13. FlightKept'
  BY <1>2, <1>4, <1>7, <1>10 DEF FlightKept
<1>14. RuntimesKept'
  BY <1>2, <1>4, <1>7 DEF RuntimesKept, Made
<1>15. SessionKept'
  BY <1>2, <1>4, <1>8 DEF GuiInv, SessionKept, Leased, Made
<1>16. GenerationsKept'
  <2>1. session # NoSession /\ ~ Leased(session) => e.generation # session.generation
    BY <1>8 DEF GuiInv, GenerationsKept
  <2> QED BY <1>2, <1>4, <1>7, <1>10, <2>1 DEF GuiInv, GenerationsKept, Leased
<1>17. ThreadsKept'
  BY <1>1, <1>2, <1>4 DEF ThreadsKept, Made
<1>18. LeasesKept'
  BY <1>2, <1>4, <1>5, <1>9 DEF GuiInv, LeasesKept, LeaseSum, Leased
<1> QED BY <1>11, <1>12, <1>13, <1>14, <1>15, <1>16, <1>17, <1>18 DEF GuiInv

\* The lease that will live with the WebView.
LEMMA EnterInv ==
  ASSUME GuiInv, Gui!EnterFactory
  PROVE  GuiInv'
<1>1. /\ job.at = "convert" /\ owner \in {NoThread, job.thread}
      /\ ref_count' = ref_count + 1 /\ owner' = job.thread
      /\ job' = [job EXCEPT !.at = "factory", !.leased = TRUE]
      /\ UNCHANGED <<session, generation, is_creating_runtime, creating_generation,
                     pending_creation_generation, destroy_requested_while_creating,
                     destroyed_before, scale, runtimes, next_id, queue, call, gui_thread, dropped,
                     calls_left>>
  BY DEF Gui!EnterFactory, Gui!JobAt, Gui!MayAcquire, Gui!Acquire, Gui!flightVars, Gui!tableVars,
         Gui!hostVars
<1>2. /\ job \in Jobs /\ job.leased = FALSE /\ job.thread # NoThread
      /\ job.generation <= generation /\ job.thread \in Threads \cup {NoThread}
  <2>1. job \in Jobs /\ job.leased = FALSE
    BY <1>1, JobFields DEF Jobs
  <2> QED BY <1>1, <2>1 DEF GuiInv, ThreadsKept, GenerationsKept, Jobs
<1>3. /\ job' \in Jobs /\ job'.at = "factory" /\ job'.leased = TRUE
      /\ job'.thread = job.thread /\ job'.generation = job.generation
      /\ job'.parent \in Parents
  <2>1. job.parent \in Parents
    BY <1>1 DEF GuiInv, ThreadsKept, Making
  <2> QED BY <1>1, <1>2, <2>1 DEF Jobs, Gui!JobSteps
<1>4. Leased(session) => owner' = owner
  BY <1>1 DEF GuiInv, SessionKept, Leased
<1>5. /\ ref_count \in Nat /\ ref_count = LeaseSum(session, job.leased, DOMAIN runtimes, queue)
      /\ Cardinality(DOMAIN runtimes) \in Nat /\ Cardinality(ReleasesAt(queue)) \in Nat
  <2>1. ref_count \in Nat /\ queue \in Seq(Gui!Posts)
    BY DEF GuiInv, Gui!TypeOK
  <2> QED BY <2>1, RuntimesFinite, ReleasesFinite DEF GuiInv, LeasesKept
<1>6. Gui!TypeOK'
  BY <1>1, <1>2, <1>3, <1>5 DEF GuiInv, Gui!TypeOK, Jobs
<1>7. QueueKept(queue, DOMAIN runtimes, next_id)'
  BY <1>1 DEF GuiInv
<1>8. FlightKept'
  BY <1>1, <1>3 DEF GuiInv, FlightKept, Making
<1>9. RuntimesKept'
  BY <1>1, <1>3 DEF GuiInv, RuntimesKept, Making, Made
<1>10. SessionKept'
  BY <1>1, <1>3, <1>4 DEF GuiInv, SessionKept, Leased, Made
<1>11. GenerationsKept'
  BY <1>1, <1>2, <1>3 DEF GuiInv, GenerationsKept, Leased, Making, Made
<1>12. ThreadsKept'
  BY <1>1, <1>2, <1>3 DEF ThreadsKept, Made
<1>13. LeasesKept'
  <2>1. ref_count' = LeaseSum(session, TRUE, DOMAIN runtimes, queue)
    BY <1>1, <1>2, <1>5 DEF LeaseSum
  <2>2. ref_count' > 0
    BY <1>1, <1>5
  <2> QED BY <1>1, <1>2, <1>3, <2>1, <2>2 DEF LeasesKept
<1> QED BY <1>6, <1>7, <1>8, <1>9, <1>10, <1>11, <1>12, <1>13 DEF GuiInv

\* A factory that fails gives its lease back; the session has no WebView.
LEMMA FailsInv ==
  ASSUME GuiInv, Gui!FactoryFails
  PROVE  GuiInv'
<1>1. /\ job.at = "factory" /\ Gui!ClearFlight /\ Gui!Release(queue)
      /\ job' = [job EXCEPT !.at = "pending", !.leased = FALSE]
      /\ UNCHANGED <<session, generation, destroyed_before, scale, runtimes, next_id, call,
                     gui_thread, dropped, calls_left>>
  BY DEF Gui!FactoryFails, Gui!JobAt, Gui!tableVars, Gui!hostVars
<1>2. /\ job \in Jobs /\ job.leased = TRUE /\ job.thread # NoThread /\ job.generation <= generation
      /\ DOMAIN runtimes = {} /\ \A g : ~ Creating(queue, g)
      /\ creating_generation = job.generation
  <2>1. job \in Jobs /\ job.leased = TRUE
    BY <1>1, JobFields DEF Jobs
  <2> QED BY <1>1, <2>1 DEF GuiInv, ThreadsKept, GenerationsKept, RuntimesKept, FlightKept, Making
<1>3. /\ is_creating_runtime' = FALSE /\ creating_generation' = 0
      /\ pending_creation_generation' = 0 /\ destroy_requested_while_creating' = FALSE
  BY <1>1, <1>2 DEF Gui!ClearFlight
<1>4. /\ job' \in Jobs /\ job'.at = "pending" /\ job'.leased = FALSE
      /\ job'.thread = job.thread /\ job'.generation = job.generation
  BY <1>1, <1>2 DEF Jobs, Gui!JobSteps
<1>5. /\ queue \in Seq(Gui!Posts) /\ ref_count \in Nat /\ (owner # NoThread <=> ref_count > 0)
      /\ ref_count - 1 = LeaseSum(session, FALSE, {}, queue) /\ IsFiniteSet({})
      /\ owner \in Threads \cup {NoThread} /\ generation \in Nat
  <2>1. /\ queue \in Seq(Gui!Posts) /\ ref_count \in Nat /\ (owner # NoThread <=> ref_count > 0)
        /\ ref_count = LeaseSum(session, TRUE, {}, queue)
        /\ owner \in Threads \cup {NoThread} /\ generation \in Nat
    BY <1>2 DEF GuiInv, Gui!TypeOK, LeasesKept, Gui!Generations
  <2>2. Cardinality({}) = 0 /\ IsFiniteSet({}) /\ Cardinality(ReleasesAt(queue)) \in Nat
    BY <2>1, FS_EmptySet, ReleasesFinite
  <2>3. ref_count - 1 = LeaseSum(session, FALSE, {}, queue)
    BY <2>1, <2>2 DEF LeaseSum
  <2> QED BY <2>1, <2>2, <2>3
<1>6. /\ ref_count' \in Nat /\ queue' \in Seq(Gui!Posts) /\ queue' \in {queue, <<>>}
      /\ ref_count' = LeaseSum(session, FALSE, {}, queue')
      /\ owner' # NoThread <=> ref_count' > 0
      /\ \/ owner' = owner /\ queue' = queue /\ owner # NoThread
         \/ owner' = NoThread /\ ~ Leased(session) /\ ~ FALSE /\ {} = {}
  BY <1>1, <1>5, ReleaseLast
<1>7. /\ QueueKept(queue', DOMAIN runtimes, next_id) /\ \A g : ~ Creating(queue', g)
  BY <1>2, <1>6, QueueEmpty DEF GuiInv
<1>8. session # NoSession => session.handle = 0
  BY <1>2 DEF GuiInv, SessionKept
<1>9. Gui!TypeOK'
  <2>1. owner' \in Threads \cup {NoThread}
    BY <1>5, <1>6
  <2>2. {0} \subseteq Nat
    OBVIOUS
  <2> QED BY ZenonT(40), <1>1, <1>3, <1>4, <1>6, <2>1, <2>2 DEF GuiInv, Gui!TypeOK, Gui!Generations, Jobs
<1>10. FlightKept'
  BY <1>4, <1>7 DEF FlightKept, Making
<1>11. RuntimesKept'
  BY <1>1, <1>2, <1>4 DEF RuntimesKept, Making, Made
<1>12. SessionKept'
  BY <1>1, <1>4, <1>6, <1>8 DEF GuiInv, SessionKept, Leased, Made
<1>13. GenerationsKept'
  <2>1. 0 <= generation
    BY <1>5
  <2> QED BY <1>1, <1>2, <1>3, <1>4, <1>7, <2>1 DEF GuiInv, GenerationsKept, Making, Made
<1>14. ThreadsKept'
  BY <1>2, <1>4 DEF ThreadsKept, Making, Made
<1>15. LeasesKept'
  BY <1>1, <1>2, <1>4, <1>6 DEF LeasesKept
<1> QED BY <1>1, <1>7, <1>9, <1>10, <1>11, <1>12, <1>13, <1>14, <1>15 DEF GuiInv

\* The factory made the only WebView there is.
LEMMA ReturnsInv ==
  ASSUME GuiInv, Gui!FactoryReturns
  PROVE  GuiInv'
<1> DEFINE r == [generation |-> job.generation, parent |-> job.parent, shown |-> TRUE, scale |-> 0]
<1>1. /\ job.at = "factory" /\ next_id' = next_id + 1
      /\ runtimes' = [i \in DOMAIN runtimes \cup {next_id} |-> IF i = next_id THEN r ELSE runtimes[i]]
      /\ job' = [job EXCEPT !.at = "finish", !.leased = FALSE, !.id = next_id]
      /\ UNCHANGED <<session, generation, is_creating_runtime, creating_generation,
                     pending_creation_generation, destroy_requested_while_creating,
                     destroyed_before, scale, ref_count, owner, queue, call, gui_thread, dropped,
                     calls_left>>
  BY DEF Gui!FactoryReturns, Gui!JobAt, Gui!flightVars, Gui!leaseVars, Gui!hostVars
<1>2. /\ job \in Jobs /\ job.leased = TRUE /\ job.thread # NoThread /\ job.generation <= generation
      /\ DOMAIN runtimes = {} /\ \A g : ~ Creating(queue, g) /\ owner = job.thread
      /\ is_creating_runtime /\ creating_generation = job.generation /\ next_id \in Gui!Ids
      /\ next_id \in Nat /\ queue \in Seq(Gui!Posts)
  <2>1. job \in Jobs /\ job.leased = TRUE
    BY <1>1, JobFields DEF Jobs
  <2>2. next_id \in Gui!Ids /\ next_id \in Nat /\ queue \in Seq(Gui!Posts)
    BY DEF GuiInv, Gui!TypeOK, Gui!Ids
  <2> QED BY <1>1, <2>1, <2>2
        DEF GuiInv, ThreadsKept, GenerationsKept, RuntimesKept, FlightKept, Making
<1>3. /\ job' \in Jobs /\ job'.at = "finish" /\ job'.leased = FALSE /\ job'.id = next_id
      /\ job'.thread = job.thread /\ job'.generation = job.generation
  BY <1>1, <1>2 DEF Jobs, Gui!JobSteps
<1>4. DOMAIN runtimes' = {next_id} /\ runtimes'[next_id] = r /\ r.generation = job.generation
  BY <1>1, <1>2
<1>5. r \in Gui!Runtimes
  <2>1. job.parent \in Parents
    BY <1>1 DEF GuiInv, ThreadsKept, Making
  <2> QED BY <1>2, <2>1 DEF Gui!Runtimes, Jobs
<1>6. ~ Removed(queue, next_id) /\ \A i : Removed(queue, i) => i # next_id
  <2>1. \A i \in 1..Len(queue) : queue[i] # Gui!Remove(next_id)
    <3>1. \A i \in 1..Len(queue) : queue[i].kind = "remove" => queue[i].id < next_id
      BY DEF GuiInv, QueueKept
    <3>2. Gui!Remove(next_id).kind = "remove" /\ Gui!Remove(next_id).id = next_id
      BY PostShapes
    <3>3. ~ next_id < next_id
      BY <1>2
    <3> QED BY <3>1, <3>2, <3>3
  <2> QED BY <2>1 DEF Removed
<1>7. QueueKept(queue, {next_id}, next_id + 1)
  <2>1. QueueKept(queue, DOMAIN runtimes, next_id) /\ next_id + 1 \in Nat /\ next_id <= next_id + 1
    BY <1>2 DEF GuiInv
  <2> QED BY <1>2, <2>1, QueueOther
<1>8. session # NoSession => session.handle = 0
  BY <1>2 DEF GuiInv, SessionKept
<1> HIDE DEF r
<1>9. Gui!TypeOK'
  <2>1. next_id + 1 \in Gui!Ids
    BY <1>2 DEF Gui!Ids
  <2> QED BY <1>1, <1>2, <1>3, <1>4, <1>5, <2>1 DEF GuiInv, Gui!TypeOK, Jobs
<1>10. QueueKept(queue, DOMAIN runtimes, next_id)'
  BY <1>1, <1>4, <1>7
<1>11. FlightKept'
  BY <1>1, <1>2, <1>3 DEF FlightKept
<1>12. RuntimesKept'
  <2>1. next_id < next_id + 1
    BY <1>2
  <2> QED BY <1>1, <1>3, <1>4, <1>6, <2>1 DEF RuntimesKept, Making, Made
<1>13. SessionKept'
  BY <1>1, <1>8 DEF GuiInv, SessionKept, Leased
<1>14. GenerationsKept'
  BY <1>1, <1>2, <1>3 DEF GuiInv, GenerationsKept, Leased, Making, Made
<1>15. ThreadsKept'
  BY <1>1, <1>2, <1>3 DEF ThreadsKept, Making
<1>16. LeasesKept'
  <2>1. Cardinality({}) = 0 /\ Cardinality({next_id}) = 1
    BY FS_EmptySet, FS_Singleton
  <2>2. LeaseSum(session, TRUE, {}, queue) = LeaseSum(session, FALSE, {next_id}, queue)
    <3>1. Cardinality(ReleasesAt(queue)) \in Nat
      BY <1>2, ReleasesFinite
    <3> QED BY <2>1, <3>1 DEF LeaseSum
  <2> QED BY <1>1, <1>2, <1>3, <1>4, <2>2 DEF GuiInv, LeasesKept, Leased, LeaseSum
<1> QED BY <1>9, <1>10, <1>11, <1>12, <1>13, <1>14, <1>15, <1>16 DEF GuiInv

\* What the latest answer of the factory leaves: the new WebView has no session.
LEMMA MadeAt ==
  ASSUME GuiInv, job.at \in Made
  PROVE  /\ job \in Jobs /\ job.leased = FALSE /\ job.thread # NoThread /\ owner = job.thread
         /\ job.generation <= generation /\ DOMAIN runtimes = {job.id} /\ job.id \in Gui!Ids
         /\ job.id < next_id /\ runtimes[job.id] \in Gui!Runtimes
         /\ runtimes[job.id].generation = job.generation /\ ~ Removed(queue, job.id)
         /\ session # NoSession => session.handle = 0
         /\ Gui!Current => Leased(session)
         /\ queue \in Seq(Gui!Posts)
<1>1. job \in Jobs /\ job.leased = FALSE
  BY JobFields DEF Jobs, Made
<1>2. job.thread # NoThread /\ owner = job.thread /\ job.generation <= generation
  BY DEF GuiInv, ThreadsKept, GenerationsKept, Made
<1>3. /\ DOMAIN runtimes = {job.id} /\ runtimes[job.id].generation = job.generation
      /\ ~ Removed(queue, job.id) /\ job.id < next_id
  BY DEF GuiInv, RuntimesKept
<1>4. job.id \in Gui!Ids /\ runtimes[job.id] \in Gui!Runtimes /\ queue \in Seq(Gui!Posts)
  BY <1>3 DEF GuiInv, Gui!TypeOK
<1>5. session # NoSession => session.handle = 0
  BY DEF GuiInv, SessionKept
<1>6. Gui!Current => Leased(session)
  BY DEF GuiInv, GenerationsKept, Gui!Current
<1> QED BY <1>1, <1>2, <1>3, <1>4, <1>5, <1>6

\* A WebView that no session can take is posted for removal.
LEMMA DiscardInv ==
  ASSUME GuiInv, job.at \in Made, Gui!Destroy(job.id), Gui!JobGoto("pending"),
         destroyed_before' \in BOOLEAN, is_creating_runtime' \in BOOLEAN,
         creating_generation' \in Nat, destroy_requested_while_creating' \in BOOLEAN,
         pending_creation_generation' \in Nat, pending_creation_generation' <= generation,
         \A g : Creating(queue, g) => is_creating_runtime' /\ creating_generation' = g,
         UNCHANGED <<session, generation, scale, runtimes, next_id, ref_count, owner, call,
                     gui_thread, dropped, calls_left>>
  PROVE  GuiInv'
<1> DEFINE e == Gui!Remove(job.id)
<1>1. /\ job \in Jobs /\ job.leased = FALSE /\ job.thread # NoThread /\ job.generation <= generation
      /\ DOMAIN runtimes = {job.id} /\ job.id \in Gui!Ids /\ job.id < next_id
      /\ session # NoSession => session.handle = 0
      /\ queue \in Seq(Gui!Posts)
  BY MadeAt
<1>2. /\ job' \in Jobs /\ job'.at = "pending" /\ job'.leased = FALSE /\ job'.thread = job.thread
      /\ job'.generation = job.generation
  <2>1. job' = [job EXCEPT !.at = "pending"] /\ "pending" \in Gui!JobSteps
    BY DEF Gui!JobGoto, Gui!JobSteps
  <2> QED BY <1>1, <2>1, JobFields
<1>3. /\ queue' = Append(queue, e) /\ e \in Gui!Posts /\ e.kind = "remove" /\ e.id = job.id
      /\ e # Gui!ReleasePost /\ \A i : e = Gui!Remove(i) <=> i = job.id
  <2>1. queue' = Append(queue, e)
    BY DEF Gui!Destroy
  <2>2. /\ e \in Gui!Posts /\ e.kind = "remove" /\ e.id = job.id
        /\ \A i : Gui!Remove(i).id = i /\ Gui!ReleasePost.kind = "release"
    BY <1>1, PostShapes
  <2>3. e # Gui!ReleasePost
    BY <2>2
  <2>4. \A i : e = Gui!Remove(i) <=> i = job.id
    BY <2>2
  <2> QED BY <2>1, <2>2, <2>3, <2>4
<1> HIDE DEF e
<1>4. QueueKept(queue', DOMAIN runtimes, next_id)
  <2>1. QueueKept(queue, DOMAIN runtimes, next_id)
    BY DEF GuiInv
  <2>2. e.kind # "create" /\ (e.kind = "remove" => e.id < next_id)
    BY <1>1, <1>3
  <2> QED BY <1>3, <2>1, <2>2, QueuePosted
<1>5. /\ \A i : Removed(queue', i) <=> Removed(queue, i) \/ i = job.id
      /\ \A g : Creating(queue', g) <=> Creating(queue, g)
  <2>1. \A i : Removed(queue', i) <=> Removed(queue, i) \/ e = Gui!Remove(i)
    BY <1>1, <1>3, PostedIs
  <2>2. \A g : Creating(queue', g) <=> Creating(queue, g) \/ (e.kind = "create" /\ e.generation = g)
    BY <1>1, <1>3, PostedIs
  <2> QED BY <1>3, <2>1, <2>2
<1>6. Cardinality(ReleasesAt(queue')) = Cardinality(ReleasesAt(queue))
  <2>1. Cardinality(ReleasesAt(queue')) = Cardinality(ReleasesAt(queue)) + 0
    BY <1>1, <1>3, PostCounts
  <2> QED BY <1>1, <2>1, ReleasesFinite
<1>7. Gui!TypeOK'
  BY <1>2, <1>4 DEF GuiInv, Gui!TypeOK, QueueKept, Jobs, Gui!Generations
<1>8. QueueKept(queue, DOMAIN runtimes, next_id)'
  BY <1>4
<1>9. FlightKept'
  BY <1>2, <1>5 DEF FlightKept, Making
<1>10. RuntimesKept'
  BY <1>1, <1>2, <1>5 DEF RuntimesKept, Making, Made
<1>11. SessionKept'
  BY <1>1 DEF GuiInv, SessionKept, Leased
<1>12. GenerationsKept'
  BY <1>1, <1>2, <1>5 DEF GuiInv, GenerationsKept, Leased, Making, Made
<1>13. ThreadsKept'
  BY <1>1, <1>2 DEF ThreadsKept, Making, Made
<1>14. LeasesKept'
  BY <1>1, <1>2, <1>6 DEF GuiInv, LeasesKept, LeaseSum, Leased
<1> QED BY <1>7, <1>8, <1>9, <1>10, <1>11, <1>12, <1>13, <1>14 DEF GuiInv

\* The new WebView goes on to its session, which may have changed meanwhile.
LEMMA GoesOnInv ==
  ASSUME GuiInv, job.at \in Made, NEW a \in {"latest", "install"}, Gui!JobGoto(a),
         NEW r \in Gui!Runtimes, r.generation = job.generation,
         runtimes' = [runtimes EXCEPT ![job.id] = r],
         a = "install" => r.shown = session.visible /\ r.scale = session.scale,
         is_creating_runtime' \in BOOLEAN, creating_generation' \in Nat,
         destroy_requested_while_creating' \in BOOLEAN, pending_creation_generation' \in Nat,
         pending_creation_generation' <= generation,
         \A g : Creating(queue, g) => is_creating_runtime' /\ creating_generation' = g,
         UNCHANGED <<session, generation, destroyed_before, scale, next_id, ref_count, owner, queue,
                     call, gui_thread, dropped, calls_left>>
  PROVE  GuiInv'
<1>1. /\ job \in Jobs /\ job.leased = FALSE /\ job.thread # NoThread /\ owner = job.thread
      /\ job.generation <= generation
      /\ DOMAIN runtimes = {job.id} /\ job.id \in Gui!Ids /\ job.id < next_id
      /\ ~ Removed(queue, job.id)
      /\ session # NoSession => session.handle = 0
  BY MadeAt
<1>2. /\ job' \in Jobs /\ job'.at = a /\ job'.leased = FALSE /\ job'.thread = job.thread
      /\ job'.generation = job.generation /\ job'.id = job.id
  <2>1. job' = [job EXCEPT !.at = a] /\ a \in Gui!JobSteps
    BY DEF Gui!JobGoto, Gui!JobSteps
  <2> QED BY <1>1, <2>1, JobFields
<1>3. DOMAIN runtimes' = {job.id} /\ runtimes'[job.id] = r
  BY <1>1
<1>4. Gui!TypeOK'
  BY <1>1, <1>2, <1>3 DEF GuiInv, Gui!TypeOK, Jobs, Gui!Generations
<1>5. QueueKept(queue, DOMAIN runtimes, next_id)'
  BY <1>1, <1>3 DEF GuiInv
<1>6. FlightKept'
  BY <1>2 DEF FlightKept, Making
<1>7. RuntimesKept'
  BY <1>1, <1>2, <1>3 DEF RuntimesKept, Making, Made
<1>8. SessionKept'
  BY <1>1 DEF GuiInv, SessionKept, Leased
<1>9. GenerationsKept'
  BY <1>1, <1>2 DEF GuiInv, GenerationsKept, Leased, Making, Made
<1>10. ThreadsKept'
  BY <1>1, <1>2, <1>3 DEF ThreadsKept, Making
<1>11. LeasesKept'
  BY <1>1, <1>2, <1>3 DEF GuiInv, LeasesKept, LeaseSum, Leased
<1> QED BY <1>4, <1>5, <1>6, <1>7, <1>8, <1>9, <1>10, <1>11 DEF GuiInv

LEMMA FinishInv ==
  ASSUME GuiInv, Gui!Finish
  PROVE  GuiInv'
<1>1. /\ job.at = "finish" /\ job.at \in Made
      /\ UNCHANGED <<session, generation, scale, next_id, ref_count, owner, call, gui_thread,
                     dropped, calls_left>>
  BY DEF Gui!Finish, Gui!JobAt, Gui!hostVars, Made
<1>2. creating_generation = job.generation /\ \A g : ~ Creating(queue, g)
  BY <1>1 DEF GuiInv, FlightKept
<1>t. /\ pending_creation_generation \in Nat /\ pending_creation_generation <= generation
      /\ destroyed_before \in BOOLEAN /\ generation \in Nat
      /\ session # NoSession => session.generation \in Nat /\ session.generation <= generation
  BY DEF GuiInv, Gui!TypeOK, GenerationsKept, Gui!Generations, Gui!Sessions
<1>3. /\ is_creating_runtime' = FALSE /\ creating_generation' = 0
      /\ destroy_requested_while_creating' = FALSE
      /\ pending_creation_generation' \in {pending_creation_generation, 0}
           \cup {g \in {session.generation} : session # NoSession}
  BY <1>2 DEF Gui!Finish
<1>4. pending_creation_generation' \in Nat /\ pending_creation_generation' <= generation
  BY <1>3, <1>t
<1>5. /\ is_creating_runtime' \in BOOLEAN /\ creating_generation' \in Nat
      /\ destroy_requested_while_creating' \in BOOLEAN
  BY <1>3
<1>6. CASE Gui!Destroy(job.id) /\ Gui!JobGoto("pending") /\ UNCHANGED runtimes
           /\ destroyed_before' \in {TRUE, destroyed_before}
  BY <1>1, <1>2, <1>4, <1>5, <1>6, <1>t, DiscardInv
<1>7. CASE Gui!JobGoto("latest") /\ runtimes' = [runtimes EXCEPT ![job.id].scale = job.scale]
           /\ UNCHANGED <<queue, destroyed_before>>
  <2> DEFINE r == [runtimes[job.id] EXCEPT !.scale = job.scale]
  <2>1. /\ r \in Gui!Runtimes /\ r.generation = job.generation
    <3>1. /\ runtimes[job.id] \in Gui!Runtimes /\ runtimes[job.id].generation = job.generation
          /\ job \in Jobs
      BY <1>1, MadeAt
    <3>2. job.scale \in Scales \cup {0}
      BY <3>1 DEF Jobs
    <3> QED BY <3>1, <3>2 DEF Gui!Runtimes
  <2>2. runtimes' = [runtimes EXCEPT ![job.id] = r]
    BY <1>7
  <2> HIDE DEF r
  <2> QED BY <1>1, <1>2, <1>4, <1>5, <1>7, <2>1, <2>2, GoesOnInv
<1> QED BY <1>6, <1>7 DEF Gui!Finish

LEMMA LatestInv ==
  ASSUME GuiInv, Gui!ApplyLatest
  PROVE  GuiInv'
<1>1. /\ job.at = "latest" /\ job.at \in Made
      /\ UNCHANGED <<session, generation, is_creating_runtime, creating_generation,
                     pending_creation_generation, destroy_requested_while_creating, scale, next_id,
                     ref_count, owner, call, gui_thread, dropped, calls_left>>
  BY DEF Gui!ApplyLatest, Gui!JobAt, Gui!flightVars, Gui!hostVars, Made
<1>t. /\ pending_creation_generation \in Nat /\ pending_creation_generation <= generation
      /\ is_creating_runtime \in BOOLEAN /\ creating_generation \in Nat
      /\ destroy_requested_while_creating \in BOOLEAN /\ session \in Gui!Sessions \cup {NoSession}
      /\ \A g : Creating(queue, g) => is_creating_runtime /\ creating_generation = g
  BY DEF GuiInv, Gui!TypeOK, GenerationsKept, FlightKept, Gui!Generations
<1>2. CASE Gui!DestroyNew
  BY <1>1, <1>t, <1>2, DiscardInv DEF Gui!DestroyNew
<1>3. CASE /\ Gui!Current /\ runtimes' = [runtimes EXCEPT ![job.id] = Gui!Latest(@)]
           /\ Gui!JobGoto("install") /\ UNCHANGED <<queue, destroyed_before>>
  <2> DEFINE r == Gui!Latest(runtimes[job.id])
  <2>1. /\ r \in Gui!Runtimes /\ r.generation = job.generation
        /\ r.shown = session.visible /\ r.scale = session.scale
    <3>1. runtimes[job.id] \in Gui!Runtimes /\ runtimes[job.id].generation = job.generation
      BY <1>1, MadeAt
    <3>2. session.visible \in BOOLEAN /\ session.scale \in Scales
      BY <1>3, <1>t DEF Gui!Current, Gui!Sessions
    <3> QED BY <3>1, <3>2 DEF Gui!Runtimes, Gui!Latest
  <2>2. runtimes' = [runtimes EXCEPT ![job.id] = r]
    BY <1>3
  <2> HIDE DEF r
  <2> QED BY <1>1, <1>3, <1>t, <2>1, <2>2, GoesOnInv
<1> QED BY <1>2, <1>3 DEF Gui!ApplyLatest

\* The new WebView is the session's: a session with a parent that it was made for.
LEMMA InstallInv ==
  ASSUME GuiInv, Gui!Install
  PROVE  GuiInv'
<1>1. /\ job.at = "install" /\ job.at \in Made
      /\ UNCHANGED <<generation, is_creating_runtime, creating_generation,
                     destroy_requested_while_creating, scale, next_id, ref_count, owner, call,
                     gui_thread, dropped, calls_left>>
  BY DEF Gui!Install, Gui!JobAt, Gui!hostVars, Made
<1>t. /\ pending_creation_generation \in Nat /\ pending_creation_generation <= generation
      /\ is_creating_runtime \in BOOLEAN /\ creating_generation \in Nat /\ generation \in Nat
      /\ destroy_requested_while_creating \in BOOLEAN /\ session \in Gui!Sessions \cup {NoSession}
      /\ \A g : Creating(queue, g) => is_creating_runtime /\ creating_generation = g
      /\ destroyed_before \in BOOLEAN
  BY DEF GuiInv, Gui!TypeOK, GenerationsKept, FlightKept, Gui!Generations
<1>2. CASE ~ Gui!Current
  <2>1. Gui!DestroyNew /\ UNCHANGED <<session, pending_creation_generation>>
    BY <1>2 DEF Gui!Install
  <2> QED BY <1>1, <1>t, <2>1, DiscardInv DEF Gui!DestroyNew
<1>3. CASE Gui!Current
  <2>1. /\ job \in Jobs /\ job.leased = FALSE /\ job.thread # NoThread /\ owner = job.thread
        /\ job.generation <= generation /\ DOMAIN runtimes = {job.id} /\ job.id \in Gui!Ids
        /\ runtimes[job.id].generation = job.generation /\ ~ Removed(queue, job.id)
        /\ session.handle = 0 /\ Leased(session) /\ session # NoSession
        /\ session.generation = job.generation
    BY <1>1, <1>3, MadeAt DEF Gui!Current
  <2>2. /\ session' = [session EXCEPT !.handle = job.id] /\ Gui!JobGoto("pending")
        /\ UNCHANGED <<runtimes, queue, destroyed_before>>
        /\ pending_creation_generation' \in {pending_creation_generation, 0}
    BY <1>3, <2>1 DEF Gui!Install
  <2>3. /\ job' \in Jobs /\ job'.at = "pending" /\ job'.leased = FALSE /\ job'.thread = job.thread
        /\ job'.generation = job.generation
    <3>1. job' = [job EXCEPT !.at = "pending"] /\ "pending" \in Gui!JobSteps
      BY <2>2 DEF Gui!JobGoto, Gui!JobSteps
    <3> QED BY <2>1, <3>1, JobFields
  <2>4. /\ session' \in Gui!Sessions /\ session' # NoSession /\ session'.handle = job.id
        /\ session'.generation = session.generation /\ session'.parent = session.parent
        /\ session'.parent_lease = session.parent_lease /\ session'.visible = session.visible
        /\ session'.scale = session.scale
    <3>1. session \in Gui!Sessions
      BY <1>t, <2>1
    <3>2. /\ session' \in Gui!Sessions /\ session'.handle = job.id
          /\ session'.generation = session.generation /\ session'.parent = session.parent
          /\ session'.parent_lease = session.parent_lease /\ session'.visible = session.visible
          /\ session'.scale = session.scale
      BY <2>1, <2>2, <3>1 DEF Gui!Sessions
    <3> QED BY <3>2, GuiAssumption
  <2>5. pending_creation_generation' \in Nat /\ pending_creation_generation' <= generation
    BY <1>t, <2>2
  <2>6. Leased(session')
    BY <2>1, <2>4 DEF Leased
  <2>7. Gui!TypeOK'
    BY <1>1, <1>t, <2>2, <2>3, <2>4, <2>5 DEF GuiInv, Gui!TypeOK, Jobs, Gui!Generations
  <2>8. QueueKept(queue, DOMAIN runtimes, next_id)'
    BY <1>1, <2>2 DEF GuiInv
  <2>9. FlightKept'
    BY <1>1, <1>t, <2>2, <2>3 DEF FlightKept, Making
  <2>10. RuntimesKept'
    BY <1>1, <2>1, <2>2, <2>3, <2>4 DEF GuiInv, RuntimesKept, Making, Made
  <2>11. SessionKept'
    <3>1. runtimes[job.id].shown = session.visible /\ runtimes[job.id].scale = session.scale
      BY <1>1, <1>3 DEF GuiInv, ThreadsKept
    <3> QED BY <1>1, <2>1, <2>2, <2>3, <2>4, <3>1 DEF GuiInv, SessionKept, Leased, Made
  <2>12. GenerationsKept'
    BY <1>1, <2>1, <2>2, <2>3, <2>4, <2>5, <2>6 DEF GuiInv, GenerationsKept
  <2>13. ThreadsKept'
    BY <2>1, <2>3 DEF ThreadsKept, Making, Made
  <2>14. LeasesKept'
    BY <1>1, <2>1, <2>2, <2>3, <2>6 DEF GuiInv, LeasesKept, LeaseSum
  <2> QED BY <2>7, <2>8, <2>9, <2>10, <2>11, <2>12, <2>13, <2>14 DEF GuiInv
<1> QED BY <1>2, <1>3

\* What the host asked for during the creation is posted at its end.
LEMMA ReschedInv ==
  ASSUME GuiInv, Gui!SchedulePending
  PROVE  GuiInv'
<1> DEFINE g == job.generation
<1>1. /\ job.at = "schedule" /\ Gui!Schedule(session, g, queue, Gui!RunLoopLive)
      /\ job' = Gui!NoJob
      /\ UNCHANGED <<session, generation, destroyed_before, scale, runtimes, next_id, ref_count,
                     owner, call, gui_thread, dropped, calls_left>>
  BY DEF Gui!SchedulePending, Gui!JobAt, Gui!tableVars, Gui!hostVars
<1>t. /\ g \in Nat /\ g <= generation /\ generation \in Nat /\ job.leased = FALSE
      /\ pending_creation_generation \in Nat /\ pending_creation_generation <= generation
      /\ Gui!RunLoopLive \in BOOLEAN /\ queue \in Seq(Gui!Posts)
      /\ session \in Gui!Sessions \cup {NoSession}
  <2>1. job \in Jobs /\ job.leased = FALSE
    BY <1>1, JobFields DEF Jobs
  <2>2. g \in Nat
    BY <2>1 DEF Jobs, Gui!Generations
  <2> QED BY <1>1, <2>1, <2>2
        DEF GuiInv, Gui!TypeOK, GenerationsKept, Gui!Generations, Gui!RunLoopLive
<1> HIDE DEF g, Gui!RunLoopLive
<1>2. Gui!Schedulable(session, g) => /\ session \in Gui!Sessions /\ Leased(session)
                                     /\ \A id \in DOMAIN runtimes : Removed(queue, id)
  <2>1. \A id \in DOMAIN runtimes : id # 0
    BY DEF GuiInv, Gui!TypeOK, Gui!Ids
  <2>2. job.at \notin Made
    BY <1>1 DEF Made
  <2> QED BY <1>t, <2>1, <2>2 DEF GuiInv, RuntimesKept, Gui!Schedulable, Leased
<1>3. /\ QueueKept(queue', DOMAIN runtimes, next_id)
      /\ \A id : Removed(queue', id) <=> Removed(queue, id)
      /\ Cardinality(ReleasesAt(queue')) = Cardinality(ReleasesAt(queue))
      /\ \A x : Creating(queue', x) => Creating(queue, x) \/ (x = g /\ Gui!Schedulable(session, g))
      /\ \A x : Creating(queue', x) => is_creating_runtime' /\ creating_generation' = x
      /\ is_creating_runtime => /\ is_creating_runtime' /\ creating_generation' = creating_generation
                                /\ \A x : Creating(queue', x) => Creating(queue, x)
      /\ pending_creation_generation' \in {pending_creation_generation, g, 0}
      /\ is_creating_runtime' \in BOOLEAN /\ creating_generation' \in Nat
      /\ destroy_requested_while_creating' \in BOOLEAN
  <2>1. QueueKept(queue, DOMAIN runtimes, next_id)
    BY DEF GuiInv
  <2> QED BY <1>1, <1>t, <1>2, <2>1, ScheduleStep
<1>4. pending_creation_generation' \in Nat /\ pending_creation_generation' <= generation
  BY <1>3, <1>t
<1>5. Gui!NoJob \in Jobs /\ Gui!NoJob.at = "idle" /\ Gui!NoJob.leased = FALSE
  BY DEF Gui!NoJob, Jobs, Gui!JobSteps, Gui!Generations
<1>6. Gui!TypeOK'
  BY <1>1, <1>3, <1>4, <1>5 DEF GuiInv, Gui!TypeOK, QueueKept, Jobs, Gui!Generations
<1>7. QueueKept(queue, DOMAIN runtimes, next_id)'
  BY <1>1, <1>3
<1>8. FlightKept'
  BY <1>1, <1>3, <1>5 DEF FlightKept, Making
<1>9. RuntimesKept'
  <2>1. job.at \notin Made
    BY <1>1 DEF Made
  <2> QED BY <1>1, <1>3, <1>5, <2>1 DEF GuiInv, RuntimesKept, Making, Made
<1>10. SessionKept'
  BY <1>1, <1>3, <1>5 DEF GuiInv, SessionKept, Leased, Made
<1>11. GenerationsKept'
  <2>1. \A x : Creating(queue', x) => x <= generation
    BY <1>3, <1>t DEF GuiInv, GenerationsKept
  <2>2. session # NoSession /\ ~ Leased(session) => ~ Creating(queue', session.generation)
    BY <1>2, <1>3 DEF GuiInv, GenerationsKept
  <2> QED BY <1>1, <1>4, <1>5, <2>1, <2>2 DEF GuiInv, GenerationsKept, Leased, Making, Made
<1>12. ThreadsKept'
  BY <1>1, <1>5 DEF ThreadsKept, Making, Made
<1>13. LeasesKept'
  BY <1>1, <1>3, <1>5, <1>t DEF GuiInv, LeasesKept, LeaseSum, Leased
<1> QED BY <1>6, <1>7, <1>8, <1>9, <1>10, <1>11, <1>12, <1>13 DEF GuiInv
-----------------------------------------------------------------------------
(* The controller's invariant, and what follows from it. *)

LEMMA GuiInit == Gui!Init => GuiInv
<1> SUFFICES ASSUME Gui!Init PROVE GuiInv
  OBVIOUS
<1>1. /\ session = NoSession /\ generation = 0 /\ is_creating_runtime = FALSE
      /\ creating_generation = 0 /\ pending_creation_generation = 0
      /\ destroy_requested_while_creating = FALSE /\ destroyed_before = FALSE /\ scale \in Scales
      /\ runtimes = <<>> /\ next_id = 1 /\ ref_count = 0 /\ owner = NoThread /\ queue = <<>>
      /\ job = Gui!NoJob /\ call = Gui!NoCall /\ gui_thread = NoThread /\ dropped = FALSE
      /\ calls_left = MaxGuiCalls
  BY DEF Gui!Init
<1>2. DOMAIN runtimes = {}
  BY <1>1
<1>3. /\ QueueKept(queue, {}, next_id) /\ Cardinality(ReleasesAt(queue)) = 0
      /\ \A id : ~ Removed(queue, id) /\ \A g : ~ Creating(queue, g)
      /\ queue \in Seq(Gui!Posts)
  BY <1>1, QueueEmpty DEF QueueKept
<1>4. /\ Gui!NoJob \in Jobs /\ Gui!NoJob.at = "idle" /\ Gui!NoJob.leased = FALSE
  BY DEF Gui!NoJob, Jobs, Gui!JobSteps, Gui!Generations
<1>5. /\ Gui!NoCall \in [op : {"none", "create", "destroy", "drop"},
                         thread : Threads \cup {NoThread}, at : {"idle", "check", "take", "open"}]
      /\ Gui!NoCall.at = "idle" /\ Gui!NoCall.op = "none"
  BY DEF Gui!NoCall
<1>6. Gui!TypeOK
  <2>1. 0 \in Nat /\ 1 \in Gui!Ids /\ MaxGuiCalls \in 0..MaxGuiCalls
    BY GuiAssumption DEF Gui!Ids
  <2> QED BY <1>1, <1>2, <1>3, <1>4, <1>5, <2>1 DEF Gui!TypeOK, Gui!Generations, Jobs
<1>7. FlightKept /\ RuntimesKept /\ SessionKept /\ ThreadsKept
  BY <1>1, <1>2, <1>3, <1>4, <1>5
     DEF FlightKept, RuntimesKept, SessionKept, ThreadsKept, Making, Made, Leased
<1>8. GenerationsKept
  BY <1>1, <1>3, <1>4 DEF GenerationsKept
<1>9. LeasesKept
  <2>1. Cardinality(DOMAIN runtimes) = 0
    BY <1>2, FS_EmptySet
  <2> QED BY <1>1, <1>3, <1>4, <2>1 DEF LeasesKept, LeaseSum, Leased
<1> QED BY <1>2, <1>3, <1>6, <1>7, <1>8, <1>9 DEF GuiInv

LEMMA GuiStep == GuiInv /\ [Gui!Next]_Gui!vars => GuiInv'
<1> SUFFICES ASSUME GuiInv, [Gui!Next]_Gui!vars PROVE GuiInv'
  OBVIOUS
<1>1. CASE Gui!HostBegins
  BY <1>1, BeginInv, ShowInv, HideInv, ParentInv, ScaleInv DEF Gui!HostBegins
<1>2. CASE Gui!HostStep
  BY <1>2, HostStepInv2
<1>3. CASE Gui!RunLoopStep
  BY <1>3, RemoveInv, ReleaseInv, CreateInv, ReadInv, GotoInv, EnterInv, FailsInv, ReturnsInv,
     FinishInv, LatestInv, InstallInv, PendingInv, ReschedInv DEF Gui!RunLoopStep
<1>4. CASE UNCHANGED Gui!vars
  <2>1. UNCHANGED <<session, generation, is_creating_runtime, creating_generation,
                    pending_creation_generation, destroy_requested_while_creating,
                    destroyed_before, scale, runtimes, next_id, ref_count, owner, queue, job, call,
                    gui_thread, dropped, calls_left>>
    BY <1>4 DEF Gui!vars, Gui!flightVars, Gui!tableVars, Gui!leaseVars, Gui!hostVars
  <2> QED BY <2>1 DEF GuiInv, Gui!TypeOK, QueueKept, FlightKept, RuntimesKept, SessionKept,
               GenerationsKept, ThreadsKept, LeasesKept, LeaseSum, Leased, Gui!Current
<1> QED BY <1>1, <1>2, <1>3, <1>4 DEF Gui!Next

\* The controller's module counts with the same Cardinality.
LEMMA GuiCardinality == \A S : Gui!Cardinality(S) = Cardinality(S)
BY DEF Gui!Cardinality, Cardinality, Gui!IsFiniteSet, IsFiniteSet

\* One WebView at a time, shown by its session or on its way out, with every lease counted.
LEMMA GuiSafe ==
  GuiInv => /\ Gui!OneWebView /\ Gui!NoOrphan /\ Gui!AttachedIsCurrent
            /\ Gui!ShowsWhatIsAsked /\ Gui!LeasesCounted
<1> SUFFICES ASSUME GuiInv
             PROVE  /\ Gui!OneWebView /\ Gui!NoOrphan /\ Gui!AttachedIsCurrent
                    /\ Gui!ShowsWhatIsAsked /\ Gui!LeasesCounted
  OBVIOUS
<1>1. Gui!OneWebView
  <2>1. Cardinality(DOMAIN runtimes) = IF DOMAIN runtimes = {} THEN 0 ELSE 1
    BY RuntimesFinite
  <2>2. job.leased => DOMAIN runtimes = {}
    BY DEF GuiInv, RuntimesKept, Making
  <2>3. CASE DOMAIN runtimes = {}
    BY <2>1, <2>3, GuiCardinality DEF Gui!OneWebView
  <2>4. CASE DOMAIN runtimes # {}
    <3>1. Cardinality(DOMAIN runtimes) = 1 /\ ~ job.leased
      BY <2>1, <2>2, <2>4
    <3>2. (IF job.leased THEN 1 ELSE 0) = 0
      BY <3>1
    <3> QED BY <3>1, <3>2, GuiCardinality DEF Gui!OneWebView
  <2> QED BY <2>3, <2>4
<1>2. Gui!NoOrphan
  BY DEF GuiInv, RuntimesKept, Gui!NoOrphan, Removed, Made
<1>3. Gui!AttachedIsCurrent
  BY DEF GuiInv, SessionKept, Leased, Gui!AttachedIsCurrent
<1>4. Gui!ShowsWhatIsAsked
  BY DEF GuiInv, SessionKept, Gui!ShowsWhatIsAsked
<1>5. Gui!LeasesCounted
  <2>1. /\ ref_count = LeaseSum(session, job.leased, DOMAIN runtimes, queue)
        /\ owner # NoThread <=> ref_count > 0
    BY DEF GuiInv, LeasesKept
  <2>2. Gui!Leases = LeaseSum(session, job.leased, DOMAIN runtimes, queue)
    <3>1. {i \in 1..Len(queue) : queue[i] = Gui!ReleasePost} = ReleasesAt(queue)
      BY DEF ReleasesAt
    <3>2. session # NoSession /\ session.parent_lease # NoThread <=> Leased(session)
      BY DEF Leased
    <3> QED BY <3>1, <3>2, GuiCardinality DEF Gui!Leases, LeaseSum
  <2> QED BY <2>1, <2>2 DEF Gui!LeasesCounted, Gui!RunLoopLive
<1> QED BY <1>1, <1>2, <1>3, <1>4, <1>5
-----------------------------------------------------------------------------
(* The editor: its page and its controller. *)

EditorInv == PageInv /\ GuiInv

LEMMA EditorInvInit == EditorInit => EditorInv
BY PageInit, GuiInit DEF EditorInit, EditorInv

LEMMA EditorInvStep == EditorInv /\ [EditorNext]_editorVars => EditorInv'
<1> SUFFICES ASSUME EditorInv, [EditorNext]_editorVars PROVE EditorInv'
  OBVIOUS
<1>1. ([Next]_vars /\ [Gui!Next]_Gui!vars)
  <2>1. CASE OfPage(Next)
    BY <2>1 DEF OfPage, controllerVars, Gui!vars, Gui!flightVars, Gui!tableVars, Gui!leaseVars,
       Gui!hostVars
  <2>2. CASE OfController(Gui!Next)
    BY <2>2 DEF OfController
  <2>3. CASE UNCHANGED editorVars
    BY <2>3 DEF editorVars, controllerVars, Gui!vars, Gui!flightVars, Gui!tableVars,
       Gui!leaseVars, Gui!hostVars
  <2> QED BY <2>1, <2>2, <2>3 DEF EditorNext
<1> QED BY <1>1, PageStep, GuiStep DEF EditorInv

LEMMA EditorInductive == EditorSpec => []EditorInv
BY EditorInvInit, EditorInvStep, PTL DEF EditorSpec

\* The editor's state has the types of its code: gains and edit states of the page and the
\* project, sessions, posts, WebViews and leases of WxpGuiController.
THEOREM EditorTypes == EditorSpec => []EditorTypeOK
<1>1. EditorInv => EditorTypeOK
  BY DEF EditorInv, PageInv, PageTypes, GuiInv, EditorTypeOK
<1> QED BY <1>1, EditorInductive, PTL

\* WxpGuiController keeps one WebView at a time, which its session shows with its parent,
\* thread, scale and visibility or which is on its way out; GUI_THREAD_STATE counts the leases
\* exactly; and when no state is loaded while the page opens, a page at rest shows the state.
THEOREM EditorSafety ==
  ASSUME ~ LoadWhileOpening
  PROVE  EditorSpec => []WebViewKept
<1>1. EditorInv => WebViewKept
  BY PageShows, GuiSafe DEF EditorInv, WebViewKept
<1> QED BY <1>1, EditorInductive, PTL

\* latency.rs: for any choices and any history, the reported latency is the selected one or
\* the host has been asked for the restart that makes it so.
THEOREM ReportSafety == EditorSpec => []ReportFollows
<1>1. EditorInv => ReportFollows
  BY DEF EditorInv, PageInv
<1> QED BY <1>1, EditorInductive, PTL

\* select_latency_from_gui: an unsaved choice of the delay always leaves the host's project
\* modified.
THEOREM DirtySafety == EditorSpec => []UnsavedDelayIsDirty
<1>1. EditorInv => UnsavedDelayIsDirty
  BY DEF EditorInv, PageInv
<1> QED BY <1>1, EditorInductive, PTL
=============================================================================
