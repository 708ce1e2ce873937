-------------------------- MODULE MCPluginReturns ---------------------------
(***************************************************************************)
(* Two hosts of PluginInstance, `part'.  The reentrant one makes Budget    *)
(* calls, stacks them in host callbacks and then waits: the waiting loops  *)
(* of the adapter spin on a compare-and-exchange that an endless stream of *)
(* other callbacks could always lose; with finitely many calls weak        *)
(* fairness of each call's next step is enough.  The conforming one keeps  *)
(* the order and the threads CLAP prescribes, stacks no calls and never    *)
(* stops.                                                                  *)
(***************************************************************************)
EXTENDS PluginInstance

CONSTANTS
  t1, t2,
  Budget,                 \* bound on the calls of the reentrant host
  ReentrantCallbacks,     \* the callbacks it uses
  ReentrantSizes          \* the block sizes it uses

VARIABLES calls_left, part

HostsInit ==
  /\ part \in {"reentrant", "conforming"}
  /\ Init
  /\ calls_left = Budget

ReentrantStart(c, o) ==
  /\ o \in ReentrantCallbacks
  /\ calls_left > 0 /\ calls_left' = calls_left - 1
  /\ Start(c, o)

ConformingStart(c, o) ==
  /\ c[2] = 1 /\ ClapAllows(c, o)
  /\ Start(c, o)
  /\ UNCHANGED calls_left

HostsStep(c) == ~ freed /\ Step(c) /\ UNCHANGED <<calls_left, part>>

HostsNext ==
  /\ ~ freed /\ UNCHANGED part
  /\ \/ \E c \in Calls : HostsStep(c)
     \/ part = "reentrant" /\ \E c \in Calls, o \in AllCallbacks : ReentrantStart(c, o)
     \/ part = "conforming" /\ \E c \in Calls, o \in AllCallbacks : ConformingStart(c, o)
  /\ part = "reentrant" => \A c \in Calls : block'[c] \in ReentrantSizes \cup {0}

hostsVars == <<vars, calls_left, part>>

HostsSpec ==
  /\ HostsInit /\ [][HostsNext]_hostsVars
  /\ \A c \in Calls : WF_hostsVars(part = "reentrant" /\ HostsStep(c))
-----------------------------------------------------------------------------
\* Whatever a reentrant host stacks, a real-time, port or GUI callback never
\* waits for another call.
RealtimeStaysRealtime == part = "reentrant" => NeverWaits

\* Every call the host makes returns, if the host stops making new ones: no
\* waiting loop waits for itself or for a call that waits for it.
Idle == \A c \in Calls : op[c] = "none"
ReentrantCallsReturn == []<>(part # "reentrant" \/ freed \/ Idle)

\* A host that keeps CLAP's annotations never meets a refusal, and its
\* ActiveProcessor only gets blocks within the maximum it was activated with.
ConformingHostServed ==
  part = "conforming" => ConformingHostNeverRefused /\ BlockWithinActivatedMaximum
=============================================================================
