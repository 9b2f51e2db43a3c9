----------------------------- MODULE OutputConfig -----------------------------
(***************************************************************************)
(* wlr-output-management (protocols/output_management.rs, its handler in   *)
(* handlers/mod.rs and the mode queue of backend/udev.rs): the heads that  *)
(* clients are told of, their configurations, and the outputs.             *)
(*                                                                         *)
(* A serial is only ever compared with the current one, so a configuration *)
(* is outdated or not; a serial does not come round again.  All that a     *)
(* head tells of an output (mode, position, transform, scale) is one value *)
(* of Settings.  What clients request for a head is chosen when it is      *)
(* applied.  A client has one manager at a time, binds again after stop,   *)
(* and is killed for a protocol error.                                     *)
(***************************************************************************)
EXTENDS OutputTopology

CONSTANTS
    Clients,
    Confs,       \* zwlr_output_configuration_v1 objects
    ClientOf,    \* the client that may create a configuration
    Settings

ASSUME OutputConfigAssumption == ClientOf \in [Confs -> Clients]

VARIABLES
    setting,             \* the state of an output
    pending_modes,       \* keys of pending_mode_changes
    output_config_dirty,
    current_state,       \* the heads that were broadcast last
    clients,             \* keys of OutputManagementState.clients
    heads,               \* ClientData.heads of a client
    conf,                \* "unborn", an entry of ClientData.confs ("ongoing" or
                         \* "finished"), or the entry is gone: "drained", "stopped"
    enables,             \* heads that an ongoing configuration enables
    disables,            \* ... and disables
    outdated,            \* configurations whose serial is not OutputManagementState.serial
    \* What clients hold and have been told:
    live,                \* heads of the last broadcast
    stale,               \* older heads that are finished, or whose manager is
    orphaned,            \* older heads that are not
    answer               \* the last event a configuration got

outputs  == <<setting, pending_modes, output_config_dirty>>
held     == <<heads, live, stale, orphaned>>
requests == <<conf, enables, disables, outdated, answer>>
config   == <<outputs, current_state, clients, held, requests>>

ConfigInit ==
    /\ setting \in [Outputs -> Settings]
    /\ pending_modes = {} /\ output_config_dirty = FALSE
    /\ current_state = [o \in surfaces |-> setting[o]]
    /\ clients = {}
    /\ heads = [c \in Clients |-> {}]
    /\ live = heads /\ stale = heads /\ orphaned = heads
    /\ conf = [k \in Confs |-> "unborn"]
    /\ enables = [k \in Confs |-> {}]
    /\ disables = enables
    /\ outdated = {}
    /\ answer = [k \in Confs |-> "none"]

-----------------------------------------------------------------------------
(* Broadcasts *)

\* Only outdated configurations are told, their entries stay.
SlipDrained(k) == FALSE

\* notify_changes forgets a configuration.
Drained(k) == conf[k] \in {"ongoing", "finished"}

\* notify_changes: clients get new heads for the surfaces S in the state set, the heads
\* they are known to hold are finished, and ongoing configurations are cancelled.
Notified(S, set) ==
    /\ current_state' = [o \in S |-> set[o]]
    /\ heads' = [c \in Clients |-> IF c \in clients THEN S ELSE {}]
    /\ live' = heads'
    /\ stale' = [c \in Clients |-> IF c \in clients THEN stale[c] \cup heads[c] ELSE stale[c]]
    /\ orphaned' = [c \in Clients |-> orphaned[c] \cup (live[c] \ heads[c])]
    /\ conf' = [k \in Confs |-> IF Drained(k) THEN "drained" ELSE conf[k]]
    /\ answer' = [k \in Confs |-> IF conf[k] = "ongoing" THEN "cancelled" ELSE answer[k]]
    /\ enables' = [k \in Confs |-> {}] /\ disables' = [k \in Confs |-> {}]
    /\ outdated' = {k \in Confs : conf[k] # "unborn"}
    /\ UNCHANGED clients

NotNotified == UNCHANGED <<current_state, clients, held, requests>>

-----------------------------------------------------------------------------
(* Managers and heads *)

BindManager(c) ==
    /\ c \notin clients
    /\ clients' = clients \cup {c}
    /\ heads' = [heads EXCEPT ![c] = DOMAIN current_state]
    /\ live' = [live EXCEPT ![c] = DOMAIN current_state]
    /\ UNCHANGED <<outputs, current_state, stale, orphaned, requests>>

\* stop: nothing the client holds is looked after any more.
StopManager(c) ==
    /\ c \in clients
    /\ clients' = clients \ {c}
    /\ heads' = [heads EXCEPT ![c] = {}]
    /\ live' = [live EXCEPT ![c] = {}]
    /\ orphaned' = [orphaned EXCEPT ![c] = {}]
    /\ stale' = [stale EXCEPT ![c] = @ \cup live[c] \cup orphaned[c]]
    /\ conf' = [k \in Confs |-> IF ClientOf[k] = c /\ conf[k] \in {"ongoing", "finished"}
                                THEN "stopped" ELSE conf[k]]
    /\ enables' = [k \in Confs |-> IF ClientOf[k] = c THEN {} ELSE enables[k]]
    /\ disables' = [k \in Confs |-> IF ClientOf[k] = c THEN {} ELSE disables[k]]
    /\ UNCHANGED <<outputs, current_state, outdated, answer>>

\* The client dies, or is killed for a protocol error.
Disconnected(c) ==
    LET its(k) == ClientOf[k] = c
    IN
    /\ clients' = clients \ {c}
    /\ heads' = [heads EXCEPT ![c] = {}] /\ live' = [live EXCEPT ![c] = {}]
    /\ stale' = [stale EXCEPT ![c] = {}] /\ orphaned' = [orphaned EXCEPT ![c] = {}]
    /\ conf' = [k \in Confs |-> IF its(k) THEN "unborn" ELSE conf[k]]
    /\ answer' = [k \in Confs |-> IF its(k) THEN "none" ELSE answer[k]]
    /\ enables' = [k \in Confs |-> IF its(k) THEN {} ELSE enables[k]]
    /\ disables' = [k \in Confs |-> IF its(k) THEN {} ELSE disables[k]]
    /\ outdated' = {k \in outdated : ~its(k)}
    /\ UNCHANGED <<outputs, current_state>>

\* release of a head of o: the entry under its name goes, whichever head that is of.
ReleaseHead(c, o) ==
    /\ \/ o \in live[c] /\ live' = [live EXCEPT ![c] = @ \ {o}] /\ UNCHANGED <<stale, orphaned>>
       \/ o \in stale[c] /\ stale' = [stale EXCEPT ![c] = @ \ {o}] /\ UNCHANGED <<live, orphaned>>
       \/ o \in orphaned[c] /\ orphaned' = [orphaned EXCEPT ![c] = @ \ {o}]
          /\ UNCHANGED <<live, stale>>
    /\ heads' = [heads EXCEPT ![c] = @ \ {o}]
    /\ UNCHANGED <<outputs, current_state, clients, requests>>

-----------------------------------------------------------------------------
(* Configurations *)

Born(k) == conf[k] # "unborn"

\* create_configuration with the current serial, or with an older one.
CreateConfiguration(k, current) ==
    /\ conf[k] = "unborn" /\ ClientOf[k] \in clients
    /\ IF current
       THEN /\ conf' = [conf EXCEPT ![k] = "ongoing"]
            /\ UNCHANGED <<outdated, answer>>
       ELSE /\ conf' = [conf EXCEPT ![k] = "finished"]
            /\ outdated' = outdated \cup {k}
            /\ answer' = [answer EXCEPT ![k] = "cancelled"]
    /\ UNCHANGED <<outputs, current_state, clients, held, enables, disables>>

\* enable_head, disable_head: a head the client holds, old or new, once.
ConfigureHead(k, o, enabled) ==
    /\ Born(k) /\ k \notin outdated /\ conf[k] \in {"ongoing", "finished"}
    /\ o \in UNION {live[ClientOf[k]], stale[ClientOf[k]], orphaned[ClientOf[k]]}
    /\ IF conf[k] = "finished" \/ o \in enables[k] \cup disables[k]
       THEN Disconnected(ClientOf[k])
       ELSE /\ IF enabled THEN /\ enables' = [enables EXCEPT ![k] = @ \cup {o}]
                               /\ UNCHANGED disables
                          ELSE /\ disables' = [disables EXCEPT ![k] = @ \cup {o}]
                               /\ UNCHANGED enables
            /\ UNCHANGED <<outputs, current_state, clients, held, conf, outdated, answer>>

\* apply_output_config succeeds: the modes of M are queued, the rest takes effect.
ConfigApplied(S, M) ==
    /\ S \subseteq Mapped
    /\ setting' \in {s \in [Outputs -> Settings] : \A o \in Outputs \ (S \cap surfaces) :
                                                     s[o] = setting[o]}
    /\ pending_modes' = pending_modes \cup M
    /\ output_config_dirty' = TRUE

\* The configuration gets its answer and is over.
Answered(k, event) ==
    /\ answer' = [answer EXCEPT ![k] = event]
    /\ conf' = [conf EXCEPT ![k] = IF @ = "ongoing" THEN "finished" ELSE @]
    /\ enables' = [enables EXCEPT ![k] = {}] /\ disables' = [disables EXCEPT ![k] = {}]
    /\ UNCHANGED <<current_state, clients, held, outdated>>

\* apply and test alike: an outdated configuration is cancelled (again), one without an
\* entry fails, a second use is an error.
AnsweredAtOnce(k) ==
    /\ Born(k)
    /\ \/ k \in outdated /\ Answered(k, "cancelled") /\ UNCHANGED outputs
       \/ k \notin outdated /\ conf[k] \in {"drained", "stopped"} /\ Answered(k, "failed")
          /\ UNCHANGED outputs
       \/ k \notin outdated /\ conf[k] = "finished" /\ Disconnected(ClientOf[k])

Apply(k) ==
    \/ AnsweredAtOnce(k)
    \/ /\ conf[k] = "ongoing" /\ k \notin outdated
       /\ \/ /\ disables[k] # {} \/ enables[k] # {}     \* out of bounds, no such output
             /\ Answered(k, "failed") /\ UNCHANGED outputs
          \/ /\ disables[k] = {}
             /\ \E M \in SUBSET enables[k] : ConfigApplied(enables[k], M)
             /\ Answered(k, "succeeded")

\* A test leaves the configuration open.
SlipTest(k) ==
    \/ AnsweredAtOnce(k)
    \/ /\ conf[k] = "ongoing" /\ k \notin outdated
       /\ answer' = [answer EXCEPT ![k] = IF disables[k] = {} THEN "succeeded" ELSE "failed"]
       /\ UNCHANGED <<outputs, current_state, clients, held, conf, enables, disables, outdated>>

\* Nothing but disabling fails a test.
Test(k) ==
    \/ AnsweredAtOnce(k)
    \/ /\ conf[k] = "ongoing" /\ k \notin outdated
       /\ Answered(k, IF disables[k] = {} THEN "succeeded" ELSE "failed")
       /\ UNCHANGED outputs

DestroyConfiguration(k) ==
    /\ Born(k)
    /\ conf' = [conf EXCEPT ![k] = "unborn"]
    /\ answer' = [answer EXCEPT ![k] = "none"]
    /\ enables' = [enables EXCEPT ![k] = {}] /\ disables' = [disables EXCEPT ![k] = {}]
    /\ outdated' = outdated \ {k}
    /\ UNCHANGED <<outputs, current_state, clients, held>>

ConfigRequest ==
    \/ \E c \in Clients :
         \/ BindManager(c)
         \/ StopManager(c)
         \/ Disconnected(c)
         \/ \E o \in Outputs : ReleaseHead(c, o)
    \/ \E k \in Confs :
         \/ \E current \in BOOLEAN : CreateConfiguration(k, current)
         \/ \E o \in Outputs, enabled \in BOOLEAN : ConfigureHead(k, o, enabled)
         \/ Apply(k)
         \/ Test(k)
         \/ DestroyConfiguration(k)

-----------------------------------------------------------------------------
(* The other side *)

\* reload_config: rules ask new modes for M, and change the rest of some outputs.
ConfigReloaded ==
    /\ \E M \in SUBSET Mapped : pending_modes' = pending_modes \cup M
    /\ setting' \in {s \in [Outputs -> Settings] : \A o \in Outputs \ surfaces :
                                                     s[o] = setting[o]}
    /\ output_config_dirty' \in {TRUE, output_config_dirty \/ setting' # setting}
    /\ NotNotified

\* A mode that the kernel accepted is not told.
SlipDirtyAfter(tried) == output_config_dirty

\* output_config_dirty once apply_pending_mode_changes got to use_mode on the outputs
\* tried.
DirtyAfter(tried) == output_config_dirty \/ tried # {}

\* render_if_needed with the session switched to: queued modes wait for a flip (later),
\* are set or refused by the kernel (tried), or dropped; then clients are told.
ConfigDrained ==
    \E later \in SUBSET (pending_modes \cap surfaces) :
    \E tried \in SUBSET ((pending_modes \cap surfaces) \ later) :
    \E set \in {s \in [Outputs -> Settings] : \A o \in Outputs \ tried : s[o] = setting[o]} :
      /\ setting' = set
      /\ pending_modes' = later
      /\ output_config_dirty' = FALSE
      /\ IF DirtyAfter(tried) THEN Notified(surfaces, set) ELSE NotNotified

\* UdevEvent::Changed with o plugged or not: S are the surfaces after it.
ConfigHotplug(S) ==
    /\ setting' \in {s \in [Outputs -> Settings] : \A o \in Outputs \ (S \ surfaces) :
                                                     s[o] = setting[o]}
    /\ Notified(S, setting')
    /\ UNCHANGED <<pending_modes, output_config_dirty>>

-----------------------------------------------------------------------------
(* Properties *)

ConfigTypeOK ==
    /\ setting \in [Outputs -> Settings] /\ pending_modes \subseteq Outputs
    /\ output_config_dirty \in BOOLEAN
    /\ clients \subseteq Clients /\ outdated \subseteq Confs
    /\ \A c \in Clients : heads[c] \subseteq live[c] /\ live[c] \subseteq DOMAIN current_state
    /\ \A k \in Confs :
         /\ conf[k] \in {"unborn", "ongoing", "finished", "drained", "stopped"}
         /\ answer[k] \in {"none", "succeeded", "failed", "cancelled"}
         /\ conf[k] # "ongoing" => enables[k] \cup disables[k] = {}

\* What clients were told of the outputs is so, or they are about to be told: also of a
\* mode that was deferred behind a flip, after the broadcast of the rest.
ToldIsCurrent ==
    /\ DOMAIN current_state = surfaces
    /\ output_config_dirty \/ \A o \in surfaces : current_state[o] = setting[o]

\* A configuration that can still be applied is for the outputs as they were last told,
\* and one that cannot has been told so, unless its manager was stopped.
OutdatedIsAnswered ==
    \A k \in Confs :
      /\ conf[k] = "ongoing" => k \notin outdated /\ answer[k] = "none"
      /\ conf[k] \in {"finished", "drained"} => answer[k] # "none"

\* Whatever a client does with a configuration that was cancelled, tested or applied, the
\* outputs stay as they are.
AnsweredIsInert ==
    [][\A k \in Confs : answer[k] # "none" /\ (Apply(k) \/ Test(k)) =>
         UNCHANGED <<setting, pending_modes, output_config_dirty>>]_<<config, topology>>
=============================================================================
