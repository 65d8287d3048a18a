---------------------------- MODULE ConfigVersions ----------------------------
(***************************************************************************)
(* The versions of one AI configuration (ai_config.py): operators create,  *)
(* approve and activate versions while the answer path resolves the active *)
(* one and seeds a default when there is none. Version objects are created *)
(* once; the index (history, active pointer, activation events) is written *)
(* under compare-and-set, a write whose reply is lost being applied again. *)
(***************************************************************************)
EXTENDS Naturals, Sequences

CONSTANTS
    ConfigVersionIds,   \* identifiers minted for versions
    NoConfigVersion,    \* no active version
    ConfigOperators,    \* threads in the ai-config endpoints
    Resolvers,          \* threads on the answer path
    MaxActivations,     \* bound: activation events
    MaxConfigFaults     \* bound: writes that raise or lose their reply

ASSUME ConfigAssumption ==
    /\ NoConfigVersion \notin ConfigVersionIds
    /\ ConfigOperators \cap Resolvers = {}
    /\ MaxActivations \in Nat
    /\ MaxConfigFaults \in Nat

VARIABLES
    configVersions,  \* the version objects in the store
    configApproved,  \* those with approved = True
    configIndex,     \* versions listed, active pointer, activation events
    configCalls,     \* the call each thread is in
    configStamps,    \* versions stamped on traces
    configFaults

configVars == <<configVersions, configApproved, configIndex, configCalls,
                configStamps, configFaults>>

ConfigCallers == ConfigOperators \cup Resolvers
ConfigPointers == ConfigVersionIds \cup {NoConfigVersion}
ActivationEvents ==
    [operator : ConfigCallers, previous : ConfigPointers, selected : ConfigVersionIds]
IdleConfigCall == [pc |-> "idle", version |-> NoConfigVersion]

ConfigInit ==
    /\ configVersions = {}
    /\ configApproved = {}
    /\ configIndex = [versions |-> {}, active |-> NoConfigVersion, events |-> <<>>]
    /\ configCalls = [c \in ConfigCallers |-> IdleConfigCall]
    /\ configStamps = {}
    /\ configFaults = 0

ConfigCallAt(c, pc) == configCalls[c].pc = pc
ConfigGoes(c, pc, v) == configCalls' = [configCalls EXCEPT ![c] = [pc |-> pc, version |-> v]]
ConfigEnds(c) == ConfigGoes(c, "idle", NoConfigVersion)
ConfigFault == configFaults < MaxConfigFaults /\ configFaults' = configFaults + 1

ActiveConfigVersion == configIndex.active

------------------------------------------------------------------------------
(* AIConfigurationStore.                                                   *)

(* create_version: the object first, under a freshly minted identifier. *)
CreateConfigVersion(c) ==
    \E v \in ConfigVersionIds \ configVersions :
        /\ configVersions' = configVersions \cup {v}
        /\ ConfigGoes(c, "append", v)
        /\ UNCHANGED <<configApproved, configIndex, configStamps, configFaults>>

CreateByOperator(c) ==
    /\ c \in ConfigOperators
    /\ ConfigCallAt(c, "idle")
    /\ CreateConfigVersion(c)

(* ... and then the index, whose active pointer stays. The bootstrap goes   *)
(* on to activate what it created.                                          *)
AppendConfigVersion(c) ==
    LET v == configCalls[c].version IN
    /\ ConfigCallAt(c, "append")
    /\ configIndex' = [configIndex EXCEPT !.versions = @ \cup {v}]
    /\ IF c \in Resolvers THEN ConfigGoes(c, "select", v) ELSE ConfigEnds(c)
    /\ UNCHANGED <<configVersions, configApproved, configStamps, configFaults>>

ApproveConfigVersion(c) ==
    /\ c \in ConfigOperators
    /\ ConfigCallAt(c, "idle")
    /\ \E v \in configVersions : configApproved' = configApproved \cup {v}
    /\ UNCHANGED <<configVersions, configIndex, configCalls, configStamps, configFaults>>

(* rollback, requested for any version; an unknown one fails both checks. *)
RollbackConfig(c) ==
    /\ c \in ConfigOperators
    /\ ConfigCallAt(c, "idle")
    /\ \E v \in configIndex.versions : ConfigGoes(c, "activate", v)
    /\ UNCHANGED <<configVersions, configApproved, configIndex, configStamps, configFaults>>

(* Fault: the bootstrap leaves a pointer alone that was set meanwhile, and  *)
(* stamps its own version all the same.                                     *)
RollbackUnlessActive(c) ==
    /\ ConfigCallAt(c, "select")
    /\ ConfigGoes(c, IF ActiveConfigVersion = NoConfigVersion THEN "activate" ELSE "stamp",
                  configCalls[c].version)
    /\ UNCHANGED <<configVersions, configApproved, configIndex, configStamps, configFaults>>

(* The same call by the bootstrap, for its own version. *)
RollbackBootstrapped(c) ==
    /\ ConfigCallAt(c, "select")
    /\ ConfigGoes(c, "activate", configCalls[c].version)
    /\ UNCHANGED <<configVersions, configApproved, configIndex, configStamps, configFaults>>

(* Fault: the pointer moves in a write of its own, the event being lost. *)
ActivatedSilently(c, v) == [configIndex EXCEPT !.active = v]

ActivatedBy(c, v) ==
    [configIndex EXCEPT
        !.active = v,
        !.events = Append(@, [operator |-> c, previous |-> ActiveConfigVersion,
                              selected |-> v])]

(* The pointer and the event in one conditional write. When its reply is    *)
(* lost, the repeated send fails its precondition and the mutation is       *)
(* applied to the index that holds it already.                              *)
ActivateConfigVersion(c) ==
    LET v == configCalls[c].version IN
    /\ ConfigCallAt(c, "activate")
    /\ v \in configIndex.versions
    /\ Len(configIndex.events) < MaxActivations
    /\ configIndex' = ActivatedBy(c, v)
    /\ \/ /\ IF c \in Resolvers THEN ConfigGoes(c, "stamp", v) ELSE ConfigEnds(c)
          /\ UNCHANGED configFaults
       \/ ConfigFault /\ UNCHANGED configCalls
    /\ UNCHANGED <<configVersions, configApproved, configStamps>>

(* A read or a write raises, or the process dies: the call is over. *)
ConfigCallRaises(c) ==
    /\ ~ConfigCallAt(c, "idle")
    /\ ConfigFault
    /\ ConfigEnds(c)
    /\ UNCHANGED <<configVersions, configApproved, configIndex, configStamps>>

------------------------------------------------------------------------------
(* AIConfigResolver.                                                       *)

(* The index is read; the active version's object is loaded after it, or    *)
(* there is none and a default is created.                                  *)
ResolveConfig(r) ==
    /\ r \in Resolvers
    /\ ConfigCallAt(r, "idle")
    /\ IF ActiveConfigVersion = NoConfigVersion
       THEN ConfigGoes(r, "bootstrap", NoConfigVersion)
       ELSE ConfigGoes(r, "load", ActiveConfigVersion)
    /\ UNCHANGED <<configVersions, configApproved, configIndex, configStamps, configFaults>>

(* A pointer without an object leaves the trace unresolved. *)
LoadResolved(r) ==
    /\ ConfigCallAt(r, "load")
    /\ IF configCalls[r].version \in configVersions
       THEN ConfigGoes(r, "stamp", configCalls[r].version) ELSE ConfigEnds(r)
    /\ UNCHANGED <<configVersions, configApproved, configIndex, configStamps, configFaults>>

BootstrapDefault(r) == ConfigCallAt(r, "bootstrap") /\ CreateConfigVersion(r)

StampTrace(r) ==
    /\ ConfigCallAt(r, "stamp")
    /\ configStamps' = configStamps \cup {configCalls[r].version}
    /\ ConfigEnds(r)
    /\ UNCHANGED <<configVersions, configApproved, configIndex, configFaults>>

ConfigNext ==
    \E c \in ConfigCallers :
        \/ CreateByOperator(c) \/ AppendConfigVersion(c) \/ ApproveConfigVersion(c)
        \/ RollbackConfig(c) \/ RollbackBootstrapped(c) \/ ActivateConfigVersion(c)
        \/ ConfigCallRaises(c)
        \/ ResolveConfig(c) \/ LoadResolved(c) \/ BootstrapDefault(c) \/ StampTrace(c)

ConfigSpec == ConfigInit /\ [][ConfigNext]_configVars

------------------------------------------------------------------------------
(* Properties.                                                             *)

ConfigTypeOK ==
    /\ configVersions \subseteq ConfigVersionIds
    /\ configApproved \subseteq configVersions
    /\ configIndex \in [versions : SUBSET ConfigVersionIds, active : ConfigPointers,
                        events : Seq(ActivationEvents)]
    /\ configCalls \in [ConfigCallers ->
          [pc : {"idle", "append", "select", "activate", "bootstrap", "load", "stamp"},
           version : ConfigPointers]]
    /\ configStamps \subseteq ConfigVersionIds
    /\ configFaults \in 0..MaxConfigFaults

SelectedAt(i) == IF i = 0 THEN NoConfigVersion ELSE configIndex.events[i].selected

(* The activation events are an unbroken account of the active pointer: each *)
(* names as previous what the one before selected, and the last selected    *)
(* what is active, also when two operators roll back at once, a bootstrap   *)
(* joins in or a write is applied twice.                                    *)
AuditExplainsActive ==
    /\ configIndex.active = SelectedAt(Len(configIndex.events))
    /\ \A i \in 1..Len(configIndex.events) :
          configIndex.events[i].previous = SelectedAt(i - 1)

(* No trace is stamped with a version nobody activated, and neither the     *)
(* pointer nor a stamp ever names a version whose object is missing from    *)
(* the store or the history, whatever call died half way.                   *)
StampsWereActive ==
    /\ \A v \in configStamps : \E i \in 1..Len(configIndex.events) :
          configIndex.events[i].selected = v
    /\ \A i \in 1..Len(configIndex.events) :
          configIndex.events[i].selected \in configIndex.versions
    /\ configIndex.versions \subseteq configVersions

(* The seeded default is the initial active version: no bootstrap that was  *)
(* under way replaces a version an operator has activated meanwhile.        *)
BootstrapIsInitial ==
    \A j \in 1..Len(configIndex.events) : \A i \in 1..(j - 1) :
        configIndex.events[j].operator \in Resolvers
            => configIndex.events[i].operator \notin ConfigOperators
================================================================================
