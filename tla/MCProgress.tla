----------------------------- MODULE MCProgress -----------------------------
(***************************************************************************)
(* Who comes in and who goes: the slot of the plugin with its connections, *)
(* and the daemons of the desktop program.  A behaviour is one of the part *)
(* that `part` names; the other stays in its initial state.                *)
(***************************************************************************)
EXTENDS PluginSlot, DaemonRegistry

VARIABLE part

PartInit == part \in {"slot", "registry"} /\ SlotInit /\ RegistryInit

SlotGoes(action) == part = "slot" /\ action /\ UNCHANGED <<part, registryVars>>
RegistryGoes(action) == part = "registry" /\ action /\ UNCHANGED <<part, slotVars>>

PartNext ==
    \/ SlotGoes(SlotNext)
    \/ RegistryGoes(RegistryNext)

\* The fairness each part states for itself
PartFairness ==
    /\ WF_slotVars(SlotGoes(Silence))
    /\ \A c \in Conn : WF_slotVars(SlotGoes(Server(c)))
    /\ \A s \in Child : /\ WF_registryVars(RegistryGoes(ChildStarts(s)))
                       /\ WF_registryVars(RegistryGoes(WatchdogTicks(s)))

ProgressSpec == PartInit /\ [][PartNext]_<<part, slotVars, registryVars>> /\ PartFairness

=============================================================================
