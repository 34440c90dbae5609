----------------------------- MODULE MCServices -----------------------------
(***************************************************************************)
(* Six parts of the platform whose scenarios share no row: the designer,   *)
(* settings and alerts, import and export, commands inside machines,       *)
(* ansible, the life of machines.  Their steps commute, so one of them     *)
(* works in a behaviour and the others rest; `part` says which.            *)
(***************************************************************************)
EXTENDS MCDesigner, MCWatch, MCImports, MCShells, MCAnsible, MCVMLifecycle

\* The scenarios of machines are of the kind the proofs are about
ASSUME SerialAssumption == SerialMixes

VARIABLE part

servicesVars == <<part, designerVars, watchVars, importVars, shellVars, ansibleVars, vars>>

ServicesInit ==
    /\ part \in {"designer", "watch", "imports", "shells", "ansible", "machines"}
    /\ DesignerInit /\ (part # "designer" => wishes = {})
    /\ WatchInit /\ (part # "watch" => mail = {})
    /\ ImportInit /\ (part # "imports" => orders = {})
    /\ ShellInit /\ (part # "shells" => wants = {})
    /\ AnsibleInit /\ (part # "ansible" => jobs = {})
    /\ Init /\ (part # "machines" <=> mix = Rest)

\* Idle servants are alike: a second one is taken only when the first is busy
One(servants) == CHOOSE k \in servants : TRUE
DesignersInTurn ==
    /\ draft[One(Designers)] = NoDraft => \A d \in Designers \ {One(Designers)} : draft[d] = NoDraft => draft'[d] = NoDraft
    /\ worker[One(Runners)] = Resting => \A g \in Runners \ {One(Runners)} : worker[g] = Resting => worker'[g] = Resting
ClerksInTurn ==
    clerk[One(Clerks)] = NoWork => \A k \in Clerks \ {One(Clerks)} : clerk[k] = NoWork => clerk'[k] = NoWork
PortersInTurn ==
    porter[One(Porters)] = NoOne => \A k \in Porters \ {One(Porters)} : porter[k] = NoOne => porter'[k] = NoOne
VisitsInTurn ==
    visit[One(Visits)] = NoVisit => \A j \in Visits \ {One(Visits)} : visit[j] = NoVisit => visit'[j] = NoVisit
AnsibleInTurn ==
    /\ run[One(Runs)] = NoRun => \A r \in Runs \ {One(Runs)} : run[r] = NoRun => run'[r] = NoRun
    /\ editor[One(Editors)] = NoEdit => \A k \in Editors \ {One(Editors)} : editor[k] = NoEdit => editor'[k] = NoEdit
    /\ dealer[One(Dealers)] = NoDeal => \A k \in Dealers \ {One(Dealers)} : dealer[k] = NoDeal => dealer'[k] = NoDeal

Designs == /\ part = "designer" /\ DesignerNext /\ DesignersInTurn
           /\ UNCHANGED <<part, watchVars, importVars, shellVars, ansibleVars, vars>>
Watches == /\ part = "watch" /\ WatchNext /\ ClerksInTurn
           /\ UNCHANGED <<part, designerVars, importVars, shellVars, ansibleVars, vars>>
Carries == /\ part = "imports" /\ ImportNext /\ PortersInTurn
           /\ UNCHANGED <<part, designerVars, watchVars, shellVars, ansibleVars, vars>>
Speaks == /\ part = "shells" /\ ShellNext /\ VisitsInTurn
          /\ UNCHANGED <<part, designerVars, watchVars, importVars, ansibleVars, vars>>
Automates == /\ part = "ansible" /\ AnsibleNext /\ AnsibleInTurn
             /\ UNCHANGED <<part, designerVars, watchVars, importVars, shellVars, vars>>
Lives == /\ part = "machines" /\ Next /\ InTurn
         /\ UNCHANGED <<part, designerVars, watchVars, importVars, shellVars, ansibleVars>>

ServicesSpec == ServicesInit /\
    [][Designs \/ Watches \/ Carries \/ Speaks \/ Automates \/ Lives]_servicesVars
=============================================================================
