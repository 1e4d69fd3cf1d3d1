--------------------------- MODULE ModuleCluster ---------------------------
(***************************************************************************)
(* What surrounds the Module controller: Modules, ModuleTemplates and Flux *)
(* objects at the API server, the informers and the work queue, Flux       *)
(* itself, garbage collection, and users.                                  *)
(***************************************************************************)
EXTENDS Modules

CONSTANTS
  Specs,           \* the Module specs users submit
  TemplateSpecs,   \* what users put into templates: namespace, type, chart
  Lagging,         \* informers that deliver events late: "module", "template", "release"
  Budget           \* how often each kind of disturbance may happen

VARIABLES
  mods,      \* the Modules, by name
  born,      \* how often each name has been created
  modCache,  \* the Module informer's copy
  modPend,   \* names whose Module event is still to be delivered
  tpl,       \* the ModuleTemplates
  tplCache,  \* the informer's copy
  tplPend,   \* templates whose event is still to be delivered
  rel,       \* the Flux objects
  relCache,  \* the informers' copy
  relPend,   \* Flux objects whose event is still to be delivered
  queue,     \* the work queue
  left       \* what remains of the Budget

modVars == <<mods, born, modCache, modPend>>
tplVars == <<tpl, tplCache, tplPend>>
relVars == <<rel, relCache, relPend>>

Nuisances == {"create", "edit", "delete", "template", "flux", "drift", "plant", "api", "report", "restart"}

ASSUME SpecsAssumption   == Specs \subseteq SpecRecords
ASSUME TemplatesAssumption ==
  TemplateSpecs \subseteq [namespace : Namespaces, type : FluxKinds, chart : Charts]
ASSUME LaggingAssumption == Lagging \subseteq {"module", "template", "release"}
ASSUME BudgetAssumption  == Budget \in [Nuisances -> Nat]

ClusterTypeOK ==
  /\ mods \in [Names -> ModuleRecords \cup {None}]
  /\ born \in [Names -> Nat]
  /\ modCache \in [Names -> ModuleRecords \cup {None}]
  /\ modPend \subseteq Names
  /\ tpl \in [Templates -> TemplateRecords \cup {None}]
  /\ tplCache \in [Templates -> TemplateRecords \cup {None}]
  /\ tplPend \subseteq Templates
  /\ rel \in [Releases -> ReleaseRecords \cup {None}]
  /\ relCache \in [Releases -> ReleaseRecords \cup {None}]
  /\ relPend \subseteq Releases
  /\ queue \subseteq Names
  /\ left \in [Nuisances -> Nat]

Spend(x) == left[x] > 0 /\ left' = [left EXCEPT ![x] = @ - 1]

-----------------------------------------------------------------------------
(* Writes, and the events they cause. *)

(* Mutant: a deletion is thought to leave the generation as it is. *)
PassesLiving(old, new) ==
  /\ new # None
  /\ old = None \/ (~new.deleting /\ old.gen # new.gen)

(* GenerationChangedPredicate. *)
PassesPredicate(old, new) ==
  \/ old = None /\ new # None
  \/ old # None /\ new = None
  \/ old # None /\ new # None /\ old.gen # new.gen

StoreModule(n, m, q) ==
  LET woken == IF PassesPredicate(mods[n], m) THEN {n} ELSE {}
      now   == "module" \notin Lagging
  IN /\ mods'     = [mods EXCEPT ![n] = m]
     /\ modCache' = IF now THEN [modCache EXCEPT ![n] = m] ELSE modCache
     /\ modPend'  = IF now THEN modPend ELSE modPend \cup woken
     /\ queue'    = IF now THEN q \cup woken ELSE q

(* Mutant: the list is left at the first Module that matches. *)
ReferencingFirst(t) ==
  LET all == {n \in Names : modCache[n] # None /\ modCache[n].spec.template = t}
  IN {n \in all : n = CHOOSE m \in all : TRUE}

(* mapModuleTemplateToModules: the Modules, as cached, that name template t. *)
Referencing(t) == {n \in Names : modCache[n] # None /\ modCache[n].spec.template = t}

StoreTemplate(t, x) ==
  LET now == "template" \notin Lagging
  IN /\ tpl'      = [tpl EXCEPT ![t] = x]
     /\ tplCache' = IF now THEN tpl' ELSE tplCache
     /\ tplPend'  = IF now THEN tplPend ELSE tplPend \cup {t}
     /\ queue'    = IF now THEN queue \cup Referencing(t) ELSE queue

(* Mutant: only the object as it has become is asked for its labels. *)
WakesAsItIs(old, new) == new # None /\ new.labelled

(* mapFluxResourceToModule is asked about the object before and after an event:
   any change, of the status too, wakes its Module if the labels were on or are. *)
Wakes(old, new) == \E x \in {old, new} \ {None} : x.labelled

StoreRelease(o, x, q) ==
  LET woken == IF x # rel[o] /\ Wakes(rel[o], x) THEN {o} ELSE {}
      now   == "release" \notin Lagging
  IN /\ rel'      = [rel EXCEPT ![o] = x]
     /\ relCache' = IF now THEN rel' ELSE relCache
     /\ relPend'  = IF now THEN relPend ELSE relPend \cup woken
     /\ queue'    = IF now THEN q \cup {p[3] : p \in woken} ELSE q

DeliverModule(n) ==
  /\ modCache[n] # mods[n] \/ n \in modPend
  /\ modCache' = [modCache EXCEPT ![n] = mods[n]]
  /\ modPend'  = modPend \ {n}
  /\ queue'    = queue \cup (modPend \cap {n})
  /\ UNCHANGED <<mods, born, tplVars, relVars, left>>

DeliverTemplate(t) ==
  /\ t \in tplPend
  /\ tplCache' = [tplCache EXCEPT ![t] = tpl[t]]
  /\ tplPend'  = tplPend \ {t}
  /\ queue'    = queue \cup Referencing(t)
  /\ UNCHANGED <<tpl, modVars, relVars, left>>

DeliverRelease(o) ==
  /\ relCache[o] # rel[o] \/ o \in relPend
  /\ relCache' = [relCache EXCEPT ![o] = rel[o]]
  /\ relPend'  = relPend \ {o}
  /\ queue'    = queue \cup {p[3] : p \in relPend \cap {o}}
  /\ UNCHANGED <<rel, modVars, tplVars, left>>

-----------------------------------------------------------------------------
(* Flux and garbage collection. *)

(* Flux finds out how a release is doing. *)
FluxReports(o) ==
  /\ rel[o] # None /\ ~rel[o].deleting
  /\ Spend("flux")
  /\ \E c \in Conditions \ {rel[o].ready} : StoreRelease(o, [rel[o] EXCEPT !.ready = c], queue)
  /\ UNCHANGED <<modVars, tplVars>>

(* Flux has uninstalled what a release had deployed, and lets it go. *)
FluxUninstalls(o) ==
  /\ rel[o] # None /\ rel[o].deleting
  /\ StoreRelease(o, None, queue)
  /\ UNCHANGED <<modVars, tplVars, left>>

Live(uid) == mods[uid[1]] # None /\ mods[uid[1]].inc = uid[2]

CollectGarbage(o) ==
  /\ rel[o] # None /\ ~rel[o].deleting
  /\ Owned(rel[o]) /\ ~Live(rel[o].owner)
  /\ StoreRelease(o, [rel[o] EXCEPT !.deleting = TRUE], queue)
  /\ UNCHANGED <<modVars, tplVars, left>>

-----------------------------------------------------------------------------
(* Users and strangers. *)

CreateModule(n, s) ==
  /\ mods[n] = None
  /\ Spend("create")
  /\ born' = [born EXCEPT ![n] = @ + 1]
  /\ StoreModule(n, [inc |-> born[n] + 1, gen |-> 1, spec |-> s, status |-> NoStatus,
                     finalizer |-> FALSE, deleting |-> FALSE], queue)
  /\ UNCHANGED <<tplVars, relVars>>

(* The template of a Module is immutable. *)
EditModule(n, s) ==
  /\ mods[n] # None
  /\ s # mods[n].spec /\ s.template = mods[n].spec.template
  /\ Spend("edit")
  /\ StoreModule(n, [mods[n] EXCEPT !.spec = s, !.gen = @ + 1], queue)
  /\ UNCHANGED <<born, tplVars, relVars>>

(* A finalizer holds a deleted Module back. *)
DeleteModule(n) ==
  /\ mods[n] # None /\ ~mods[n].deleting
  /\ Spend("delete")
  /\ StoreModule(n, IF mods[n].finalizer
                    THEN [mods[n] EXCEPT !.deleting = TRUE, !.gen = @ + 1] ELSE None, queue)
  /\ UNCHANGED <<born, tplVars, relVars>>

PutTemplate(t, s) ==
  /\ tpl[t] # None => s # [namespace |-> tpl[t].namespace, type |-> tpl[t].type, chart |-> tpl[t].chart]
  /\ Spend("template")
  /\ StoreTemplate(t, [gen |-> IF tpl[t] = None THEN 1 ELSE tpl[t].gen + 1,
                       namespace |-> s.namespace, type |-> s.type, chart |-> s.chart])
  /\ UNCHANGED <<modVars, relVars>>

DeleteTemplate(t) ==
  /\ tpl[t] # None
  /\ Spend("template")
  /\ StoreTemplate(t, None)
  /\ UNCHANGED <<modVars, relVars>>

(* Somebody deletes a Flux object, strips it of its labels or its owner, or
   puts another spec in. *)
Drift(o) ==
  /\ rel[o] # None /\ ~rel[o].deleting
  /\ Spend("drift")
  /\ \E x \in { [rel[o] EXCEPT !.deleting = TRUE], [rel[o] EXCEPT !.labelled = FALSE],
                [rel[o] EXCEPT !.owner = NoOwner] }
            \cup {[rel[o] EXCEPT !.content = <<c, None>>] : c \in Charts} :
       x # rel[o] /\ StoreRelease(o, x, queue)
  /\ UNCHANGED <<modVars, tplVars>>

(* Somebody has a Flux object of the name that a Module wants. *)
Plant(o) ==
  /\ rel[o] = None
  /\ Spend("plant")
  /\ \E owner \in {NoOwner, Stranger} :
       StoreRelease(o, [ owner |-> owner, content |-> <<CHOOSE c \in Charts : TRUE, None>>,
                         labelled |-> FALSE, ready |-> "Pending", deleting |-> FALSE ], queue)
  /\ UNCHANGED <<modVars, tplVars>>

Environment ==
  \/ \E n \in Names : \/ DeliverModule(n) \/ DeleteModule(n)
                      \/ \E s \in Specs : CreateModule(n, s) \/ EditModule(n, s)
  \/ \E t \in Templates : \/ DeliverTemplate(t) \/ DeleteTemplate(t)
                          \/ \E s \in TemplateSpecs : PutTemplate(t, s)
  \/ \E o \in Releases : \/ DeliverRelease(o) \/ FluxReports(o) \/ FluxUninstalls(o)
                         \/ CollectGarbage(o) \/ Drift(o) \/ Plant(o)
=============================================================================
