------------------------------ MODULE Bindings ------------------------------
(***************************************************************************)
(* Which provider serves what: the merge of the deploy configurations of a *)
(* chain of boundaries (providers/binding.py), and the presentation        *)
(* bindings of an application (presentation/provider_bindings.py).         *)
(* Dictionaries are functions; a binding is [provider, config].            *)
(***************************************************************************)
EXTENDS Integers, Sequences, Functions

CONSTANT None

ShallowMerge(parent, leaf) ==
    [k \in DOMAIN parent \union DOMAIN leaf |-> IF k \in DOMAIN leaf THEN leaf[k] ELSE parent[k]]

(* Fault: the leaf's entry replaces the parent's.                          *)
MergeBindingOver(parent, leaf) == leaf

(* Identity, storage, presentation, and an entry that both maps have.      *)
MergeBinding(parent, leaf) ==
    [provider |-> leaf.provider, config |-> ShallowMerge(parent.config, leaf.config)]

MergeNamedMap(parent, leaf) ==
    [k \in DOMAIN parent \union DOMAIN leaf |->
        CASE k \notin DOMAIN leaf   -> parent[k]
          [] k \notin DOMAIN parent -> leaf[k]
          [] OTHER                  -> MergeBinding(parent[k], leaf[k])]

(* single stands for identity, storage and presentation, named for compute *)
(* and channels.                                                           *)
MergeTwo(parent, leaf) ==
    [version |-> leaf.version,
     single  |-> MergeBinding(parent.single, leaf.single),
     named   |-> MergeNamedMap(parent.named, leaf.named)]

(* The root, with the next n levels merged over it.                        *)
MergedOver(chain) ==
    LET merged[n \in 0 .. Len(chain) - 1] ==
            IF n = 0 THEN chain[1] ELSE MergeTwo(merged[n - 1], chain[n + 1])
    IN  merged

resolve_effective_bindings(chain) ==
    IF \E i \in DOMAIN chain : chain[i].version # chain[1].version THEN None
    ELSE MergedOver(chain)[Len(chain) - 1]

-----------------------------------------------------------------------------
(* Presentation.  A binding has a key, the namespace alone or with the     *)
(* name of a contract; a contract is <<namespace, name>>.  An app is       *)
(* [nested, flat], two lists of [key, provider, config]; providers maps    *)
(* the registered products to the contracts they declare, packages the     *)
(* namespaces of the loaded packages to theirs.                            *)
Base == "presentation-base"
CONSTANT BaseContracts, Default

KeysOf(list) == {list[i].key : i \in DOMAIN list}
NamespaceOf(key) == key[1]
IsContract(key) == Len(key) = 2

(* {**nested, **flat}: an entry that both have keeps its place.            *)
Put(list, b) ==
    IF b.key \in KeysOf(list) THEN [i \in DOMAIN list |-> IF list[i].key = b.key THEN b ELSE list[i]]
    ELSE Append(list, b)

Overlaid(app) ==
    LET overlaid[n \in 0 .. Len(app.flat)] ==
            IF n = 0 THEN app.nested ELSE Put(overlaid[n - 1], app.flat[n])
    IN  overlaid

Declared(app) == Overlaid(app)[Len(app.flat)]

HasBase(list) == \E k \in KeysOf(list) : NamespaceOf(k) = Base

(* Fault: the default serves the base only of an app that binds nothing.   *)
AllBindingsIfNone(app) ==
    IF Declared(app) # <<>> THEN Declared(app)
    ELSE <<[key |-> <<Base>>, provider |-> Default, config |-> None]>>

AllBindings(app) ==
    IF HasBase(Declared(app)) THEN Declared(app)
    ELSE Append(Declared(app), [key |-> <<Base>>, provider |-> Default, config |-> None])

(* The contracts a namespace stands for; a package comes before what the   *)
(* product declares.                                                       *)
Expansion(binding, providers, packages) ==
    LET ns == NamespaceOf(binding.key) IN
    CASE ns = Base              -> {<<Base, c>> : c \in BaseContracts}
      [] ns # Base /\ ns \in DOMAIN packages -> {<<ns, c>> : c \in packages[ns]}
      [] OTHER -> IF binding.provider \in DOMAIN providers
                  THEN {c \in providers[binding.provider] : NamespaceOf(c) = ns} ELSE {}

(* Fault: the namespace takes over what was bound by name.                 *)
Overwrites(acc, names, binding) ==
    [c \in DOMAIN acc \union names |-> IF c \in names THEN binding ELSE acc[c]]

(* contract_bindings.setdefault for what a namespace stands for.           *)
SetDefault(acc, names, binding) ==
    [c \in DOMAIN acc \union names |-> IF c \in DOMAIN acc THEN acc[c] ELSE binding]

Bound(acc, binding, providers, packages) ==
    IF IsContract(binding.key)
    THEN [c \in DOMAIN acc \union {binding.key} |-> IF c = binding.key THEN binding ELSE acc[c]]
    ELSE SetDefault(acc, Expansion(binding, providers, packages), binding)

(* What the first n of the bindings bind.                                  *)
BoundBy(bindings, providers, packages) ==
    LET bound[n \in 0 .. Len(bindings)] ==
            IF n = 0 THEN [c \in {} |-> None] ELSE Bound(bound[n - 1], bindings[n], providers, packages)
    IN  bound

(* What serves each contract: products without a factory are skipped.      *)
Serving(app, providers, packages) ==
    LET bound == BoundBy(AllBindings(app), providers, packages)[Len(AllBindings(app))]
    IN  [c \in {c \in DOMAIN bound : bound[c].provider \in DOMAIN providers} |-> bound[c].provider]

-----------------------------------------------------------------------------
Binding(chain, name) == {i \in DOMAIN chain : name \in DOMAIN chain[i].named}
Setting(chain, name, k) == {i \in Binding(chain, name) : k \in DOMAIN chain[i].named[name].config}
Latest(levels) == CHOOSE i \in levels : \A j \in levels : j <= i

(* Every setting of the effective configuration is that of the last level  *)
(* of the chain that sets it, and the product that of the last level that  *)
(* binds the name: a level that says nothing of a name changes nothing.    *)
LastLevelWins(chain) ==
    LET effective == resolve_effective_bindings(chain)
    IN  effective # None =>
          \A name \in UNION {DOMAIN chain[i].named : i \in DOMAIN chain} :
            /\ name \in DOMAIN effective.named
            /\ effective.named[name].provider = chain[Latest(Binding(chain, name))].named[name].provider
            /\ DOMAIN effective.named[name].config =
                  UNION {DOMAIN chain[i].named[name].config : i \in Binding(chain, name)}
            /\ \A k \in DOMAIN effective.named[name].config :
                  effective.named[name].config[k] = chain[Latest(Setting(chain, name, k))].named[name].config[k]

(* A contract that the application binds by its name is served by that     *)
(* product and no other, wherever the binding stands and whatever its      *)
(* namespace is bound to; the flat form is heard before the nested one.    *)
ByNameBeforeNamespace(app, providers, packages) ==
    LET serving == Serving(app, providers, packages)
        Heard(b) == b \in Range(app.flat) \/ b.key \notin KeysOf(app.flat)
    IN  \A b \in Range(app.flat) \union Range(app.nested) :
            IsContract(b.key) /\ Heard(b) =>
                IF b.provider \in DOMAIN providers
                THEN b.key \in DOMAIN serving /\ serving[b.key] = b.provider
                ELSE b.key \notin DOMAIN serving

(* Every base contract is served, if only by the default product, unless   *)
(* the application itself binds the base namespace or a part of it.        *)
BaseIsServed(app, providers, packages) ==
    Default \in DOMAIN providers /\ ~ HasBase(app.flat) /\ ~ HasBase(app.nested) =>
        \A c \in BaseContracts : <<Base, c>> \in DOMAIN Serving(app, providers, packages)
=============================================================================
