------------------------------ MODULE Registry ------------------------------
(***************************************************************************)
(* The plugins of a composition: which are registered, the depth-first     *)
(* walk that puts them in an order, the boot that starts them in it and    *)
(* rolls back when one fails, and the stop that takes it backwards.        *)
(*                                                                         *)
(* The registry walks its plugins by name and their dependencies as they   *)
(* are listed; here either may come in any order.                          *)
(***************************************************************************)
EXTENDS Naturals, Sequences

CONSTANTS
  Plugins,  \* ids a plugin may have
  Unknown   \* an id no plugin has

ASSUME RegistryAssumption == Unknown \notin Plugins

VARIABLES
  deps,       \* what each plugin declares
  plugins,    \* Registry::plugins, the ids registered
  pass,       \* what the registry is doing
  goal,       \* what the order is made for: "start" or "stop"
  todo,       \* registered ids the walk has not begun with
  state,      \* of each id: unseen, visiting or done
  path,       \* the ids being visited, each below what asked for it
  left,       \* of each id visited, the dependencies not looked at
  order,      \* the ids whose visit is over
  n,          \* how many of order are started, or still to be stopped
  mounted,    \* plugins started and not stopped
  faults,     \* those of them that could not unmount when they were told to
  answer      \* of the latest pass

registryVars ==
  <<deps, plugins, pass, goal, todo, state, path, left, order, n, mounted, faults, answer>>
walk == <<todo, state, path, left, order>>

Ids == Plugins \cup {Unknown}
Passes == {"idle", "walk", "start", "undo", "stop"}
PassAnswers == {"none", "ok", "cycle", "missing", "failed"}
Unseen == [p \in Plugins |-> "unseen"]
NoneLeft == [p \in Plugins |-> {}]

RegistryInit ==
  /\ deps \in [Plugins -> SUBSET Ids]
  /\ plugins = {} /\ pass = "idle" /\ goal = "start" /\ todo = {}
  /\ state = Unseen /\ left = NoneLeft
  /\ path = <<>> /\ order = <<>> /\ n = 0 /\ mounted = {} /\ faults = {}
  /\ answer = "none"

(* A duplicate is refused and changes nothing.                             *)
insert(p) ==
  /\ pass = "idle" /\ p \notin plugins
  /\ plugins' = plugins \cup {p} /\ answer' = "none"
  /\ UNCHANGED <<deps, pass, goal, walk, n, mounted, faults>>

(* start_all is called when nothing of the registry is mounted, stop_all   *)
(* at any time.                                                            *)
BeginPass(what) ==
  /\ pass = "idle"
  /\ what = "start" => mounted = {}
  /\ pass' = "walk" /\ goal' = what /\ answer' = "none" /\ todo' = plugins
  /\ UNCHANGED <<deps, plugins, state, path, left, order, n, mounted, faults>>

--------------------------------------------------------------------------
(* start_order                                                             *)
Visit(p) ==
  /\ state' = [state EXCEPT ![p] = "visiting"]
  /\ left' = [left EXCEPT ![p] = deps[p]]
  /\ path' = Append(path, p)

NextRoot(p) ==
  /\ pass = "walk" /\ path = <<>> /\ p \in todo /\ todo' = todo \ {p}
  /\ \/ state[p] = "unseen" /\ Visit(p)
     \/ state[p] = "done" /\ UNCHANGED <<state, left, path>>
  /\ UNCHANGED <<deps, plugins, pass, goal, order, n, mounted, faults, answer>>

Top == path[Len(path)]

(* A dependency of the id being visited: visited first, or visited         *)
(* already, or the reason there is no order.                               *)
DepVisited(d) ==
  /\ state' = [state EXCEPT ![d] = "visiting"]
  /\ left' = [left EXCEPT ![Top] = @ \ {d}, ![d] = deps[d]]
  /\ path' = Append(path, d)

Dep(d) ==
  /\ pass = "walk" /\ path # <<>> /\ d \in left[Top] \cap plugins
  /\ \/ state[d] = "unseen" /\ DepVisited(d)
     \/ /\ state[d] = "done"
        /\ left' = [left EXCEPT ![Top] = @ \ {d}] /\ UNCHANGED <<state, path>>
  /\ UNCHANGED <<deps, plugins, pass, goal, todo, order, n, mounted, faults, answer>>

RefuseOrder(why) ==
  /\ pass' = "idle" /\ answer' = why
  /\ todo' = {} /\ state' = Unseen /\ left' = NoneLeft /\ path' = <<>> /\ order' = <<>>
  /\ UNCHANGED <<deps, plugins, goal, n, mounted, faults>>

Cycle(d) ==
  /\ pass = "walk" /\ path # <<>> /\ d \in left[Top] \cap plugins
  /\ state[d] = "visiting" /\ RefuseOrder("cycle")

MissingDep(d) ==
  /\ pass = "walk" /\ path # <<>> /\ d \in left[Top] \ plugins
  /\ RefuseOrder("missing")

(* The id is in the order before what it stands on.                        *)
Visited_Early ==
  /\ pass = "walk" /\ path # <<>> /\ left[Top] # {}
  /\ \E d \in left[Top] : left' = [left EXCEPT ![Top] = @ \ {d}]
  /\ state' = [state EXCEPT ![Top] = "done"]
  /\ order' = Append(order, Top) /\ path' = SubSeq(path, 1, Len(path) - 1)
  /\ UNCHANGED <<deps, plugins, pass, goal, todo, n, mounted, faults, answer>>

Visited ==
  /\ pass = "walk" /\ path # <<>> /\ left[Top] = {}
  /\ state' = [state EXCEPT ![Top] = "done"]
  /\ order' = Append(order, Top) /\ path' = SubSeq(path, 1, Len(path) - 1)
  /\ UNCHANGED <<deps, plugins, pass, goal, todo, left, n, mounted, faults, answer>>

Ordered ==
  /\ pass = "walk" /\ path = <<>> /\ todo = {}
  /\ pass' = goal /\ n' = IF goal = "start" THEN 0 ELSE Len(order)
  /\ state' = Unseen /\ left' = NoneLeft
  /\ UNCHANGED <<deps, plugins, goal, todo, path, order, mounted, faults, answer>>

--------------------------------------------------------------------------
(* start_all: the next plugin starts, or fails and is not stopped.         *)
Start ==
  /\ pass = "start" /\ n < Len(order)
  /\ n' = n + 1 /\ mounted' = mounted \cup {order[n + 1]}
  /\ UNCHANGED <<deps, plugins, pass, goal, walk, faults, answer>>

StartFails ==
  /\ pass = "start" /\ n < Len(order)
  /\ pass' = "undo"
  /\ UNCHANGED <<deps, plugins, goal, walk, n, mounted, faults, answer>>

Started ==
  /\ pass = "start" /\ n = Len(order)
  /\ pass' = "idle" /\ answer' = "ok" /\ order' = <<>> /\ n' = 0
  /\ UNCHANGED <<deps, plugins, goal, todo, state, path, left, mounted, faults>>

(* The first of what is mounted is stopped first.                          *)
StopNext_Forward ==
  /\ pass \in {"undo", "stop"} /\ n > 0 /\ n' = n - 1
  /\ LET id == order[Len(order) + 1 - n]
     IN \/ mounted' = mounted \ {id} /\ faults' = faults \ {id}
        \/ faults' = faults \cup ({id} \cap mounted) /\ UNCHANGED mounted
  /\ UNCHANGED <<deps, plugins, pass, goal, walk, answer>>

(* stop_each, backwards: a plugin stops, or cannot, which is reported and  *)
(* does not keep the pass from going on to those it stands on.             *)
StopNext ==
  /\ pass \in {"undo", "stop"} /\ n > 0 /\ n' = n - 1
  /\ \/ mounted' = mounted \ {order[n]} /\ faults' = faults \ {order[n]}
     \/ faults' = faults \cup ({order[n]} \cap mounted) /\ UNCHANGED mounted
  /\ UNCHANGED <<deps, plugins, pass, goal, walk, answer>>

Stopped ==
  /\ pass \in {"undo", "stop"} /\ n = 0
  /\ pass' = "idle" /\ answer' = IF pass = "stop" THEN "ok" ELSE "failed"
  /\ order' = <<>>
  /\ UNCHANGED <<deps, plugins, goal, todo, state, path, left, n, mounted, faults>>

RegistryNext ==
  \/ \E p \in Plugins : insert(p) \/ NextRoot(p)
  \/ \E what \in {"start", "stop"} : BeginPass(what)
  \/ \E d \in Ids : Dep(d) \/ Cycle(d) \/ MissingDep(d)
  \/ Visited \/ Ordered \/ Start \/ StartFails \/ Started \/ StopNext \/ Stopped

RegistrySpec == RegistryInit /\ [][RegistryNext]_registryVars

--------------------------------------------------------------------------
RegistryTypeOK ==
  /\ deps \in [Plugins -> SUBSET Ids] /\ plugins \subseteq Plugins
  /\ pass \in Passes /\ goal \in {"start", "stop"} /\ answer \in PassAnswers
  /\ todo \subseteq plugins
  /\ state \in [Plugins -> {"unseen", "visiting", "done"}]
  /\ left \in [Plugins -> SUBSET Ids]
  /\ path \in Seq(plugins) /\ order \in Seq(plugins)
  /\ n \in 0..Len(order) /\ mounted \subseteq plugins /\ faults \subseteq mounted

(* The plugins that run: those mounted that have not failed to unmount.    *)
Running == mounted \ faults

(* Whatever runs stands on what runs: at every moment of a boot, of the    *)
(* roll-back of one that failed and of a stop, also behind plugins that    *)
(* cannot unmount, no plugin has been told to stop before those that       *)
(* depend on it.  And one that cannot unmount strands nobody: after a boot *)
(* that failed, and after a stop, only such are left mounted (start_order, *)
(* start_all, stop_all, stop_each).                                        *)
DependenciesUp ==
  /\ \A p \in Running : deps[p] \subseteq Running
  /\ answer = "failed" \/ (answer = "ok" /\ goal = "stop") => Running = {}

(* The order is refused only to plugins that have none: something they     *)
(* stand on is not registered, or some of them each stand on another.      *)
RefusesOnlyBroken ==
  /\ answer = "missing" => \E p \in plugins : ~(deps[p] \subseteq plugins)
  /\ answer = "cycle" =>
       \E S \in SUBSET plugins : S # {} /\ \A p \in S : deps[p] \cap S # {}
=============================================================================
