------------------------------ MODULE Lineage ------------------------------
(***************************************************************************)
(* What a session delegated, read from the headers of all sessions: the    *)
(* walk of descendants over both lineage edges.  The headers are files, so *)
(* the links may form anything: the session asked about may itself be      *)
(* started by another, by one below it or by itself.                       *)
(*                                                                         *)
(* A session is its place in the order of creation, ids breaking the ties. *)
(***************************************************************************)
EXTENDS Naturals, FiniteSets, SequencesExt, Listing

CONSTANTS
  Sessions, \* the sessions on disk, numbers
  Root,     \* the one that is asked about
  NoLink    \* a header without the link

ASSUME LineageConstants ==
  /\ IsFiniteSet(Sessions) /\ Sessions = 1 .. Cardinality(Sessions)
  /\ Root \in Sessions /\ NoLink \notin Sessions

VARIABLES
  spawned_by, parent_session, \* the links of each header
  stack,                      \* sessions to visit, the next one last
  visited,
  found                       \* the listing

lineageVars == <<spawned_by, parent_session, stack, visited, found>>

(* Every session that names this one, by either link, oldest first.        *)
edges(s) == InOrder({c \in Sessions : s \in {spawned_by[c], parent_session[c]}})

push_children(s, distance) ==
  LET children == Reverse(edges(s))
  IN [i \in DOMAIN children |-> [session |-> children[i], distance |-> distance]]

(* The root is not marked before the walk.                                 *)
LineageInit_RootUnmarked ==
  /\ spawned_by \in [Sessions -> Sessions \cup {NoLink}]
  /\ parent_session \in [Sessions -> Sessions \cup {NoLink}]
  /\ stack = push_children(Root, 1) /\ visited = {} /\ found = <<>>

LineageInit ==
  /\ spawned_by \in [Sessions -> Sessions \cup {NoLink}]
  /\ parent_session \in [Sessions -> Sessions \cup {NoLink}]
  /\ stack = push_children(Root, 1) /\ visited = {Root} /\ found = <<>>

Pop == LET top == Last(stack)
           s == top.session
       IN /\ stack # <<>>
          /\ IF s \in visited
             THEN stack' = Front(stack) /\ UNCHANGED <<visited, found>>
             ELSE /\ visited' = visited \cup {s}
                  /\ found' = IF spawned_by[s] = NoLink THEN found ELSE Append(found, top)
                  /\ stack' = Front(stack) \o push_children(s, top.distance + 1)
          /\ UNCHANGED <<spawned_by, parent_session>>

LineageNext == Pop

LineageSpec == LineageInit /\ [][LineageNext]_lineageVars

-----------------------------------------------------------------------------
(* Properties. *)

(* With each session it holds, what names that one.                        *)
LeadsOn(S) == \A p \in S : \A c \in Sessions : p \in {spawned_by[c], parent_session[c]} => c \in S

Below == {s \in Sessions \ {Root} : \A S \in SUBSET Sessions : Root \in S /\ LeadsOn(S) => s \in S}
Listed == {found[i].session : i \in DOMAIN found}

(* The listing is every session below the root, by either link, that       *)
(* somebody started, each once and never the root, whatever cycles and     *)
(* diamonds the links form (descendants).                                  *)
FindsDelegated ==
  /\ Root \notin Listed /\ Cardinality(Listed) = Len(found)
  /\ stack = <<>> => Listed = {s \in Below : spawned_by[s] # NoLink}

-----------------------------------------------------------------------------
(* What the code says of itself and does not keep (README, Disagreements). *)

(* "how many lineage edges lie between it and the session the walk started *)
(* from; a direct child is 1": a copy of a child is met below the child.   *)
DirectChildIsOne ==
  \A i \in DOMAIN found : spawned_by[found[i].session] = Root => found[i].distance = 1

=============================================================================
