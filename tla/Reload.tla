------------------------------- MODULE Reload -------------------------------
(***************************************************************************)
(* The settings document, re-read while the harness runs: the watcher that *)
(* waits for the file to hold still, and the re-read that replaces the     *)
(* file's layer of the configuration, while an editor goes on.             *)
(*                                                                         *)
(* A stamp is a number; an edit that leaves size and time as they were is  *)
(* one the watcher cannot see and is left out.  A missing document reads   *)
(* as one that sets nothing.                                               *)
(***************************************************************************)
EXTENDS Naturals

CONSTANTS
  Accepted,   \* documents the schema accepts
  Rejected,   \* documents that parse and that it refuses
  Torn,       \* what a half-written document reads as
  QuietPolls, \* Watcher::quiet_polls
  PutsBack,   \* an old file may be moved back, its stamp with it
  MaxEdits    \* bound: edits

ASSUME ReloadAssumption == Torn \notin Accepted

VARIABLES
  document, before, \* the file, and the one it replaced: its text and its stamp
  edits,
  watcher,          \* Watcher: the settled stamp, the pending one and its count
  reload,           \* how far a re-read has come
  config            \* what the file layer holds

reloadVars == <<document, before, edits, watcher, reload, config>>

Documents == Accepted \cup Rejected \cup {Torn}
NonePending == [stamp |-> 0, held |-> 0]

ReloadInit ==
  /\ config \in Accepted /\ document = [text |-> config, stamp |-> 1] /\ before = document
  /\ watcher = [settled |-> 1, pending |-> NonePending]
  /\ edits = 1 /\ reload = "idle"

-----------------------------------------------------------------------------

Rewrite(text) == /\ edits < MaxEdits /\ edits' = edits + 1
                 /\ document' = [text |-> text, stamp |-> edits'] /\ before' = document
                 /\ UNCHANGED <<watcher, reload, config>>

PutBack == /\ PutsBack /\ edits < MaxEdits /\ edits' = edits + 1
           /\ document' = before /\ before' = document
           /\ UNCHANGED <<watcher, reload, config>>

-----------------------------------------------------------------------------
(* Watcher::observe: what it is after a stamp, and whether that settled.   *)

Settles(seen) ==
  /\ seen # watcher.settled
  /\ IF watcher.pending.stamp = seen THEN watcher.pending.held + 1 >= QuietPolls
     ELSE QuietPolls = 1

(* The first sight of a stamp is taken for the settled state.              *)
Observed_Early(seen) ==
  IF seen = watcher.settled \/ Settles(seen) THEN [settled |-> seen, pending |-> NonePending]
  ELSE [settled |-> seen, pending |-> [stamp |-> seen, held |-> 1]]

Observed(seen) ==
  IF seen = watcher.settled THEN [watcher EXCEPT !.pending = NonePending]
  ELSE IF Settles(seen) THEN [settled |-> seen, pending |-> NonePending]
  ELSE [watcher EXCEPT !.pending =
         [stamp |-> seen,
          held |-> IF watcher.pending.stamp = seen THEN watcher.pending.held + 1 ELSE 1]]

(* Reload::tick.                                                           *)
Tick == /\ reload = "idle"
        /\ watcher' = Observed(document.stamp)
        /\ reload' = IF Settles(document.stamp) THEN "check" ELSE "idle"
        /\ UNCHANGED <<document, before, edits, config>>

(* The schema is asked about one reading of the file, and another one is   *)
(* loaded; what either refuses leaves the configuration as it was.         *)
CheckSchema == /\ reload = "check"
               /\ reload' = IF document.text \in Accepted THEN "load" ELSE "idle"
               /\ UNCHANGED <<document, before, edits, watcher, config>>

Recompose == /\ reload = "load" /\ reload' = "idle"
             /\ config' = IF document.text = Torn THEN config ELSE document.text
             /\ UNCHANGED <<document, before, edits, watcher>>

-----------------------------------------------------------------------------

ReloadNext == \/ Tick \/ CheckSchema \/ Recompose \/ PutBack
              \/ \E text \in Documents : Rewrite(text)

ReloadSpec == ReloadInit /\ [][ReloadNext]_reloadVars

-----------------------------------------------------------------------------
(* Properties. *)

(* When the watcher has nothing more to do, the configuration is the       *)
(* document, or the document is one that was refused: no edit that raced a *)
(* re-read is taken for read (tick, observe).                              *)
SettledIsLoaded ==
  reload = "idle" /\ watcher = [settled |-> document.stamp, pending |-> NonePending]
    /\ document.text \in Accepted => config = document.text

-----------------------------------------------------------------------------
(* What the code says of itself and does not keep (README, Disagreements). *)

(* "The schema is checked on every re-read": not the reading it loads.     *)
OnlyAccepted == config \in Accepted

=============================================================================
