------------------------------- MODULE Files -------------------------------
(***************************************************************************)
(* One file of a workspace, and the sessions whose tools read and change   *)
(* it while others do: the tools, what each session has observed, the      *)
(* checks of the local backend and how it publishes.                       *)
(*                                                                         *)
(* A content is a number, its place in the order contents were made; a     *)
(* version tells contents apart and nothing more, so it is that number     *)
(* too, and 0 is no file.  A session runs one call at a time, as the tool  *)
(* group does with calls that change something.                            *)
(***************************************************************************)
EXTENDS Naturals, FiniteSets

CONSTANTS
  Owners,     \* the sessions that have the file's workspace
  MaxVersions \* bound: contents made

VARIABLES
  file,     \* what the path holds
  whole,    \* the contents that reached the disk whole
  made,     \* contents made so far
  undone,   \* what the path held before a rename a power loss can undo
  observed, \* ObservedState::seen
  using,     \* the tool call each session is in
  seen      \* history: the contents each session has read or made

filesVars == <<file, whole, made, undone, observed, using, seen>>

Nothing == [v |-> 0, by |-> "none"]
Idle == [tool |-> "none", at |-> "idle", v |-> 0, new |-> 0, raced |-> FALSE]

FilesInit == /\ file = 1 /\ whole = {1} /\ made = 1 /\ undone = 1
             /\ observed = [o \in Owners |-> Nothing]
             /\ using = [o \in Owners |-> Idle]
             /\ seen = [o \in Owners |-> {}]

Present(o) == observed[o].by # "none" /\ observed[o].v # 0

Observe(o, v, by) == observed' = [observed EXCEPT ![o] = [v |-> v, by |-> by]]
GoOn(o, at) == using' = [using EXCEPT ![o].at = at]
Back(o) == using' = [using EXCEPT ![o] = Idle]

(* The path holds something else, and the calls under way do not know.     *)
Races(calls, by) ==
  [o \in Owners |-> IF o \notin by /\ calls[o].at # "idle" THEN [calls[o] EXCEPT !.raced = TRUE]
                    ELSE calls[o]]

-----------------------------------------------------------------------------
(* Looking.  A read takes the version before the content, in two calls of  *)
(* the system; what it records is the version.                             *)

Stat(o) == /\ using[o].at = "idle"
           /\ Observe(o, file, "stat")
           /\ UNCHANGED <<file, whole, made, undone, using, seen>>

ReadVersion(o) == /\ using[o].at = "idle"
                  /\ IF file = 0
                     THEN Observe(o, 0, "read") /\ UNCHANGED using
                     ELSE /\ using' = [using EXCEPT ![o] = [Idle EXCEPT !.tool = "read", !.v = file,
                                                                      !.at = "reading"]]
                          /\ UNCHANGED observed
                  /\ UNCHANGED <<file, whole, made, undone, seen>>

ReadBytes_StampsAfter(o) == /\ using[o].tool = "read" /\ using[o].at = "reading"
                            /\ Observe(o, file, "read")
                            /\ seen' = [seen EXCEPT ![o] = @ \cup {using[o].v}]
                            /\ Back(o)
                            /\ UNCHANGED <<file, whole, made, undone>>

ReadBytes(o) == /\ using[o].tool = "read" /\ using[o].at = "reading"
                /\ Observe(o, IF file = 0 THEN 0 ELSE using[o].v, "read")
                /\ seen' = [seen EXCEPT ![o] = @ \cup ({file} \ {0})]
                /\ Back(o)
                /\ UNCHANGED <<file, whole, made, undone>>

-----------------------------------------------------------------------------
(* Writing and editing: what the session observed decides what its call    *)
(* may replace.                                                            *)

(* Nothing observed, or an absence: the file may be created.               *)
Intended(o) == IF Present(o) THEN file = observed[o].v ELSE file = 0

Write(o) == /\ using[o].at = "idle" /\ made < MaxVersions
            /\ Intended(o)
            /\ using' = [using EXCEPT ![o] = [Idle EXCEPT !.tool = "write", !.at = "publish",
                                                        !.v = file]]
            /\ UNCHANGED <<file, whole, made, undone, observed, seen>>

(* An edit reads as read does, checks that version against the observed    *)
(* one, and rewrites the content it read.                                  *)
Edit(o) == /\ using[o].at = "idle" /\ made < MaxVersions
           /\ Present(o) /\ file = observed[o].v
           /\ using' = [using EXCEPT ![o] = [Idle EXCEPT !.tool = "edit", !.at = "reading"]]
           /\ UNCHANGED <<file, whole, made, undone, observed, seen>>

EditBytes(o) == /\ using[o].tool = "edit" /\ using[o].at = "reading"
                /\ using' = IF file = 0 THEN [using EXCEPT ![o] = Idle]
                           ELSE [using EXCEPT ![o].at = "publish", ![o].v = file,
                                             ![o].raced = FALSE]
                /\ UNCHANGED <<file, whole, made, undone, observed, seen>>

(* publish: a temporary file beside it is written, synced and renamed.     *)
CreateTemp(o) == /\ using[o].at = "publish" /\ made < MaxVersions
                 /\ made' = made + 1
                 /\ using' = [using EXCEPT ![o].at = "writing", ![o].new = made + 1]
                 /\ UNCHANGED <<file, whole, undone, observed, seen>>

Sync_Skipped(o) == /\ using[o].at = "writing"
                   /\ GoOn(o, "rename")
                   /\ UNCHANGED <<file, whole, made, undone, observed, seen>>

Sync(o) == /\ using[o].at = "writing"
           /\ whole' = whole \cup {using[o].new}
           /\ GoOn(o, "rename")
           /\ UNCHANGED <<file, made, undone, observed, seen>>

Rename(o) == /\ using[o].at = "rename"
             /\ file' = using[o].new /\ undone' = file
             /\ seen' = [seen EXCEPT ![o] = @ \cup {using[o].new}]
             /\ using' = Races([using EXCEPT ![o].at = "stamp"], {o})
             /\ UNCHANGED <<whole, made, observed>>

(* The version is looked up afterwards, by path.                           *)
Stamp(o) == /\ using[o].at = "stamp"
            /\ IF file = 0 THEN UNCHANGED observed ELSE Observe(o, file, "stamp")
            /\ Back(o)
            /\ UNCHANGED <<file, whole, made, undone, seen>>

(* The disk is full, or refuses: the temporary file is removed.            *)
Fail(o) == /\ using[o].at \in {"publish", "writing", "rename"}
           /\ Back(o)
           /\ UNCHANGED <<file, whole, made, undone, observed, seen>>

(* delete looks at nothing but the path.                                   *)
DeletePath(o) == /\ using[o].at = "idle" /\ file # 0
                 /\ file' = 0 /\ undone' = file
                 /\ Observe(o, 0, "stat")
                 /\ using' = Races(using, {o})
                 /\ UNCHANGED <<whole, made, seen>>

-----------------------------------------------------------------------------
(* Everybody else: an editor, a command, another process.                  *)

Elsewhere == \E v \in {0, made + 1} :
               /\ v <= MaxVersions /\ v # file
               /\ file' = v /\ undone' = v
               /\ made' = IF v = 0 THEN made ELSE v
               /\ whole' = whole \cup ({v} \ {0})
               /\ using' = Races(using, {})
               /\ UNCHANGED <<observed, seen>>

(* The process dies, or the machine: observations are in memory, and a     *)
(* rename that was not synced may be undone.                               *)
LoseMemory == /\ using' = [o \in Owners |-> Idle]
              /\ observed' = [o \in Owners |-> Nothing]
              /\ file' \in {file, undone} /\ undone' = file'
              /\ UNCHANGED <<whole, made, seen>>

FilesNext == \/ Elsewhere \/ LoseMemory
             \/ \E o \in Owners :
                  \/ Stat(o) \/ ReadVersion(o) \/ ReadBytes(o) \/ Write(o) \/ Edit(o) \/ EditBytes(o)
                  \/ CreateTemp(o) \/ Sync(o) \/ Rename(o) \/ Stamp(o) \/ Fail(o) \/ DeletePath(o)

FilesSpec == FilesInit /\ [][FilesNext]_filesVars

-----------------------------------------------------------------------------
(* Properties. *)

(* A crash mid-write loses the write and not the file: whatever dies when, *)
(* the path holds nothing or a whole content (local.rs, publish).          *)
NeverTorn == file = 0 \/ file \in whole

Overwrites(o) == using[o].at = "rename" /\ using'[o].at = "stamp" /\ file # 0
Knew(o) == IF using[o].tool = "edit" THEN file = using[o].v ELSE file \in seen[o]

(* A session overwrites a content it did not see only when somebody made   *)
(* it inside the call that overwrites it, or when what it went by was not  *)
(* a read: a stat, or a version looked up after a write of its own.  A     *)
(* change at any moment of a read, or between two calls, is caught.        *)
OverwritesWhatItSaw ==
  [][\A o \in Owners : Overwrites(o) =>
       Knew(o) \/ using[o].raced \/ (observed[o].by # "read" /\ observed[o].v \notin seen[o])]_filesVars

-----------------------------------------------------------------------------
(* What the code says of itself and does not keep (README, Disagreements). *)

(* observation.rs: a tool may not overwrite what it has not read.          *)
ReadFirst ==
  [][\A o \in Owners : Overwrites(o) => Knew(o) \/ using[o].raced]_filesVars

(* tools.rs: an edit needs the content, which only a read has seen.        *)
EditNeedsRead ==
  \A o \in Owners : using[o].tool = "edit" /\ ~using[o].raced => observed[o].v \in seen[o]
=============================================================================
