----------------------------- MODULE AcpBridge -----------------------------
(***************************************************************************)
(* One ACP connection: a client's calls and cancellations, the carrier     *)
(* that reads them in order and serves each in a task of its own, the      *)
(* bridge with its prompt slot and cancellation mark, the engine's turns   *)
(* and the updates they push, and the client that gathers them.            *)
(*                                                                         *)
(* One session, that session/new made.  A frame is its place among what    *)
(* the client sent; an update is the turn it is of and its place in it.    *)
(***************************************************************************)
EXTENDS Naturals, Sequences, FiniteSets

CONSTANTS
  MaxFrames,   \* bound: frames the client sends
  MaxUpdates,  \* bound: updates of one turn
  TimesOut,    \* a call's deadline may pass on the client
  Reloads      \* the client may load the session again

ASSUME BridgeAssumption ==
  /\ MaxFrames \in Nat /\ MaxUpdates \in Nat
  /\ TimesOut \in BOOLEAN /\ Reloads \in BOOLEAN

VARIABLES
  frames,   \* what the client sent: its kind, where its task is, its answer
  spawned,  \* how many of them the carrier has read
  record,   \* the bridge's Record, and whether it has one
  turn,     \* the prompt the engine is running, 0 for none
  stopping, \* that turn was interrupted
  appended,  \* the updates of the session's turns, as appended
  wire,     \* frames on their way to the client
  client,   \* the call it waits for, 0 for none
  reply,    \* the stop reason its call was settled with, or "none"
  queue,    \* the updates it has read and nobody has taken
  gathered, \* the call that was answered last, its stop reason, its updates
  ended     \* the carrier is done with the connection

agentSide == <<spawned, record, turn, stopping, appended, ended>>
clientSide == <<client, reply, queue, gathered>>
bridgeVars == <<frames, agentSide, wire, clientSide>>

Sent(kind) == [kind |-> kind, at |-> "sent", stop |-> "none", asked |-> FALSE]
Update(of, n) == [is |-> "update", of |-> of, n |-> n]
AnswerTo(f, stop) == [is |-> "answer", to |-> f, stop |-> stop]
Holding == {"claimed", "subscribed", "running", "ran", "unsubscribed"}
Hearing == {"subscribed", "running", "ran"}
UpdatesOf(s, f) == {i \in DOMAIN s : s[i].is = "update" /\ s[i].of = f}
NothingTaken == [of |-> 0, stop |-> "none", updates |-> <<>>]

BridgeInit ==
  /\ frames = <<>> /\ spawned = 0
  /\ record = [known |-> TRUE, inflight |-> FALSE, cancelled |-> FALSE]
  /\ turn = 0 /\ stopping = FALSE /\ appended = <<>>
  /\ wire = <<>> /\ client = 0 /\ reply = "none" /\ queue = <<>> /\ gathered = NothingTaken
  /\ ended = FALSE

--------------------------------------------------------------------------
(* The client: drain, send, wait, and gather once the answer is there.     *)
CallAgent(kind) ==
  /\ client = 0 /\ Len(frames) < MaxFrames /\ ~ended
  /\ kind = "load" => Reloads
  /\ frames' = Append(frames, Sent(kind))
  /\ client' = Len(frames) + 1
  /\ queue' = <<>>
  /\ UNCHANGED <<agentSide, wire, reply, gathered>>

Cancel ==
  /\ Len(frames) < MaxFrames /\ ~ended
  /\ frames' = Append(frames, Sent("cancel"))
  /\ UNCHANGED <<agentSide, wire, clientSide>>

(* The reader routes one frame: an update is queued, an answer settles the *)
(* call that waits for it, if one does.                                    *)
Route ==
  /\ wire # <<>> /\ wire' = Tail(wire)
  /\ LET frame == Head(wire) IN
       \/ /\ frame.is = "update"
          /\ queue' = Append(queue, frame)
          /\ UNCHANGED reply
       \/ /\ frame.is = "answer"
          /\ reply' = IF frame.to = client THEN frame.stop ELSE reply
          /\ UNCHANGED queue
  /\ UNCHANGED <<frames, agentSide, client, gathered>>

(* The caller goes on and takes what is queued by then.                    *)
Gather ==
  /\ reply # "none"
  /\ gathered' = [of |-> client, stop |-> reply, updates |-> queue]
  /\ client' = 0 /\ reply' = "none" /\ queue' = <<>>
  /\ UNCHANGED <<frames, agentSide, wire>>

Expire ==
  /\ TimesOut /\ client # 0 /\ reply = "none"
  /\ client' = 0
  /\ UNCHANGED <<frames, agentSide, wire, reply, queue, gathered>>

--------------------------------------------------------------------------
(* The carrier reads frames in order and spawns a task for each.           *)
Spawn ==
  /\ spawned < Len(frames) /\ ~ended
  /\ spawned' = spawned + 1
  /\ frames' = [frames EXCEPT ![spawned + 1].at = "spawned"]
  /\ UNCHANGED <<record, turn, stopping, appended, wire, clientSide, ended>>

(* Task f moves on; Stands says where it is.                               *)
Stands(f, kind, place) == frames[f].kind = kind /\ frames[f].at = place
Moves(f, place) == frames' = [frames EXCEPT ![f].at = place]
SettlesAs(f, place, stop) ==
  frames' = [frames EXCEPT ![f].at = place, ![f].stop = stop]
Answers_Ahead(f, stop) == wire' = <<AnswerTo(f, stop)>> \o wire

Answers(f, stop) == wire' = Append(wire, AnswerTo(f, stop))

Claim(f) ==
  /\ Stands(f, "prompt", "spawned") /\ record.known /\ ~record.inflight
  /\ Moves(f, "claimed")
  /\ record' = [record EXCEPT !.inflight = TRUE, !.cancelled = FALSE]
  /\ UNCHANGED <<spawned, turn, stopping, appended, wire, clientSide, ended>>

RefusePrompt(f) ==
  /\ Stands(f, "prompt", "spawned") /\ (~record.known \/ record.inflight)
  /\ SettlesAs(f, "done", "refused") /\ Answers(f, "refused")
  /\ UNCHANGED <<agentSide, clientSide>>

OpenUpdates(f) ==
  /\ Stands(f, "prompt", "claimed")
  /\ Moves(f, "subscribed")
  /\ UNCHANGED <<agentSide, wire, clientSide>>

(* The engine runs one turn of a session at a time and refuses another.    *)
Prompt(f) ==
  /\ Stands(f, "prompt", "subscribed")
  /\ \/ turn = 0 /\ turn' = f /\ stopping' = FALSE /\ Moves(f, "running")
     \/ turn # 0 /\ SettlesAs(f, "ran", "busy") /\ UNCHANGED <<turn, stopping>>
  /\ UNCHANGED <<spawned, record, appended, wire, clientSide, ended>>

(* An append pushes to every subscription on the thread that appends.      *)
EnginePushes ==
  /\ turn # 0
  /\ LET n == Cardinality(UpdatesOf(appended, turn)) + 1
         subscribers == {f \in DOMAIN frames : frames[f].kind = "prompt" /\ frames[f].at \in Hearing}
     IN /\ n <= MaxUpdates
        /\ appended' = Append(appended, Update(turn, n))
        /\ wire' = wire \o [s \in 1..Cardinality(subscribers) |-> Update(turn, n)]
  /\ UNCHANGED <<frames, spawned, record, turn, stopping, clientSide, ended>>

TurnEnds ==
  /\ turn # 0
  /\ SettlesAs(turn, "ran", IF stopping THEN "cancelled" ELSE "end_turn")
  /\ turn' = 0
  /\ UNCHANGED <<spawned, record, stopping, appended, wire, clientSide, ended>>

CloseUpdates(f) ==
  /\ Stands(f, "prompt", "ran")
  /\ Moves(f, "unsubscribed")
  /\ UNCHANGED <<agentSide, wire, clientSide>>

Release_OwnReason(f) ==
  /\ Stands(f, "prompt", "unsubscribed")
  /\ SettlesAs(f, "released", frames[f].stop)
  /\ record' = [record EXCEPT !.inflight = FALSE, !.cancelled = FALSE]
  /\ UNCHANGED <<spawned, turn, stopping, appended, wire, clientSide, ended>>

(* The slot is released and the mark read and reset at one moment.         *)
Release(f) ==
  /\ Stands(f, "prompt", "unsubscribed")
  /\ SettlesAs(f, "released", IF record.cancelled THEN "cancelled" ELSE frames[f].stop)
  /\ record' = [record EXCEPT !.inflight = FALSE, !.cancelled = FALSE]
  /\ UNCHANGED <<spawned, turn, stopping, appended, wire, clientSide, ended>>

Answer(f) ==
  /\ frames[f].at = "released"
  /\ Moves(f, "done") /\ Answers(f, frames[f].stop)
  /\ UNCHANGED <<agentSide, clientSide>>

(* cancel marks the record, whoever holds its slot, then interrupts.       *)
MarkCancelled(f) ==
  /\ Stands(f, "cancel", "spawned")
  /\ IF record.known
     THEN /\ record' = [record EXCEPT !.cancelled = TRUE]
          /\ frames' = [g \in DOMAIN frames |->
               IF g = f THEN [frames[g] EXCEPT !.at = "marked"]
               ELSE IF frames[g].at \in Holding THEN [frames[g] EXCEPT !.asked = TRUE]
               ELSE frames[g]]
     ELSE Moves(f, "done") /\ UNCHANGED record
  /\ UNCHANGED <<spawned, turn, stopping, appended, wire, clientSide, ended>>

Interrupt(f) ==
  /\ Stands(f, "cancel", "marked")
  /\ Moves(f, "done")
  /\ stopping' = (stopping \/ turn # 0)
  /\ UNCHANGED <<spawned, record, turn, appended, wire, clientSide, ended>>

(* A load writes what the journal holds, then registers the session anew.   *)
LoadHistory(f) ==
  /\ Stands(f, "load", "spawned")
  /\ Moves(f, "replayed")
  /\ wire' = wire \o appended
  /\ UNCHANGED <<agentSide, clientSide>>

LoadDone(f) ==
  /\ Stands(f, "load", "replayed")
  /\ SettlesAs(f, "released", "loaded")
  /\ record' = [known |-> TRUE, inflight |-> FALSE, cancelled |-> FALSE]
  /\ UNCHANGED <<spawned, turn, stopping, appended, wire, clientSide, ended>>

(* The input is at its end and every task is over: the bridge is closed.   *)
Close ==
  /\ ~ended /\ Len(frames) = MaxFrames /\ spawned = Len(frames)
  /\ \A f \in DOMAIN frames : frames[f].at = "done"
  /\ ended' = TRUE
  /\ record' = [record EXCEPT !.known = FALSE]
  /\ UNCHANGED <<frames, spawned, turn, stopping, appended, wire, clientSide>>

Serve(f) ==
  \/ Claim(f) \/ RefusePrompt(f) \/ OpenUpdates(f) \/ Prompt(f) \/ CloseUpdates(f)
  \/ Release(f) \/ Answer(f) \/ MarkCancelled(f) \/ Interrupt(f) \/ LoadHistory(f) \/ LoadDone(f)

BridgeNext ==
  \/ CallAgent("prompt") \/ CallAgent("load") \/ Cancel \/ Route \/ Gather \/ Expire
  \/ Spawn \/ EnginePushes \/ TurnEnds \/ Close
  \/ \E f \in DOMAIN frames : Serve(f)

BridgeSpec == BridgeInit /\ [][BridgeNext]_bridgeVars

--------------------------------------------------------------------------
BridgeTypeOK ==
  /\ frames \in Seq([kind : {"prompt", "cancel", "load"}, at : STRING, stop : STRING, asked : BOOLEAN])
  /\ spawned \in 0..Len(frames) /\ turn \in 0..Len(frames) /\ client \in 0..Len(frames)
  /\ record \in [known : BOOLEAN, inflight : BOOLEAN, cancelled : BOOLEAN]

(* What a prompt's caller gathers holds every update of its turn, once and *)
(* in order: the agent writes them all before the answer, whatever the     *)
(* client cancelled, gave up on or loaded besides.                         *)
HoldsItsTurn ==
  gathered.of # 0 /\ frames[gathered.of].kind = "prompt" =>
    LET heard == gathered.updates own == UpdatesOf(heard, gathered.of)
    IN  /\ \A i, j \in own : i < j => heard[i].n < heard[j].n
        /\ {heard[i] : i \in own} = {appended[i] : i \in UpdatesOf(appended, gathered.of)}

(* A prompt that was cancelled while it held the session's slot is         *)
(* answered cancelled, whatever reason its turn stopped for.               *)
CancelHeard ==
  \A f \in DOMAIN frames :
    frames[f].at \in {"released", "done"} /\ frames[f].asked => frames[f].stop = "cancelled"

(* A prompt's caller hears its turn out: all of its updates, and its       *)
(* cancellation when it asked for one in time (claim, release,             *)
(* read_frames).                                                           *)
PromptHeardOut == HoldsItsTurn /\ CancelHeard

--------------------------------------------------------------------------
(* What the code says of itself and does not keep (README, Disagreements). *)

(* What a prompt's caller gathers is of its own turn (client.rs:377).      *)
OnlyItsTurn == gathered.of # 0 /\ frames[gathered.of].kind = "prompt"
                 => \A i \in DOMAIN gathered.updates : gathered.updates[i].of = gathered.of

(* At most one prompt holds the session's slot (bridge.rs:30).             *)
OneSlot == \A f, g \in DOMAIN frames :
             frames[f].at \in Holding /\ frames[g].at \in Holding => f = g

(* A prompt is answered cancelled only if a cancellation marked it.        *)
OnlyIfAsked == \A f \in DOMAIN frames :
                 frames[f].at = "done" /\ frames[f].stop = "cancelled" => frames[f].asked
=============================================================================
