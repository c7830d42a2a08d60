------------------------------ MODULE PushHub ------------------------------
(***************************************************************************)
(* Subscriptions to one live session: the replay from the journal and the  *)
(* live events of its bus, joined so that neither an event appended during *)
(* the replay is lost nor one is pushed twice.                             *)
(*                                                                         *)
(* An event is its seq.  The log is appended to by the session's one turn, *)
(* on another thread than the subscribers.                                 *)
(***************************************************************************)
EXTENDS Naturals, Sequences, FiniteSets, SequencesExt, Listing

CONSTANTS
  Subscribers,  \* calls of session.subscribe, one subscription each
  FromSeqs,     \* the from_seq a call may name
  Omitted,      \* a call that names none: live events only
  MaxEvents     \* bound: events appended

ASSUME ConstantsAssumption ==
  /\ FromSeqs \subseteq Nat /\ Omitted \notin Nat /\ MaxEvents \in Nat

VARIABLES
  length,     \* events of the log; the header is there before anyone calls
  emit,       \* what the append in progress has done: "none", "committed"
              \* to the log, "calling" the listeners
  listeners,  \* the bus's listeners, in registration order
  called,     \* the listeners the emit in progress has yet to call
  at,         \* where each subscription is
  from,       \* the from_seq it named
  last,       \* the last_seq it is answered
  open,       \* Gate::open
  through,    \* Gate::delivered_through
  held,       \* Gate::held
  got         \* the events its sink was handed, in order

vars == <<length, emit, listeners, called, at, from, last, open, through,
          held, got>>
bus == <<length, emit, listeners, called>>
gate == <<open, through, held>>

Seqs == 0 .. MaxEvents

TypeOK ==
  /\ length \in 1 .. MaxEvents + 1 /\ emit \in {"none", "committed", "calling"}
  /\ \A s \in ToSet(listeners) \cup ToSet(called) : s \in Subscribers
  /\ at \in [Subscribers -> {"out", "registered", "replaying", "subscribed",
                             "closed"}]
  /\ from \in [Subscribers -> FromSeqs \cup {Omitted}]
  /\ last \in [Subscribers -> Seqs] /\ through \in [Subscribers -> Seqs]
  /\ open \in [Subscribers -> BOOLEAN]
  /\ held \in [Subscribers -> Seq(Seqs)]
  /\ got \in [Subscribers -> Seq(Seqs)]

Init == /\ length = 1 /\ emit = "none" /\ listeners = <<>> /\ called = <<>>
        /\ at = [s \in Subscribers |-> "out"]
        /\ from \in [Subscribers -> FromSeqs \cup {Omitted}]
        /\ last = [s \in Subscribers |-> 0]
        /\ open = [s \in Subscribers |-> FALSE]
        /\ through = [s \in Subscribers |-> 0]
        /\ held = [s \in Subscribers |-> <<>>]
        /\ got = [s \in Subscribers |-> <<>>]

Goto(s, place) == at' = [at EXCEPT ![s] = place]

(* The consecutive seqs i .. j. *)
Run(i, j) == [k \in 1 .. (j + 1) - i |-> i + k - 1]

-----------------------------------------------------------------------------
(* SessionLog::append: the mirror grows under the log's lock, and the      *)
(* listeners of that moment are called one by one after it is released.    *)

Commit == /\ emit = "none" /\ length <= MaxEvents
          /\ length' = length + 1
          /\ emit' = "committed"
          /\ UNCHANGED <<listeners, called, at, from, last, gate, got>>

Emit == /\ emit = "committed"
        /\ emit' = "calling"
        /\ called' = listeners
        /\ UNCHANGED <<length, listeners, at, from, last, gate, got>>

Event == length - 1

(* What the replay delivered is not asked about.                           *)
Hear_Unchecked(s) ==
  IF ~open[s]
  THEN /\ held' = [held EXCEPT ![s] = Append(@, Event)]
       /\ UNCHANGED <<through, got>>
  ELSE /\ through' = [through EXCEPT ![s] = Event]
       /\ got' = [got EXCEPT ![s] = Append(@, Event)]
       /\ UNCHANGED held

(* A subscription's listener, under its gate: held while the replay runs,  *)
(* dropped when the replay has delivered it, and pushed otherwise.         *)
Hear(s) ==
  IF ~open[s]
  THEN /\ held' = [held EXCEPT ![s] = Append(@, Event)]
       /\ UNCHANGED <<through, got>>
  ELSE /\ IF Event <= through[s] THEN UNCHANGED <<through, got>>
          ELSE /\ through' = [through EXCEPT ![s] = Event]
               /\ got' = [got EXCEPT ![s] = Append(@, Event)]
       /\ UNCHANGED held

CallListener == /\ emit = "calling" /\ called # <<>>
                /\ Hear(Head(called))
                /\ called' = Tail(called)
                /\ UNCHANGED <<length, emit, listeners, at, from, last, open>>

Emitted == /\ emit = "calling" /\ called = <<>>
           /\ emit' = "none"
           /\ UNCHANGED <<length, listeners, called, at, from, last, gate, got>>

-----------------------------------------------------------------------------
(* Hub::subscribe and unsubscribe.                                         *)

Register(s) == /\ at[s] = "out"
               /\ listeners' = Append(listeners, s)
               /\ Goto(s, "registered")
               /\ UNCHANGED <<length, emit, called, from, last, gate, got>>

ReadLog(s) == /\ at[s] = "registered"
              /\ last' = [last EXCEPT ![s] = length - 1]
              /\ Goto(s, "replaying")
              /\ UNCHANGED <<bus, from, gate, got>>

Replaying(s) == /\ at[s] = "replaying" /\ from[s] # Omitted
                /\ from[s] + Len(got[s]) <= last[s]

Replay(s) == /\ Replaying(s)
             /\ got' = [got EXCEPT ![s] = Append(@, from[s] + Len(@))]
             /\ UNCHANGED <<bus, at, from, last, gate>>

(* What was held and the replay did not cover. *)
Released(s) == Picked(held[s], {i \in DOMAIN held[s] : held[s][i] > last[s]})

(* The gate stays locked across the release, so it is one step.            *)
OpenGate(s) ==
  /\ at[s] = "replaying" /\ ~Replaying(s)
  /\ open' = [open EXCEPT ![s] = TRUE]
  /\ through' = [through EXCEPT ![s] =
                   IF Released(s) = <<>> THEN last[s]
                   ELSE Released(s)[Len(Released(s))]]
  /\ held' = [held EXCEPT ![s] = <<>>]
  /\ got' = [got EXCEPT ![s] = @ \o Released(s)]
  /\ Goto(s, "subscribed")
  /\ UNCHANGED <<bus, from, last>>

(* A queue without one of those in it. *)
Without(q, e) == Picked(q, {i \in DOMAIN q : q[i] # e})

(* Dropping the handle takes the listener off the bus; an emit that has    *)
(* taken its listeners already still calls it.                             *)
Unsubscribe(s) == /\ at[s] = "subscribed"
                  /\ listeners' = Without(listeners, s)
                  /\ Goto(s, "closed")
                  /\ UNCHANGED <<length, emit, called, from, last, gate, got>>

-----------------------------------------------------------------------------

Publish == Commit \/ Emit \/ CallListener \/ Emitted
Subscribe(s) == Register(s) \/ ReadLog(s) \/ Replay(s) \/ OpenGate(s)

Next == \/ Publish
        \/ \E s \in Subscribers : Subscribe(s) \/ Unsubscribe(s)

Spec == Init /\ [][Next]_vars

-----------------------------------------------------------------------------

(* Where the pushes of a subscription start. *)
Start(s) == IF from[s] = Omitted \/ from[s] > last[s] THEN last[s] + 1
            ELSE from[s]

(* The pushes are consecutive seqs from there, each once and in order, and *)
(* between appends a subscription has everything past the last_seq it was  *)
(* answered ("every higher seq arrives as a push"), however the replay,    *)
(* the appends and a departure interleave (subscribe, Gate).               *)
EverythingArrives ==
  \A s \in Subscribers :
    /\ at[s] \in {"subscribed", "closed"} =>
         got[s] = Run(Start(s), Start(s) + Len(got[s]) - 1)
    /\ at[s] = "subscribed" /\ emit = "none" =>
         got[s] = Run(Start(s), length - 1)

=============================================================================
