----------------------------- MODULE McpServer -----------------------------
(***************************************************************************)
(* One MCP server: the driver that owns a link to it, the calls made over  *)
(* the link, and the supervisor that launches it, watches it, launches it  *)
(* again and is shut down.                                                 *)
(*                                                                         *)
(* A request is named by what it asks for: a tool, or one of the words     *)
(* below.  A list is one answer: its pages, the content of an answer and   *)
(* the requests a server makes itself, which are refused, are left out.    *)
(***************************************************************************)
EXTENDS Naturals, Sequences, FiniteSets

CONSTANTS
  Callers,     \* tasks that call tools
  Menus,       \* the sets of tools a server may advertise
  MaxAttempts, \* ReconnectPolicy::max_attempts
  Backlog,     \* NOTICE_BACKLOG
  MaxStable,   \* bound: connections that outlive the backoff ceiling
  MaxLaunches, \* bound: launches
  MaxCalls,    \* bound: requests of one connection
  MaxNotices,  \* bound: lines the servers write unasked
  MaxExpiries  \* bound: budgets that run out

Watch == "watch"
Stopper == "stopper"

ASSUME McpAssumption ==
  /\ Callers \cap {Watch, Stopper} = {}
  /\ MaxAttempts \in Nat \ {0}
  /\ {Backlog, MaxStable, MaxLaunches, MaxCalls, MaxNotices,
    MaxExpiries} \subseteq Nat

Tasks == Callers \cup {Watch, Stopper}
Conns == 1..MaxLaunches
Tools == UNION Menus

VARIABLES
  conn,     \* of each launch: the driver, its queues and the server behind it
  call,     \* of each task: the request it waits for, and what it was told
  watch,    \* where the watching task is, on which connection, and its budget
  notices,  \* what the watching task has yet to hear, oldest first
  state,    \* Supervisor::state
  stopped,  \* Supervisor::stopped
  woken,    \* stopping woke the watching task
  shut,     \* where shutdown is, and the connection it took
  count     \* Supervisor::launches; the connections that earned a fresh budget;
            \* the attempts since the last that did; the lines the servers
            \* wrote unasked and the budgets that ran out

mcpVars == <<conn, call, watch, notices, state, stopped, woken, shut, count>>
supervisor == <<state, stopped, woken, shut>>

Unlaunched == [driver |-> "none", commands |-> <<>>, pending |-> {}, lines |-> <<>>,
               asked |-> {}, up |-> FALSE, serves |-> {}, next |-> 1]
NoReply == [got |-> "none", to |-> "none", tools |-> {}]
Fault == [NoReply EXCEPT !.got = "fault"]
NoCall == [at |-> "idle", c |-> 0, id |-> 0, what |-> "none", reply |-> NoReply]
Down(why) == [client |-> 0, tools |-> {}, health |-> why]

McpInit == /\ conn = [c \in Conns |-> Unlaunched]
           /\ call = [t \in Tasks |-> NoCall]
           /\ \E enabled \in BOOLEAN :
                watch = [at |-> "launch", c |-> 0, budget |-> MaxAttempts, first |-> TRUE,
                         enabled |-> enabled]
           /\ notices = <<>>
           /\ state = Down("Reconnecting")
           /\ stopped = FALSE /\ woken = FALSE /\ shut = [at |-> "no", c |-> 0]
           /\ count = [launches |-> 0, stable |-> 0, spoken |-> 0, expired |-> 0]

Queued(c) == {conn[c].commands[i].id : i \in DOMAIN conn[c].commands}
Live(c) == conn[c].driver = "open"

-----------------------------------------------------------------------------
(* Connection: a call is a command to the driver and a reply.              *)

(* The calls with `t` put to the driver of `c`, under a fresh id.          *)
Sent_SameId(cn, c, kind, t, what) ==
  [cn EXCEPT ![c].commands = Append(@, [kind |-> kind, id |-> cn[c].next, by |-> t,
                                        what |-> what])]

Sent(cn, c, kind, t, what) ==
  [cn EXCEPT ![c].commands = Append(@, [kind |-> kind, id |-> cn[c].next, by |-> t,
                                        what |-> what]),
             ![c].next = @ + 1]

Waits(cl, c, t, what) ==
  [cl EXCEPT ![t] = [NoCall EXCEPT !.at = "waiting", !.c = c, !.id = conn[c].next,
                                   !.what = what]]

Request(t, c, kind, what) == /\ conn' = Sent(conn, c, kind, t, what)
                             /\ call' = Waits(call, c, t, what)

AwaitsOneOf(t, c, ids) == call[t].at = "waiting" /\ call[t].c = c /\ call[t].id \in ids

(* A reply to those of `ids` who still wait for it.                        *)
Told(c, ids, reply) == [t \in Tasks |-> IF AwaitsOneOf(t, c, ids) /\ call[t].reply = NoReply
                                        THEN [call[t] EXCEPT !.reply = reply] ELSE call[t]]

Replied(t) == call[t].at = "waiting" /\ call[t].reply # NoReply
Said(t) == call[t].reply.got
Returned(t) == call' = [call EXCEPT ![t] = NoCall]

(* The budget of a call runs out: it is forgotten, and the server told.    *)
Expire(t) == /\ call[t].at = "waiting" /\ call[t].reply = NoReply
             /\ call[t].what \notin {"initialized", "close"}
             /\ count.expired < MaxExpiries /\ count' = [count EXCEPT !.expired = @ + 1]
             /\ call' = [call EXCEPT ![t].reply.got = "timeout"]
             /\ conn' = [conn EXCEPT ![call[t].c].commands =
                  Append(@, [kind |-> "cancel", id |-> call[t].id, by |-> t,
                             what |-> call[t].what])]
             /\ UNCHANGED <<watch, notices, supervisor>>

-----------------------------------------------------------------------------
(* drive: the one task that writes, reads and answers.                     *)

Took(c) == [conn EXCEPT ![c].commands = Tail(@)]

(* No longer live: what it wrote and what it was asked is of no use now.   *)
Deaf(cn, c) == [cn EXCEPT ![c] = [Unlaunched EXCEPT !.driver = "stopping", !.up = cn[c].up,
                                    !.commands = cn[c].commands, !.next = cn[c].next]]

Leave_Silently(c, cn, ids) == conn' = Deaf(cn, c) /\ call' = Told(c, ids, Fault)

(* One exit for everyone: every pending call fails, and `ids` with them.   *)
Leave(c, cn, ids) == conn' = Deaf(cn, c) /\ call' = Told(c, cn[c].pending \cup ids, Fault)

(* What is written to a server that is gone fails, and ends the link.      *)
Command(c) ==
  /\ Live(c) /\ conn[c].commands # <<>>
  /\ LET cmd == Head(conn[c].commands) IN
     \/ cmd.kind = "close" /\ Leave(c, Took(c), {})
     \/ cmd.kind \in {"call", "notify"} /\ ~conn[c].up /\ Leave(c, Took(c), {cmd.id})
     \/ /\ cmd.kind = "call" /\ conn[c].up
        /\ conn' = [Took(c) EXCEPT ![c].pending = @ \cup {cmd.id},
                      ![c].asked = @ \cup {[id |-> cmd.id, what |-> cmd.what]}]
        /\ UNCHANGED call
     \/ /\ cmd.kind = "notify" /\ conn[c].up
        /\ conn' = Took(c)
        /\ call' = Told(c, {cmd.id}, [NoReply EXCEPT !.got = "ok", !.to = cmd.what])
     \/ /\ cmd.kind = "cancel"
        /\ LET forgot == [Took(c) EXCEPT ![c].pending = @ \ {cmd.id}]
           IN  IF conn[c].up THEN conn' = forgot /\ UNCHANGED call ELSE Leave(c, forgot, {})
  /\ UNCHANGED <<watch, notices, supervisor, count>>

Hears(c) == watch.c = c /\ watch.at \in {"serving", "relisting"}

(* An answer nobody waits for is dropped; a notice pushes out the oldest.  *)
Read(c) ==
  /\ Live(c) /\ conn[c].lines # <<>>
  /\ LET line == Head(conn[c].lines)
         read == [conn EXCEPT ![c].lines = Tail(@)] IN
     \/ /\ line.kind = "answer"
        /\ conn' = [read EXCEPT ![c].pending = @ \ {line.id}]
        /\ call' = Told(c, {line.id} \cap conn[c].pending, line.reply)
        /\ UNCHANGED notices
     \/ /\ line.kind \in {"changed", "other"}
        /\ conn' = read /\ UNCHANGED call
        /\ notices' = IF ~Hears(c) THEN notices
                      ELSE IF Len(notices) < Backlog THEN Append(notices, line.kind)
                      ELSE Append(Tail(notices), line.kind)
     \/ line.kind = "garbage" /\ Leave(c, read, {}) /\ UNCHANGED notices
  /\ UNCHANGED <<watch, supervisor, count>>

(* Who keeps a handle on the connection.                                   *)
Held(c) == \/ c \in {state.client, shut.c}
           \/ watch.c = c /\ watch.at # "ended"
           \/ \E t \in Tasks : call[t].at # "idle" /\ call[t].c = c

(* The server closed its output, or every handle was dropped.              *)
Departs(c) == /\ Live(c)
              /\ \/ ~conn[c].up /\ conn[c].lines = <<>>
                 \/ conn[c].commands = <<>> /\ ~Held(c)
              /\ Leave(c, conn, {})
              /\ UNCHANGED <<watch, notices, supervisor, count>>

(* Its input closed, and after the grace period killed; then whoever asked *)
(* for that is told, and so is whoever calls later.                        *)
StopPeer(c) == /\ conn[c].driver = "stopping"
               /\ conn' = [conn EXCEPT ![c].driver = "gone", ![c].up = FALSE]
               /\ call' = [t \in Tasks |-> IF call[t].what = "close" /\ call[t].c = c
                                              /\ call[t].id \notin Queued(c)
                                           THEN [call[t] EXCEPT !.reply = Fault] ELSE call[t]]
               /\ UNCHANGED <<watch, notices, supervisor, count>>

Late(c) == /\ conn[c].driver = "gone" /\ conn[c].commands # <<>>
           /\ LET cmd == Head(conn[c].commands)
              IN  call' = IF cmd.kind = "cancel" THEN call ELSE Told(c, {cmd.id}, Fault)
           /\ conn' = Took(c)
           /\ UNCHANGED <<watch, notices, supervisor, count>>

-----------------------------------------------------------------------------
(* The server: it may answer in any order or never, change what it serves, *)
(* write a line that is no message, and end.                               *)

Answer(c, r, got) ==
  /\ r \in conn[c].asked
  /\ conn' = [conn EXCEPT ![c].asked = @ \ {r},
        ![c].lines = Append(@, [kind |-> "answer", id |-> r.id,
           reply |-> [got |-> got, to |-> r.what,
                      tools |-> IF r.what = "list" /\ got = "ok" THEN conn[c].serves ELSE {}]])]
  /\ UNCHANGED <<call, watch, notices, supervisor, count>>

Speak(c, kind, serves) ==
  /\ count.spoken < MaxNotices
  /\ kind # "changed" => serves = conn[c].serves
  /\ conn' = [conn EXCEPT ![c].lines = Append(@, [kind |-> kind]),
                          ![c].serves = serves]
  /\ count' = [count EXCEPT !.spoken = @ + 1]
  /\ UNCHANGED <<call, watch, notices, supervisor>>

Exit(c) == /\ conn' = [conn EXCEPT ![c].up = FALSE, ![c].asked = {}]
           /\ UNCHANGED <<call, watch, notices, supervisor, count>>

-----------------------------------------------------------------------------
(* call_tool: the live connection and its tools are read under one lock,   *)
(* the request is put after it.                                            *)

Pick(t, tool) ==
  /\ call[t].at = "idle"
  /\ state.health = "Up" /\ tool \in state.tools
  /\ call' = [call EXCEPT ![t] = [NoCall EXCEPT !.at = "picked", !.c = state.client,
                                                !.what = tool]]
  /\ UNCHANGED <<conn, watch, notices, supervisor, count>>

Put(t) == /\ call[t].at = "picked" /\ conn[call[t].c].next <= MaxCalls
          /\ Request(t, call[t].c, "call", call[t].what)
          /\ UNCHANGED <<watch, notices, supervisor, count>>

Return(t) == /\ t # Watch /\ Replied(t) /\ Returned(t)
             /\ UNCHANGED <<conn, watch, notices, supervisor, count>>

-----------------------------------------------------------------------------
(* watch: one connection, and every one that replaces it.                  *)

Goto(at) == watch' = [watch EXCEPT !.at = at]
rest == <<stopped, woken, shut>>

Launch == /\ watch.at = "launch" /\ count.launches < MaxLaunches
          /\ count' = [count EXCEPT !.launches = @ + 1]
          /\ \/ \E tools \in Menus :
                  LET c == count.launches + 1
                      fresh == [conn EXCEPT ![c] =
                        [Unlaunched EXCEPT !.driver = "open", !.up = TRUE,
                                           !.serves = tools]]
                  IN  /\ conn' = Sent(fresh, c, "call", Watch, "initialize")
                      /\ call' = Waits(call, c, Watch, "initialize")
                      /\ watch' = [watch EXCEPT !.at = "handshake", !.c = c]
             \/ /\ Goto(IF watch.first THEN "ended" ELSE "retry")
                /\ UNCHANGED <<conn, call>>
          /\ UNCHANGED <<notices, supervisor>>

(* What a request of the watching task came to.                            *)
WatchHears(got) == Replied(Watch) /\ Said(Watch) = got
WatchFails == Replied(Watch) /\ Said(Watch) # "ok"
Closing == Request(Watch, watch.c, "close", "close") /\ Goto("closing")

Shake == /\ watch.at = "handshake" /\ WatchHears("ok")
         /\ Request(Watch, watch.c, "notify", "initialized") /\ Goto("initialized")
         /\ UNCHANGED <<notices, supervisor, count>>

Discover == /\ watch.at = "initialized" /\ WatchHears("ok")
            /\ Request(Watch, watch.c, "call", "list") /\ Goto("discover")
            /\ UNCHANGED <<notices, supervisor, count>>

(* A server that does not come up is stopped, but a first one that only    *)
(* does not list its tools is let go of.                                   *)
Fails == /\ watch.at \in {"handshake", "initialized", "discover"} /\ WatchFails
         /\ IF watch.at = "discover" /\ watch.first
            THEN Returned(Watch) /\ Goto("ended") /\ UNCHANGED conn
            ELSE Closing
         /\ UNCHANGED <<notices, supervisor, count>>

Closed == /\ watch.at = "closing" /\ Replied(Watch)
          /\ Returned(Watch) /\ Goto(IF watch.first THEN "ended" ELSE "retry")
          /\ UNCHANGED <<conn, notices, supervisor, count>>

(* adopt: taken as the live one, whatever was decided meanwhile.           *)
Adopt == /\ watch.at = "discover" /\ WatchHears("ok")
         /\ state' = [client |-> watch.c, tools |-> call[Watch].reply.tools, health |-> "Up"]
         /\ Returned(Watch) /\ watch' = [watch EXCEPT !.at = "adopted", !.first = FALSE]
         /\ UNCHANGED <<conn, notices, rest, count>>

(* serve: notices are heard from here on.  Each pass of its loop waits for *)
(* the stop anew.                                                          *)
Subscribe == /\ watch.at = "adopted" /\ Goto("serving") /\ notices' = <<>>
             /\ UNCHANGED <<conn, call, supervisor, count>>

Notice == /\ watch.at = "serving" /\ notices # <<>>
          /\ notices' = Tail(notices)
          /\ IF Head(notices) = "changed"
             THEN /\ conn[watch.c].next <= MaxCalls
                  /\ Request(Watch, watch.c, "call", "list") /\ Goto("relisting")
             ELSE UNCHANGED <<conn, call, watch>>
          /\ woken' = FALSE
          /\ UNCHANGED <<state, stopped, shut, count>>

Relisted_Fatal == /\ watch.at = "relisting" /\ Replied(Watch)
                  /\ Returned(Watch) /\ Goto(IF WatchFails THEN "lost" ELSE "serving")
                  /\ UNCHANGED <<conn, notices, supervisor, count>>

(* A list that could not be read leaves the last good one.                 *)
Relisted == /\ watch.at = "relisting" /\ Replied(Watch)
            /\ state' = IF WatchHears("ok") /\ state.health = "Up"
                        THEN [state EXCEPT !.tools = call[Watch].reply.tools] ELSE state
            /\ Returned(Watch) /\ Goto("serving")
            /\ UNCHANGED <<conn, notices, rest, count>>

(* The connection departed, or shutdown woke it.                           *)
ServeEnds == /\ watch.at = "serving" /\ (~Live(watch.c) \/ woken) /\ Goto("lost")
             /\ UNCHANGED <<conn, call, notices, supervisor, count>>

(* fell_down and gave_up leave a stopped supervisor as it is.              *)
Becomes(why) == state' = IF state.health = "Stopped" THEN state ELSE Down(why)

(* Only a connection that lasted earns a fresh budget.                     *)
Lost(lasted) ==
  /\ watch.at = "lost" /\ ~stopped /\ watch.enabled
  /\ (lasted => count.stable < MaxStable)
  /\ count' = IF lasted THEN [count EXCEPT !.stable = @ + 1] ELSE count
  /\ watch' = [watch EXCEPT !.at = "retry", !.budget = IF lasted THEN MaxAttempts ELSE @]
  /\ Becomes("Reconnecting")
  /\ UNCHANGED <<conn, call, notices, rest>>

GiveUp == /\ \/ watch.at = "lost" /\ ~stopped /\ ~watch.enabled
             \/ watch.at = "retry" /\ watch.budget = 0
          /\ Becomes("GaveUp") /\ Goto("ended")
          /\ UNCHANGED <<conn, call, notices, rest, count>>

Retry == /\ watch.at = "retry" /\ watch.budget > 0
         /\ watch' = [watch EXCEPT !.budget = @ - 1, !.at = IF stopped THEN "ended" ELSE "waiting"]
         /\ UNCHANGED <<conn, call, notices, supervisor, count>>

Elapse == /\ watch.at = "waiting" /\ Goto(IF stopped THEN "ended" ELSE "launch")
          /\ UNCHANGED <<conn, call, notices, supervisor, count>>

WatchEnds == /\ \/ watch.at = "lost" /\ stopped
                \/ watch.at = "waiting" /\ woken
             /\ Goto("ended")
             /\ UNCHANGED <<conn, call, notices, supervisor, count>>

-----------------------------------------------------------------------------
(* shutdown: the flag and the wake, then the state, then the connection.   *)

Flag == /\ shut.at = "no" /\ ~watch.first
        /\ shut' = [shut EXCEPT !.at = "flagged"]
        /\ stopped' = TRUE /\ woken' = (watch.at \in {"serving", "waiting"})
        /\ UNCHANGED <<conn, call, watch, notices, state, count>>

Take == /\ shut.at = "flagged"
        /\ state' = Down("Stopped")
        /\ IF state.client = 0 THEN shut' = [at |-> "done", c |-> 0] /\ UNCHANGED <<conn, call>>
           ELSE /\ shut' = [at |-> "closing", c |-> state.client]
                /\ Request(Stopper, state.client, "close", "close")
        /\ UNCHANGED <<watch, notices, stopped, woken, count>>

ShutDown == /\ shut.at = "closing" /\ Replied(Stopper) /\ Returned(Stopper)
            /\ shut' = [at |-> "done", c |-> 0]
            /\ UNCHANGED <<conn, watch, notices, state, stopped, woken, count>>

-----------------------------------------------------------------------------
Drive(c) == Command(c) \/ Read(c) \/ Departs(c) \/ StopPeer(c) \/ Late(c)

Serve(c) == /\ Live(c) /\ conn[c].up
            /\ \/ Exit(c)
               \/ \E r \in conn[c].asked, got \in {"ok", "fault"} : Answer(c, r, got)
               \/ \E kind \in {"changed", "other", "garbage"}, serves \in Menus :
                    Speak(c, kind, serves)

Watching == \/ Launch \/ Shake \/ Discover \/ Fails \/ Closed \/ Adopt \/ Subscribe
            \/ Notice \/ Relisted \/ ServeEnds \/ GiveUp \/ Retry \/ Elapse \/ WatchEnds
            \/ \E lasted \in BOOLEAN : Lost(lasted)

Stopping == Take \/ ShutDown

Calling(t) == Put(t) \/ Return(t)

McpNext == \/ Watching \/ Stopping \/ Flag
           \/ \E c \in Conns : Drive(c) \/ Serve(c)
           \/ \E t \in Tasks : Expire(t)
           \/ \E t \in Callers : Calling(t) \/ \E tool \in Tools : Pick(t, tool)

McpSpec == McpInit /\ [][McpNext]_mcpVars

-----------------------------------------------------------------------------
(* Properties. *)

(* A caller is told the answer to what it asked, however late the server   *)
(* answers others and however often a budget ran out (connection.rs, call  *)
(* and drive).                                                             *)
OwnAnswer ==
  \A t \in Tasks : call[t].reply.got = "ok" => call[t].reply.to = call[t].what

(* No launch leaves an earlier server behind: at most one connection is    *)
(* driven, and it is one that somebody holds.                              *)
OneServer == Cardinality({c \in Conns : Live(c)}) <= 1

(* Death reaches everyone, and so does an answer: whoever waits without a  *)
(* reply has a command queued, a request pending with a live driver, or a  *)
(* server being stopped on its behalf (connection.rs, drive).              *)
NobodyForgotten ==
  \A t \in Tasks :
    call[t].at = "waiting" /\ call[t].reply = NoReply =>
      LET c == conn[call[t].c]
      IN  \/ call[t].id \in Queued(call[t].c)
          \/ c.driver = "open" /\ call[t].id \in c.pending
          \/ c.driver = "stopping" /\ call[t].what = "close"

(* Whoever calls hears of it, and what it hears is its own: over late      *)
(* answers, expired budgets, and servers that leave or are stopped (call,  *)
(* drive, serve).                                                      *)
CallersHear == OwnAnswer /\ NobodyForgotten

-----------------------------------------------------------------------------
(* What the code says of itself and does not keep (README, Disagreements). *)

(* "Stopping wins every race": a stopped supervisor stays stopped.         *)
StoppedStays == [][state.health = "Stopped" => state'.health = "Stopped"]_mcpVars

(* Re-read on every notice: at rest, the tools are those the server serves.*)
KnowsItsTools ==
  /\ watch.at = "serving" /\ notices = <<>> /\ ~stopped /\ Live(watch.c) /\ conn[watch.c].up
  /\ conn[watch.c].lines = <<>>
  => state.tools = conn[watch.c].serves
=============================================================================
