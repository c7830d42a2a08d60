------------------------------ MODULE MCHarness ------------------------------
(* The sessions of a harness and what it keeps beside them: the key-value  *)
(* store, its terminals, its connections to other agents, a session's      *)
(* journal on a disk that fails, the plugins it boots, the commands its    *)
(* tools run and the screen a conversation is held on.  They share no      *)
(* state here, so an instance is one of them at work, the others at rest.  *)
EXTENDS JsonlJournal, SessionStore, Storage, TerminalSession, AcpBridge, Registry, OneShot,
        Conversation

VARIABLE part \* the one at work

(* One task works on the source, another forks it and works on the child.  *)
OneProcess == [c \in Callers |-> CHOOSE p \in Processes : TRUE]
OwnProcess == [c \in Callers |-> c]

ForkJobs == [c \in Callers |->
  IF c = CHOOSE d \in Callers : TRUE
  THEN {<<"create", "src">>, <<"prompt", "src">>, <<"subscribe", "src">>}
  ELSE {<<"fork", "src", "child">>, <<"prompt", "child">>, <<"subscribe", "child">>}]

SameJobs == [c \in Callers |->
  {<<"create", "src">>, <<"prompt", "src">>, <<"subscribe", "src">>}]

(* Every domain on one store, or each on a store of its own.               *)
OneStore(b) == CHOOSE s \in Openers : TRUE
OwnStore(b) == b

(* One row a thing, but that the opening page has two, and a message two   *)
(* and a third when it is shown whole or the columns are narrow.           *)
MCHeight == [kind \in Kinds, cols \in {1, 2}, whole \in BOOLEAN |->
  CASE kind = "assistant/chunk"   -> 0
    [] kind = "opening"           -> 2
    [] kind = "assistant/message" -> IF cols = 1 \/ whole THEN 3 ELSE 2
    [] OTHER                      -> 1]

(* The word is on the opening page, in the heading of a turn, and on the   *)
(* last row of a message unless the fold breaks it.                        *)
MCMatches == [kind \in Kinds, cols \in {1, 2}, whole \in BOOLEAN |->
  CASE kind = "opening"                         -> {2}
    [] kind = "turn/start"                      -> {1}
    [] kind = "assistant/message" /\ cols = 2   -> {MCHeight[kind, cols, whole]}
    [] OTHER                                    -> {}]

MCSizes == {[cols |-> 1, body |-> 3], [cols |-> 2, body |-> 2]}
MCResumed == {<<>>, <<"turn/start", "assistant/message", "turn/end">>}

Parts == {"sessions", "storage", "terminal", "bridge", "disk", "boot", "command", "screen"}

HarnessInit ==
  /\ part \in Parts
  /\ part # "boot" => deps = [p \in Plugins |-> {}]
  /\ part # "screen" => size = CHOOSE z \in Sizes : TRUE
  /\ ConversationInit /\ (part # "screen" => page.said = <<"opening">>)
  /\ Init /\ StoreInit /\ StorageInit /\ TerminalInit /\ BridgeInit /\ RegistryInit /\ OneShotInit

HarnessNext ==
  /\ \/ /\ part = "sessions" /\ StoreNext
        /\ UNCHANGED <<vars, storageVars, terminalVars, bridgeVars, registryVars,
                       oneShotVars,
                       conversationVars>>
     \/ /\ part = "storage" /\ StorageNext
        /\ UNCHANGED <<vars, storeVars, terminalVars, bridgeVars, registryVars,
                       oneShotVars,
                       conversationVars>>
     \/ /\ part = "terminal" /\ TerminalNext
        /\ UNCHANGED <<vars, storeVars, storageVars, bridgeVars, registryVars,
                       oneShotVars,
                       conversationVars>>
     \/ /\ part = "bridge" /\ BridgeNext
        /\ UNCHANGED <<vars, storeVars, storageVars, terminalVars, registryVars,
                       oneShotVars,
                       conversationVars>>
     \/ /\ part = "disk" /\ FaultyNext
        /\ UNCHANGED <<storeVars, storageVars, terminalVars, bridgeVars, registryVars,
                       oneShotVars,
                       conversationVars>>
     \/ /\ part = "boot" /\ RegistryNext
        /\ UNCHANGED <<vars, storeVars, storageVars, terminalVars, bridgeVars, oneShotVars,
                       conversationVars>>
     \/ /\ part = "command" /\ OneShotNext
        /\ UNCHANGED <<vars, storeVars, storageVars, terminalVars, bridgeVars, registryVars,
                       conversationVars>>
     \/ /\ part = "screen" /\ ConversationNext
        /\ UNCHANGED <<vars, storeVars, storageVars, terminalVars, bridgeVars, registryVars,
                       oneShotVars>>
  /\ UNCHANGED part

HarnessSpec ==
  HarnessInit
    /\ [][HarnessNext]_<<vars, storeVars, storageVars, terminalVars, bridgeVars, registryVars,
                       oneShotVars,
                          conversationVars, part>>
=============================================================================
