--------------------------- MODULE ServerRuntime ---------------------------
(***************************************************************************)
(* The one physical connection of the page: LazyServerRuntime              *)
(* (lazy-server-runtime.ts), which loads the connection code on the first  *)
(* Connect, in front of the ActiveSessionRuntime that owns the socket and  *)
(* reconnects it (active-session-runtime.ts, unmanaged, with a "server"    *)
(* target: the facade offers authenticate and disconnect only).            *)
(*                                                                         *)
(* Every await is a step of its own.  The module loader, the client        *)
(* (OctosUiClient, see RpcClient) and the server are external.             *)
(*                                                                         *)
(* A user call is known by its number, which is the facade's intent and    *)
(* the identity of the target object; a client by its authority's          *)
(* generation.  A binding is active exactly while its authority is the     *)
(* current one.  The retry counter only chooses a delay and is left out.   *)
(***************************************************************************)
EXTENDS Integers, Sequences

CONSTANTS
    MaxCalls,   \* bound: calls of authenticate() and disconnect()
    MaxFaults   \* bound: losses, refusals and failed loads

ASSUME RuntimeAssumption ==
    /\ MaxCalls \in Nat
    /\ MaxFaults \in Nat

VARIABLES
    calls,             \* every call; the last one is the facade's intent
    factory,           \* #factory
    runtime,           \* #runtime exists
    phase,             \* the phase of the published snapshot
    target,            \* #target: the call that set it, or 0
    retryEnabled,
    identityValidated, \* the snapshot says "authenticated"
    timer,             \* #reconnectTimer: the target it expects, or 0
    authority,         \* #authority: its client, or 0
    clients,           \* every client created
    faults             \* bound: how many faults happened

facadeVars == <<calls, factory, runtime>>
runtimeVars == <<target, retryEnabled, identityValidated, timer, authority, clients>>
vars == <<facadeVars, phase, runtimeVars, faults>>

Phases == {"idle", "connecting", "authenticated", "reconnect_wait", "reconnecting",
           "disconnected", "error"}
\* Where an authenticate() is; "failed" and "ready" wait for their continuation.
Stages == {"loading", "loaded", "options", "ready", "failed", "running",
           "returned", "superseded", "thrown"}
CallRecords == [op : {"authenticate", "disconnect"}, stage : Stages]
\* Where the authenticate() or #reconnect() that made a client is.
Flows == {"dialing", "asking", "answered", "incompatible", "failed", "done"}
ClientRecords ==
    [call : 1..MaxCalls, reconnect : BOOLEAN,
     conn : {"connecting", "connected", "error", "disconnected"}, flow : Flows]

intent == Len(calls)
Latest(i) == i = intent

Init ==
    /\ calls = <<>>
    /\ factory = "none"
    /\ runtime = FALSE
    /\ phase = "idle"
    /\ target = 0
    /\ retryEnabled = FALSE
    /\ identityValidated = FALSE
    /\ timer = 0
    /\ authority = 0
    /\ clients = <<>>
    /\ faults = 0
-----------------------------------------------------------------------------
(* ActiveSessionRuntime *)

\* client.disconnect(): what it waits for is rejected; an answer that is being
\* decoded is not.
Closed(g) ==
    [h \in DOMAIN clients |->
        IF h # g THEN clients[h]
        ELSE [clients[h] EXCEPT !.conn = "disconnected",
                                !.flow = IF @ \in {"dialing", "asking"} THEN "failed" ELSE @]]

\* #replaceTransport and connect() on the new client.
ReplaceTransport(i, reconnect) ==
    /\ authority' = Len(clients) + 1
    /\ clients' = Append(Closed(authority),
                         [call |-> i, reconnect |-> reconnect,
                          conn |-> "connecting", flow |-> "dialing"])

\* authenticate(), up to its first await.
RuntimeAuthenticate(i) ==
    /\ target' = i
    /\ retryEnabled' = FALSE
    /\ identityValidated' = FALSE
    /\ timer' = 0
    /\ phase' = "connecting"
    /\ ReplaceTransport(i, FALSE)

\* Mutant: the target survives.
DisconnectKeepsTarget ==
    /\ target' = target
    /\ retryEnabled' = FALSE
    /\ identityValidated' = FALSE
    /\ timer' = 0
    /\ authority' = 0
    /\ phase' = "disconnected"
    /\ clients' = Closed(authority)

RuntimeDisconnect ==
    /\ target' = 0
    /\ retryEnabled' = FALSE
    /\ identityValidated' = FALSE
    /\ timer' = 0
    /\ authority' = 0
    /\ phase' = "disconnected"
    /\ clients' = Closed(authority)

\* #scheduleReconnect, which otherwise leaves the phase as given.
ScheduleReconnect(enabled, otherwise) ==
    IF timer # 0 \/ ~enabled \/ target = 0
    THEN timer' = timer /\ phase' = otherwise
    ELSE timer' = target /\ phase' = "reconnect_wait"

\* Mutant: only a close without an error is followed by a retry.
StatusListenerOnError(status) ==
    IF status = "error" THEN timer' = timer /\ phase' = "error"
    ELSE ScheduleReconnect(retryEnabled, phase)

\* The status listener of the current client, told "error" or "disconnected".
StatusListener(status) ==
    ScheduleReconnect(retryEnabled, IF status = "error" THEN "error" ELSE phase)

\* Mutant: the failed attempt is the last one.
FailCurrentGivesUp(g, fatal) ==
    /\ retryEnabled' = (retryEnabled /\ ~fatal)
    /\ identityValidated' = (identityValidated /\ ~fatal)
    /\ phase' = "error"
    /\ UNCHANGED timer

\* #failCurrent.  Disconnecting tells the status listener, unless the client was
\* disconnected before; a reconnect that failed schedules the next one itself.
FailCurrent(g, fatal) ==
    /\ retryEnabled' = (retryEnabled /\ ~fatal)
    /\ identityValidated' = (identityValidated /\ ~fatal)
    /\ IF clients[g].conn # "disconnected" \/ (clients[g].reconnect /\ ~fatal)
       THEN ScheduleReconnect(retryEnabled', "error")
       ELSE phase' = "error" /\ UNCHANGED timer

\* How the authenticate() behind a client ends; a reconnect answers nobody.
CallEnds(g, stage) ==
    calls' = IF clients[g].reconnect THEN calls
             ELSE [calls EXCEPT ![clients[g].call].stage = stage]

\* The flow of a client that was replaced returns without a word.
FlowSuperseded(g) ==
    /\ clients[g].flow \in {"answered", "incompatible", "failed"}
    /\ g # authority
    /\ clients' = [clients EXCEPT ![g].flow = "done"]
    /\ CallEnds(g, "superseded")
    /\ UNCHANGED <<factory, runtime, phase, target, retryEnabled, identityValidated,
                   timer, authority, faults>>

\* Mutant: an answer that was decoded late authenticates a dead client.
FlowSucceedsUnasserted(g) ==
    /\ g = authority
    /\ clients[g].flow = "answered"
    /\ clients' = [clients EXCEPT ![g].flow = "done"]
    /\ phase' = "authenticated"
    /\ identityValidated' = TRUE
    /\ retryEnabled' = (retryEnabled \/ ~clients[g].reconnect)
    /\ CallEnds(g, IF Latest(clients[g].call) THEN "returned" ELSE "superseded")
    /\ UNCHANGED <<factory, runtime, target, timer, authority, faults>>

\* The capabilities are accepted: assertConnected held.
FlowSucceeds(g) ==
    /\ g = authority
    /\ clients[g].flow = "answered"
    /\ clients[g].conn = "connected"
    /\ clients' = [clients EXCEPT ![g].flow = "done"]
    /\ phase' = "authenticated"
    /\ identityValidated' = TRUE
    /\ retryEnabled' = (retryEnabled \/ ~clients[g].reconnect)
    /\ CallEnds(g, IF Latest(clients[g].call) THEN "returned" ELSE "superseded")
    /\ UNCHANGED <<factory, runtime, target, timer, authority, faults>>

\* The catch: a lost or refused attempt, or a server of another protocol, which
\* alone is fatal.
FlowFails(g) ==
    /\ g = authority
    /\ \/ clients[g].flow \in {"failed", "incompatible"}
       \/ clients[g].flow = "answered" /\ clients[g].conn # "connected"
    /\ FailCurrent(g, clients[g].flow = "incompatible" /\ clients[g].conn = "connected")
    /\ clients' = [Closed(g) EXCEPT ![g].flow = "done"]
    /\ CallEnds(g, "thrown")
    /\ UNCHANGED <<factory, runtime, target, authority, faults>>

Flow == \E g \in DOMAIN clients : FlowSuperseded(g) \/ FlowSucceeds(g) \/ FlowFails(g)

\* The reconnect timer; #reconnect up to its first await.
TimerFires ==
    /\ timer # 0
    /\ timer' = 0
    /\ IF retryEnabled /\ target = timer
       THEN phase' = "reconnecting" /\ ReplaceTransport(target, TRUE)
       ELSE UNCHANGED <<phase, authority, clients>>
    /\ UNCHANGED <<facadeVars, target, retryEnabled, identityValidated, faults>>
-----------------------------------------------------------------------------
(* LazyServerRuntime *)

Authenticate ==
    /\ intent < MaxCalls
    /\ IF runtime
       THEN /\ RuntimeAuthenticate(intent + 1)
            /\ calls' = Append(calls, [op |-> "authenticate", stage |-> "running"])
            /\ UNCHANGED factory
       ELSE /\ phase' = "connecting"
            /\ factory' = IF factory = "none" THEN "loading" ELSE factory
            /\ calls' = Append(calls, [op |-> "authenticate",
                                       stage |-> IF factory = "ready" THEN "loaded"
                                                 ELSE "loading"])
            /\ UNCHANGED runtimeVars
    /\ UNCHANGED <<runtime, faults>>

Disconnect ==
    /\ intent < MaxCalls
    /\ calls' = Append(calls, [op |-> "disconnect", stage |-> "returned"])
    /\ IF runtime THEN RuntimeDisconnect
       ELSE phase' = "disconnected" /\ UNCHANGED runtimeVars
    /\ UNCHANGED <<factory, runtime, faults>>

Stage(i, stage) == calls' = [calls EXCEPT ![i].stage = stage]

\* The continuation of a call that another one has overtaken.
CallSuperseded(i) ==
    /\ calls[i].stage \in {"loaded", "ready", "failed"}
    /\ ~Latest(i)
    /\ Stage(i, "superseded")
    /\ UNCHANGED <<factory, runtime, phase, runtimeVars, faults>>

\* The factory is there: ask for the options.
CallLoaded(i) ==
    /\ calls[i].stage = "loaded"
    /\ Latest(i)
    /\ Stage(i, "options")
    /\ UNCHANGED <<factory, runtime, phase, runtimeVars, faults>>

CallThrows(i) ==
    /\ calls[i].stage = "failed"
    /\ Latest(i)
    /\ Stage(i, "thrown")
    /\ phase' = "error"
    /\ UNCHANGED <<factory, runtime, runtimeVars, faults>>

\* Mutant: the intent is not looked at after the options.
CallReadyUnchecked(i) ==
    /\ calls[i].stage = "ready"
    /\ Stage(i, "running")
    /\ runtime' = TRUE
    /\ RuntimeAuthenticate(i)
    /\ UNCHANGED <<factory, faults>>

\* The options are there: the runtime is made and authenticates.
CallReady(i) ==
    /\ calls[i].stage = "ready"
    /\ Latest(i)
    /\ Stage(i, "running")
    /\ runtime' = TRUE
    /\ RuntimeAuthenticate(i)
    /\ UNCHANGED <<factory, faults>>

Facade == \E i \in DOMAIN calls : \/ CallSuperseded(i) \/ CallLoaded(i)
                                  \/ CallThrows(i) \/ CallReady(i)
-----------------------------------------------------------------------------
(* External: the module loader, the network, the server *)

Fault == faults < MaxFaults /\ faults' = faults + 1
Fine == UNCHANGED faults

LoaderSettles(stage) ==
    calls' = [i \in DOMAIN calls |->
                IF calls[i].stage = "loading" THEN [calls[i] EXCEPT !.stage = stage]
                ELSE calls[i]]

\* Mutant: those who wait for the failed load are not told.
FactoryFailsSilently ==
    /\ factory = "loading"
    /\ Fault
    /\ factory' = "none"
    /\ UNCHANGED <<calls, runtime, phase, runtimeVars>>

\* A rejected load is forgotten, so that the next Connect loads again.
FactoryFails ==
    /\ factory = "loading"
    /\ Fault
    /\ factory' = "none"
    /\ LoaderSettles("failed")
    /\ UNCHANGED <<runtime, phase, runtimeVars>>

FactoryLoads ==
    /\ factory = "loading"
    /\ Fine
    /\ factory' = "ready"
    /\ LoaderSettles("loaded")
    /\ UNCHANGED <<runtime, phase, runtimeVars>>

OptionsSettle(i) ==
    /\ calls[i].stage = "options"
    /\ \/ Fine /\ Stage(i, "ready")
       \/ Fault /\ Stage(i, "failed")
    /\ UNCHANGED <<factory, runtime, phase, runtimeVars>>

\* The socket of a client opens, and the capabilities are asked for.
Opens(g) ==
    /\ clients[g].conn = "connecting"
    /\ clients' = [clients EXCEPT ![g].conn = "connected", ![g].flow = "asking"]
    /\ UNCHANGED <<facadeVars, phase, target, retryEnabled, identityValidated, timer,
                   authority, faults>>

\* An answer arrives and its decoder is loaded, or the request is refused.
Answers(g) ==
    /\ clients[g].flow = "asking"
    /\ \/ Fine /\ clients' = [clients EXCEPT ![g].flow = "answered"]
       \/ Fault /\ \E flow \in {"incompatible", "failed"} :
                      clients' = [clients EXCEPT ![g].flow = flow]
    /\ UNCHANGED <<facadeVars, phase, target, retryEnabled, identityValidated, timer,
                   authority>>

\* The socket cannot be opened or is lost; the status comes before the rejection.
Lost(g, status) ==
    /\ clients[g].conn \in {"connecting", "connected"}
    /\ Fault
    /\ clients' = [clients EXCEPT
                     ![g].conn = status,
                     ![g].flow = IF @ \in {"dialing", "asking"} THEN "failed" ELSE @]
    /\ IF g = authority THEN StatusListener(status) ELSE UNCHANGED <<timer, phase>>
    /\ UNCHANGED <<facadeVars, target, retryEnabled, identityValidated, authority>>

Network == \E g \in DOMAIN clients : Opens(g) \/ Answers(g)
Loses == \E g \in DOMAIN clients, status \in {"error", "disconnected"} : Lost(g, status)
-----------------------------------------------------------------------------
User == Authenticate \/ Disconnect
Loads == FactoryLoads \/ \E i \in DOMAIN calls : OptionsSettle(i)

Next == User \/ Facade \/ Flow \/ TimerFires \/ Loads \/ FactoryFails \/ Network \/ Loses

Spec == Init /\ [][Next]_vars

\* Continuations and timers run; loads settle, and a socket opens and is answered
\* unless one of the bounded faults comes first.  Users owe nothing.
FairSpec ==
    /\ Spec
    /\ WF_vars(Facade) /\ WF_vars(Flow) /\ WF_vars(TimerFires)
    /\ WF_vars(Loads) /\ WF_vars(Network)
-----------------------------------------------------------------------------
\* Every variable keeps its type; the authority is the last client made, and
\* exists exactly while there is a target.
TypeOK ==
    /\ calls \in Seq(CallRecords)
    /\ intent <= MaxCalls
    /\ factory \in {"none", "loading", "ready"}
    /\ runtime \in BOOLEAN
    /\ phase \in Phases
    /\ target \in 0..MaxCalls
    /\ retryEnabled \in BOOLEAN
    /\ identityValidated \in BOOLEAN
    /\ timer \in 0..MaxCalls
    /\ clients \in Seq(ClientRecords)
    /\ authority \in {0, Len(clients)}
    /\ (authority = 0) = (target = 0)
    /\ faults \in 0..MaxFaults

Alive(g) == clients[g].conn \in {"connecting", "connected"}

\* The last Connect or Disconnect wins, however long an earlier one was loading,
\* dialing or waiting for its retry: a live socket or an armed timer serves the
\* last call, that call was no disconnect, and there is one live socket at most.
LatestCallOwns ==
    /\ \A g \in DOMAIN clients : Alive(g) =>
          g = authority /\ Latest(clients[g].call) /\ calls[intent].op = "authenticate"
    /\ timer # 0 => timer = target /\ Latest(target)

InFlight(g) == clients[g].flow # "done"

\* "waiting only for disconnected strands an established Session": a page that
\* shows itself authenticated has a live connection, or an attempt is under way,
\* or the timer of the next attempt is armed.
NeverStranded ==
    identityValidated =>
        \/ timer # 0
        \/ authority # 0 /\ (InFlight(authority) \/ clients[authority].conn = "connected")

\* "do not let its late completion authenticate a dead client": in the phase
\* authenticated the socket is up, nothing is in flight and no retry is due.
AuthenticatedIsUp ==
    phase = "authenticated" =>
        /\ authority # 0
        /\ clients[authority].conn = "connected"
        /\ ~InFlight(authority)
        /\ identityValidated /\ retryEnabled
        /\ timer = 0

\* An established connection that is lost comes back, unless the user connects
\* elsewhere or disconnects, or the server proves to be incompatible.
Reconnects == identityValidated ~> phase = "authenticated" \/ ~identityValidated

\* Every Connect is answered, however its load, its socket and its server fail and
\* whatever the user does meanwhile.
ConnectIsAnswered ==
    \A i \in 1..MaxCalls :
        i \in DOMAIN calls ~> i \in DOMAIN calls /\
                              calls[i].stage \in {"returned", "superseded", "thrown"}
=============================================================================
