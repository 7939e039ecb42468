------------------------ MODULE ServerRuntimeProofs ------------------------
(***************************************************************************)
(* What is proved of the server connection, for any number of calls and    *)
(* faults: its types, that the last call owns the socket and the timer,    *)
(* that an authenticated page has a live socket, and that it is never left *)
(* without a socket, an attempt or a timer.                                *)
(*                                                                         *)
(* The invariant says who owns what.  Ownership is about the target, the   *)
(* authority and the timer; Attempt about the client of the authority and  *)
(* the flow that made it.                                                  *)
(***************************************************************************)
EXTENDS ServerRuntime, TLAPS

\* Before the code is loaded there is nothing to own; afterwards the target is the
\* last call, the authority was made for it, and the timer waits for it.
Ownership ==
    /\ ~runtime => target = 0
    /\ target # 0 => target = intent /\ calls[intent].op = "authenticate"
    /\ timer # 0 => timer = target
    /\ authority # 0 => clients[authority].call = target
    /\ \A i \in DOMAIN calls :
          calls[i].stage \in {"loading", "loaded", "options", "ready"}
            => calls[i].op = "authenticate"

\* A client is waited for while its flow runs; only the authority's is alive.
Attempt ==
    /\ \A g \in DOMAIN clients :
          /\ Alive(g) => g = authority
          /\ clients[g].flow = "dialing" => clients[g].conn = "connecting"
          /\ clients[g].flow = "asking" => clients[g].conn = "connected"
          /\ clients[g].conn = "connecting" => clients[g].flow = "dialing"
    /\ authority # 0 /\ Alive(authority) => timer = 0
    /\ authority # 0 /\ InFlight(authority) /\ clients[authority].reconnect => retryEnabled
    /\ authority # 0 /\ InFlight(authority) /\ ~clients[authority].reconnect => ~identityValidated
    /\ identityValidated => retryEnabled
    /\ target = 0 => ~identityValidated

IInv == TypeOK /\ Ownership /\ Attempt /\ NeverStranded /\ AuthenticatedIsUp
-----------------------------------------------------------------------------
(* Sequences of calls and of clients *)

\* A function on 1..n is a sequence.
LEMMA FunctionIsSeq ==
  ASSUME NEW S, NEW n \in Nat, NEW f \in [1..n -> S]
  PROVE  f \in Seq(S) /\ Len(f) = n /\ DOMAIN f = 1..n
  OBVIOUS

\* The domains of the two sequences, and their elements.
LEMMA Domains ==
  ASSUME TypeOK
  PROVE  /\ intent \in 0..MaxCalls /\ DOMAIN calls = 1..intent
         /\ Len(clients) \in Nat /\ DOMAIN clients = 1..Len(clients)
         /\ \A i \in DOMAIN calls : calls[i] \in CallRecords
         /\ \A g \in DOMAIN clients : clients[g] \in ClientRecords
         /\ authority # 0 => authority \in DOMAIN clients
  BY RuntimeAssumption DEF TypeOK, intent

\* A step that changes one client.
LEMMA OneClient ==
  ASSUME TypeOK, NEW g \in DOMAIN clients, NEW c \in ClientRecords,
         clients' = [clients EXCEPT ![g] = c]
  PROVE  /\ clients' \in Seq(ClientRecords) /\ Len(clients') = Len(clients)
         /\ DOMAIN clients' = DOMAIN clients
         /\ clients'[g] = c
         /\ \A h \in DOMAIN clients : h # g => clients'[h] = clients[h]
  BY DEF TypeOK

\* A step that changes one call.
LEMMA OneCall ==
  ASSUME TypeOK, NEW i \in DOMAIN calls, NEW c \in CallRecords,
         calls' = [calls EXCEPT ![i] = c]
  PROVE  /\ calls' \in Seq(CallRecords) /\ Len(calls') = Len(calls)
         /\ DOMAIN calls' = DOMAIN calls
         /\ calls'[i] = c
         /\ \A j \in DOMAIN calls : j # i => calls'[j] = calls[j]
  BY DEF TypeOK

\* A stage that changes leaves the operation.
LEMMA OneStage ==
  ASSUME TypeOK, NEW i \in DOMAIN calls, NEW s \in Stages, Stage(i, s)
  PROVE  /\ calls' \in Seq(CallRecords) /\ intent' = intent
         /\ DOMAIN calls' = DOMAIN calls
         /\ \A j \in DOMAIN calls : calls'[j].op = calls[j].op
         /\ \A j \in DOMAIN calls : j # i => calls'[j].stage = calls[j].stage
         /\ calls'[i].stage = s
  <1> DEFINE c == [calls[i] EXCEPT !.stage = s]
  <1>1. c \in CallRecords /\ c.op = calls[i].op /\ c.stage = s
    BY Domains DEF CallRecords
  <1>2. calls' = [calls EXCEPT ![i] = c] BY DEF Stage
  <1> HIDE DEF c
  <1> QED BY <1>1, <1>2, OneCall DEF intent

\* A client that is disconnected, and the others.
LEMMA ClosedFacts ==
  ASSUME TypeOK, NEW g
  PROVE  /\ Closed(g) \in Seq(ClientRecords) /\ Len(Closed(g)) = Len(clients)
         /\ DOMAIN Closed(g) = DOMAIN clients
         /\ \A h \in DOMAIN clients : h # g => Closed(g)[h] = clients[h]
         /\ g \in DOMAIN clients =>
              /\ Closed(g)[g].conn = "disconnected"
              /\ Closed(g)[g].flow = IF clients[g].flow \in {"dialing", "asking"}
                                     THEN "failed" ELSE clients[g].flow
              /\ Closed(g)[g].call = clients[g].call
              /\ Closed(g)[g].reconnect = clients[g].reconnect
  <1> DEFINE c == [clients[g] EXCEPT !.conn = "disconnected",
                                     !.flow = IF @ \in {"dialing", "asking"} THEN "failed" ELSE @]
  <1>1. g \in DOMAIN clients =>
          /\ c \in ClientRecords /\ c.conn = "disconnected"
          /\ c.flow = IF clients[g].flow \in {"dialing", "asking"} THEN "failed"
                      ELSE clients[g].flow
          /\ c.call = clients[g].call /\ c.reconnect = clients[g].reconnect
    BY Domains DEF ClientRecords, Flows
  <1>2. Closed(g) = [h \in DOMAIN clients |-> IF h # g THEN clients[h] ELSE c]
    BY DEF Closed
  <1> HIDE DEF c
  <1>3. Closed(g) \in [1..Len(clients) -> ClientRecords] BY <1>1, <1>2, Domains
  <1>4. Closed(g) \in Seq(ClientRecords) /\ Len(Closed(g)) = Len(clients)
        /\ DOMAIN Closed(g) = DOMAIN clients
    BY <1>3, FunctionIsSeq, Domains
  <1>5. \A h \in DOMAIN clients : h # g => Closed(g)[h] = clients[h] BY <1>2
  <1>6. g \in DOMAIN clients => Closed(g)[g] = c BY <1>2
  <1> QED BY <1>1, <1>4, <1>5, <1>6

\* A new client takes the place of the authority's.
LEMMA ReplaceFacts ==
  ASSUME TypeOK, NEW i \in 1..MaxCalls, NEW b \in BOOLEAN, ReplaceTransport(i, b)
  PROVE  /\ clients' \in Seq(ClientRecords) /\ authority' = Len(clients')
         /\ authority' \in DOMAIN clients' /\ authority' # 0 /\ authority' \notin DOMAIN clients
         /\ DOMAIN clients' = DOMAIN clients \cup {authority'}
         /\ clients'[authority'].call = i /\ clients'[authority'].reconnect = b
         /\ clients'[authority'].conn = "connecting" /\ clients'[authority'].flow = "dialing"
         /\ \A h \in DOMAIN clients : clients'[h] = Closed(authority)[h]
  <1> DEFINE c == [call |-> i, reconnect |-> b, conn |-> "connecting", flow |-> "dialing"]
             s == Closed(authority)
  <1>1. c \in ClientRecords /\ c.call = i /\ c.reconnect = b /\ c.conn = "connecting"
        /\ c.flow = "dialing"
    BY DEF ClientRecords, Flows
  <1>2. clients' = Append(s, c) /\ authority' = Len(clients) + 1 BY DEF ReplaceTransport
  <1>3. s \in Seq(ClientRecords) /\ Len(s) = Len(clients) BY ClosedFacts
  <1> HIDE DEF c, s
  <1>4. clients' \in Seq(ClientRecords) /\ Len(clients') = Len(clients) + 1
    BY <1>1, <1>2, <1>3
  <1>5. clients'[Len(clients) + 1] = c BY <1>1, <1>2, <1>3
  <1>6. \A h \in 1..Len(clients) : clients'[h] = s[h] BY <1>1, <1>2, <1>3
  <1>7. Len(clients) \in Nat /\ DOMAIN clients = 1..Len(clients) BY Domains
  <1>8. DOMAIN clients' = 1..(Len(clients) + 1) BY <1>4
  <1> QED BY <1>1, <1>2, <1>4, <1>5, <1>6, <1>7, <1>8 DEF s
-----------------------------------------------------------------------------
(* The steps *)

Loading == {"loading", "loaded", "options", "ready"}

\* The first state.
LEMMA InitHolds == Init => IInv
  <1> SUFFICES ASSUME Init PROVE IInv OBVIOUS
  <1>1. TypeOK
    <2>1. intent = 0 /\ Len(clients) = 0 BY DEF Init, intent
    <2>2. intent <= MaxCalls /\ 0 \in 0..MaxCalls /\ 0 \in 0..MaxFaults
      BY <2>1, RuntimeAssumption
    <2>3. (authority = 0) = (target = 0) BY DEF Init
    <2>4. calls \in Seq(CallRecords) /\ clients \in Seq(ClientRecords) BY DEF Init
    <2> QED BY <2>1, <2>2, <2>3, <2>4 DEF Init, TypeOK, Phases
  <1>2. Ownership BY DEF Init, Ownership
  <1>3. Attempt BY DEF Init, Attempt
  <1> QED BY <1>1, <1>2, <1>3 DEF Init, IInv, NeverStranded, AuthenticatedIsUp

\* A step of the facade that reaches no runtime.
LEMMA CallsOnly ==
  ASSUME IInv, UNCHANGED <<runtime, runtimeVars>>,
         calls' \in Seq(CallRecords), intent' = intent, DOMAIN calls' = DOMAIN calls,
         \A i \in DOMAIN calls : calls'[i].op = calls[i].op,
         \A i \in DOMAIN calls : calls'[i].stage \in Loading => calls[i].stage \in Loading,
         factory' \in {"none", "loading", "ready"}, faults' \in 0..MaxFaults,
         phase' = phase \/ phase' = "error"
  PROVE  IInv'
  <1>0. TypeOK BY DEF IInv
  <1>1. TypeOK'
    BY DEF IInv, TypeOK, runtimeVars, Phases, intent
  <1>2. Ownership'
    <2>1. target # 0 => intent \in DOMAIN calls BY <1>0, Domains DEF IInv, Ownership, TypeOK
    <2> QED BY <2>1 DEF IInv, Ownership, runtimeVars, Loading
  <1>3. Attempt' BY DEF IInv, Attempt, runtimeVars, Alive, InFlight
  <1>4. NeverStranded' BY DEF IInv, NeverStranded, runtimeVars, InFlight
  <1>5. AuthenticatedIsUp' BY DEF IInv, AuthenticatedIsUp, runtimeVars, InFlight
  <1> QED BY <1>1, <1>2, <1>3, <1>4, <1>5 DEF IInv

\* Continuations of a call before it reaches the runtime, except the last.
LEMMA FacadeKeeps ==
  ASSUME IInv, NEW i \in DOMAIN calls, CallSuperseded(i) \/ CallLoaded(i) \/ CallThrows(i)
  PROVE  IInv'
  <1>0. TypeOK BY DEF IInv
  <1>1. CASE CallSuperseded(i)
    <2>1. Stage(i, "superseded") /\ UNCHANGED <<factory, runtime, phase, runtimeVars, faults>>
      BY <1>1 DEF CallSuperseded
    <2> QED BY <1>0, <2>1, OneStage, CallsOnly DEF Stages, Loading, TypeOK
  <1>2. CASE CallLoaded(i)
    <2>1. Stage(i, "options") /\ UNCHANGED <<factory, runtime, phase, runtimeVars, faults>>
          /\ calls[i].stage = "loaded"
      BY <1>2 DEF CallLoaded
    <2> QED BY <1>0, <2>1, OneStage, CallsOnly DEF Stages, Loading, TypeOK
  <1>3. CASE CallThrows(i)
    <2>1. Stage(i, "thrown") /\ UNCHANGED <<factory, runtime, runtimeVars, faults>>
          /\ phase' = "error"
      BY <1>3 DEF CallThrows
    <2> QED BY <1>0, <2>1, OneStage, CallsOnly DEF Stages, Loading, TypeOK
  <1> QED BY <1>1, <1>2, <1>3

\* The loader and the options settle.
LEMMA LoadsKeep ==
  ASSUME IInv, FactoryFails \/ FactoryLoads \/ \E i \in DOMAIN calls : OptionsSettle(i)
  PROVE  IInv'
  <1>0. TypeOK /\ faults \in Nat BY DEF IInv, TypeOK
  <1>a. ASSUME NEW s \in {"failed", "loaded"}, LoaderSettles(s)
        PROVE  /\ calls' \in Seq(CallRecords) /\ intent' = intent
               /\ DOMAIN calls' = DOMAIN calls
               /\ \A i \in DOMAIN calls : calls'[i].op = calls[i].op
               /\ \A i \in DOMAIN calls : calls'[i].stage \in Loading
                                            => calls[i].stage \in Loading
    <2> DEFINE d(i) == IF calls[i].stage = "loading" THEN [calls[i] EXCEPT !.stage = s]
                       ELSE calls[i]
    <2>1. calls' = [i \in DOMAIN calls |-> d(i)] BY <1>a DEF LoaderSettles
    <2>2. \A i \in DOMAIN calls : /\ d(i) \in CallRecords /\ d(i).op = calls[i].op
                                  /\ d(i).stage \in Loading => calls[i].stage \in Loading
      BY <1>0, Domains DEF CallRecords, Stages, Loading
    <2> HIDE DEF d
    <2>3. calls' \in [1..intent -> CallRecords] BY <1>0, <2>1, <2>2, Domains
    <2>4. intent \in Nat BY <1>0, Domains
    <2>5. calls' \in Seq(CallRecords) /\ Len(calls') = intent /\ DOMAIN calls' = 1..intent
      BY <2>3, <2>4, FunctionIsSeq
    <2> QED BY <1>0, <2>1, <2>2, <2>5, Domains DEF intent
  <1>1. CASE FactoryFails
    <2>1. LoaderSettles("failed") /\ UNCHANGED <<runtime, phase, runtimeVars>>
          /\ factory' = "none" /\ faults' \in 0..MaxFaults
      BY <1>0, <1>1, RuntimeAssumption DEF FactoryFails, Fault
    <2> QED BY <1>a, <2>1, CallsOnly
  <1>2. CASE FactoryLoads
    <2>1. LoaderSettles("loaded") /\ UNCHANGED <<runtime, phase, runtimeVars>>
          /\ factory' = "ready" /\ faults' \in 0..MaxFaults
      BY <1>2 DEF FactoryLoads, Fine, IInv, TypeOK
    <2> QED BY <1>a, <2>1, CallsOnly
  <1>3. ASSUME NEW i \in DOMAIN calls, OptionsSettle(i) PROVE IInv'
    <2>1. /\ UNCHANGED <<factory, runtime, phase, runtimeVars>> /\ calls[i].stage = "options"
          /\ Stage(i, "ready") \/ Stage(i, "failed")
      BY <1>3 DEF OptionsSettle
    <2>2. faults' \in 0..MaxFaults
      BY <1>0, <1>3, RuntimeAssumption DEF OptionsSettle, Fine, Fault, IInv, TypeOK
    <2> QED BY <1>0, <2>1, <2>2, OneStage, CallsOnly DEF Stages, Loading, TypeOK
  <1> QED BY <1>1, <1>2, <1>3

\* The runtime authenticates for a call that is now the last one.
LEMMA AuthenticateKeeps ==
  ASSUME IInv, NEW i \in 1..MaxCalls, RuntimeAuthenticate(i), runtime' = TRUE,
         intent' = i, calls' \in Seq(CallRecords), calls'[i].op = "authenticate",
         \A j \in DOMAIN calls' : calls'[j].stage \in Loading => calls'[j].op = "authenticate",
         factory' = factory, faults' = faults
  PROVE  IInv'
  <1>0. TypeOK BY DEF IInv
  <1>1. /\ target' = i /\ retryEnabled' = FALSE /\ identityValidated' = FALSE /\ timer' = 0
        /\ phase' = "connecting" /\ ReplaceTransport(i, FALSE)
    BY DEF RuntimeAuthenticate
  <1>2. /\ clients' \in Seq(ClientRecords) /\ authority' = Len(clients')
        /\ authority' \in DOMAIN clients' /\ authority' # 0 /\ authority' \notin DOMAIN clients
        /\ DOMAIN clients' = DOMAIN clients \cup {authority'}
        /\ clients'[authority'].call = i /\ clients'[authority'].reconnect = FALSE
        /\ clients'[authority'].conn = "connecting" /\ clients'[authority'].flow = "dialing"
        /\ \A h \in DOMAIN clients : clients'[h] = Closed(authority)[h]
    BY <1>0, <1>1, ReplaceFacts
  <1>3. TypeOK'
    <2>1. i # 0 /\ i \in 0..MaxCalls /\ 0 \in 0..MaxCalls /\ i <= MaxCalls BY RuntimeAssumption
    <2>2. (authority' = 0) = (target' = 0) BY <1>1, <1>2, <2>1
    <2>3. authority' \in {0, Len(clients')} BY <1>2
    <2>4. factory' \in {"none", "loading", "ready"} /\ faults' \in 0..MaxFaults
      BY <1>0 DEF TypeOK
    <2> QED BY <1>1, <1>2, <2>1, <2>2, <2>3, <2>4 DEF TypeOK, Phases
  <1>4. Ownership' BY <1>1, <1>2 DEF Ownership, Loading
  <1>5. ASSUME NEW h \in DOMAIN clients
        PROVE  /\ clients'[h].conn \notin {"connecting", "connected"}
               /\ clients'[h].flow \notin {"dialing", "asking"}
    <2>1. CASE h = authority
      BY <1>0, <1>2, <2>1, ClosedFacts
    <2>2. CASE h # authority
      BY <1>0, <1>2, <2>2, ClosedFacts, SMTT(30) DEF IInv, Attempt, Alive
    <2> QED BY <2>1, <2>2
  <1>6. Attempt' BY <1>1, <1>2, <1>5 DEF Attempt, Alive, InFlight
  <1>7. NeverStranded' /\ AuthenticatedIsUp' BY <1>1 DEF NeverStranded, AuthenticatedIsUp
  <1> QED BY <1>3, <1>4, <1>6, <1>7 DEF IInv

\* The user connects, or the call that loaded everything reaches the runtime.
LEMMA ConnectKeeps ==
  ASSUME IInv, Authenticate \/ \E i \in DOMAIN calls : CallReady(i)
  PROVE  IInv'
  <1>0. TypeOK /\ intent \in Nat /\ DOMAIN calls = 1..intent /\ MaxCalls \in Nat
    BY Domains, RuntimeAssumption DEF IInv
  <1>1. CASE Authenticate
    <2> DEFINE i == intent + 1
    <2>1. i \in 1..MaxCalls BY <1>0, <1>1 DEF Authenticate
    <2>2. PICK c \in CallRecords : calls' = Append(calls, c) /\ c.op = "authenticate"
                                   /\ (runtime => c.stage = "running")
      <3>1. \A s \in Stages : [op |-> "authenticate", stage |-> s] \in CallRecords
        BY DEF CallRecords
      <3> QED BY <1>1, <3>1 DEF Authenticate, Stages
    <2>3. /\ calls' \in Seq(CallRecords) /\ Len(calls') = i /\ calls'[i] = c
          /\ DOMAIN calls' = 1..i /\ \A j \in 1..intent : calls'[j] = calls[j]
      <3>1. calls \in Seq(CallRecords) /\ Len(calls) = intent BY <1>0 DEF TypeOK, intent
      <3> QED BY <1>0, <2>2, <3>1
    <2>4. \A j \in DOMAIN calls' : j = i \/ j \in DOMAIN calls BY <1>0, <2>3
    <2>5. \A j \in DOMAIN calls' : calls'[j].stage \in Loading => calls'[j].op = "authenticate"
      BY <1>0, <2>2, <2>3, <2>4 DEF IInv, Ownership, Loading
    <2>6. CASE runtime
      <3>1. RuntimeAuthenticate(i) /\ UNCHANGED <<factory, runtime, faults>>
        BY <1>1, <2>6 DEF Authenticate
      <3>2. intent' = i BY <2>3 DEF intent
      <3> HIDE DEF i
      <3> QED BY <2>1, <2>2, <2>3, <2>5, <2>6, <3>1, <3>2, AuthenticateKeeps
    <2>7. CASE ~runtime
      <3>1. /\ phase' = "connecting" /\ UNCHANGED <<runtime, faults, runtimeVars>>
            /\ factory' \in {"none", "loading", "ready"}
        BY <1>0, <1>1, <2>7 DEF Authenticate, TypeOK
      <3>2. target = 0 /\ target' = 0 BY <2>7, <3>1 DEF IInv, Ownership, runtimeVars
      <3>3. intent' = i BY <2>3 DEF intent
      <3>4. TypeOK' BY <1>0, <2>1, <2>3, <3>1, <3>3 DEF TypeOK, runtimeVars, Phases
      <3>5. Ownership'
        BY <2>5, <2>7, <3>1, <3>2 DEF IInv, Ownership, runtimeVars, Loading
      <3>6. Attempt' BY <3>1 DEF IInv, Attempt, runtimeVars, Alive, InFlight
      <3>7. NeverStranded' BY <3>1 DEF IInv, NeverStranded, runtimeVars, InFlight
      <3>8. AuthenticatedIsUp' BY <3>1 DEF AuthenticatedIsUp
      <3> QED BY <3>4, <3>5, <3>6, <3>7, <3>8 DEF IInv
    <2> QED BY <2>6, <2>7
  <1>2. ASSUME NEW i \in DOMAIN calls, CallReady(i) PROVE IInv'
    <2>1. /\ calls[i].stage = "ready" /\ i = intent /\ Stage(i, "running")
          /\ runtime' = TRUE /\ RuntimeAuthenticate(i) /\ UNCHANGED <<factory, faults>>
      BY <1>2 DEF CallReady, Latest
    <2>2. /\ calls' \in Seq(CallRecords) /\ intent' = intent /\ DOMAIN calls' = DOMAIN calls
          /\ \A j \in DOMAIN calls : calls'[j].op = calls[j].op
          /\ \A j \in DOMAIN calls : j # i => calls'[j].stage = calls[j].stage
      BY <1>0, <2>1, OneStage DEF Stages
    <2>3. calls[i].op = "authenticate" BY <2>1 DEF IInv, Ownership
    <2>4. i \in 1..MaxCalls BY <1>0 DEF TypeOK
    <2>5. \A j \in DOMAIN calls' : calls'[j].stage \in Loading => calls'[j].op = "authenticate"
      BY <2>2, <2>3 DEF IInv, Ownership, Loading
    <2> QED BY <2>1, <2>2, <2>3, <2>4, <2>5, AuthenticateKeeps
  <1> QED BY <1>1, <1>2

\* The user disconnects.
LEMMA DisconnectKeeps ==
  ASSUME IInv, Disconnect
  PROVE  IInv'
  <1> DEFINE c == [op |-> "disconnect", stage |-> "returned"]
  <1>0. TypeOK /\ intent \in Nat /\ DOMAIN calls = 1..intent /\ MaxCalls \in Nat
        /\ calls \in Seq(CallRecords) /\ Len(calls) = intent
    BY Domains, RuntimeAssumption DEF IInv, TypeOK, intent
  <1>1. c \in CallRecords /\ calls' = Append(calls, c) /\ intent < MaxCalls
        /\ c.stage \notin Loading
    BY DEF CallRecords, Stages, Disconnect, Loading
  <1> HIDE DEF c
  <1>2. /\ calls' \in Seq(CallRecords) /\ Len(calls') = intent + 1 /\ calls'[intent + 1] = c
        /\ DOMAIN calls' = 1..(intent + 1) /\ \A j \in 1..intent : calls'[j] = calls[j]
    BY <1>0, <1>1
  <1>3. intent' = intent + 1 /\ intent' <= MaxCalls BY <1>0, <1>1, <1>2 DEF intent
  <1>4. \A j \in DOMAIN calls' : j = intent + 1 \/ j \in DOMAIN calls BY <1>0, <1>2
  <1>5. \A j \in DOMAIN calls' : calls'[j].stage \in Loading => calls'[j].op = "authenticate"
    BY <1>0, <1>1, <1>2, <1>4 DEF IInv, Ownership, Loading
  <1>6. CASE runtime
    <2>1. /\ target' = 0 /\ retryEnabled' = FALSE /\ identityValidated' = FALSE /\ timer' = 0
          /\ authority' = 0 /\ phase' = "disconnected" /\ clients' = Closed(authority)
          /\ UNCHANGED <<factory, runtime, faults>>
      BY <1>6 DEF Disconnect, RuntimeDisconnect
    <2>2. clients' \in Seq(ClientRecords) /\ DOMAIN clients' = DOMAIN clients
      BY <1>0, <2>1, ClosedFacts
    <2>3. TypeOK'
      <3>1. 0 \in 0..MaxCalls BY <1>0
      <3>2. (authority' = 0) = (target' = 0) BY <2>1
      <3> QED BY <1>0, <1>2, <1>3, <2>1, <2>2, <3>1, <3>2 DEF TypeOK, Phases
    <2>4. Ownership' BY <1>5, <1>6, <2>1 DEF Ownership, Loading
    <2>5. ASSUME NEW h \in DOMAIN clients
          PROVE  /\ clients'[h].conn \notin {"connecting", "connected"}
                 /\ clients'[h].flow \notin {"dialing", "asking"}
      <3>1. CASE h = authority BY <1>0, <2>1, <3>1, ClosedFacts
      <3>2. CASE h # authority
        BY <1>0, <2>1, <3>2, ClosedFacts DEF IInv, Attempt, Alive
      <3> QED BY <3>1, <3>2
    <2>6. Attempt' BY <2>1, <2>2, <2>5 DEF Attempt, Alive, InFlight
    <2>7. NeverStranded' /\ AuthenticatedIsUp' BY <2>1 DEF NeverStranded, AuthenticatedIsUp
    <2> QED BY <2>3, <2>4, <2>6, <2>7 DEF IInv
  <1>7. CASE ~runtime
    <2>1. phase' = "disconnected" /\ UNCHANGED <<factory, runtime, faults, runtimeVars>>
      BY <1>7 DEF Disconnect
    <2>2. target = 0 /\ target' = 0 BY <1>7, <2>1 DEF IInv, Ownership, runtimeVars
    <2>3. TypeOK' BY <1>0, <1>2, <1>3, <2>1 DEF TypeOK, runtimeVars, Phases
    <2>4. Ownership' BY <1>5, <1>7, <2>1, <2>2 DEF IInv, Ownership, runtimeVars, Loading
    <2>5. Attempt' BY <2>1 DEF IInv, Attempt, runtimeVars, Alive, InFlight
    <2>6. NeverStranded' BY <2>1 DEF IInv, NeverStranded, runtimeVars, InFlight
    <2>7. AuthenticatedIsUp' BY <2>1 DEF AuthenticatedIsUp
    <2> QED BY <2>3, <2>4, <2>5, <2>6, <2>7 DEF IInv
  <1> QED BY <1>6, <1>7

\* The retry timer.
LEMMA TimerKeeps ==
  ASSUME IInv, TimerFires
  PROVE  IInv'
  <1>0. TypeOK /\ timer # 0 /\ timer' = 0 /\ timer = target /\ target \in 1..MaxCalls
        /\ 0 \in 0..MaxCalls
    BY RuntimeAssumption DEF TimerFires, IInv, Ownership, TypeOK
  <1>1. UNCHANGED <<facadeVars, target, retryEnabled, identityValidated, faults>>
    BY DEF TimerFires
  <1>2. CASE retryEnabled
    <2>1. phase' = "reconnecting" /\ ReplaceTransport(target, TRUE)
      BY <1>0, <1>2 DEF TimerFires
    <2>2. /\ clients' \in Seq(ClientRecords) /\ authority' = Len(clients')
          /\ authority' \in DOMAIN clients' /\ authority' # 0 /\ authority' \notin DOMAIN clients
          /\ DOMAIN clients' = DOMAIN clients \cup {authority'}
          /\ clients'[authority'].call = target /\ clients'[authority'].reconnect = TRUE
          /\ clients'[authority'].conn = "connecting" /\ clients'[authority'].flow = "dialing"
          /\ \A h \in DOMAIN clients : clients'[h] = Closed(authority)[h]
      BY <1>0, <2>1, ReplaceFacts
    <2>3. TypeOK'
      <3>1. target' # 0 BY <1>0, <1>1
      <3>2. (authority' = 0) = (target' = 0) BY <2>2, <3>1
      <3>3. authority' \in {0, Len(clients')} BY <2>2
      <3> QED BY <1>0, <1>1, <2>1, <2>2, <3>2, <3>3 DEF TypeOK, Phases, facadeVars, intent
    <2>4. Ownership' BY <1>0, <1>1, <2>2 DEF IInv, Ownership, facadeVars, intent
    <2>5. ASSUME NEW h \in DOMAIN clients
          PROVE  /\ clients'[h].conn \notin {"connecting", "connected"}
                 /\ clients'[h].flow \notin {"dialing", "asking"}
      <3>1. CASE h = authority BY <1>0, <2>2, <3>1, ClosedFacts
      <3>2. CASE h # authority
        BY <1>0, <2>2, <3>2, ClosedFacts, SMTT(30) DEF IInv, Attempt, Alive
      <3> QED BY <3>1, <3>2
    <2>6. Attempt' BY <1>0, <1>1, <1>2, <2>2, <2>5 DEF IInv, Attempt, Alive, InFlight
    <2>7. NeverStranded' BY <2>2 DEF NeverStranded, InFlight
    <2>8. AuthenticatedIsUp' BY <2>1 DEF AuthenticatedIsUp
    <2> QED BY <2>3, <2>4, <2>6, <2>7, <2>8 DEF IInv
  <1>3. CASE ~retryEnabled
    <2>1. UNCHANGED <<phase, authority, clients>> BY <1>3 DEF TimerFires
    <2>2. TypeOK' BY <1>0, <1>1, <2>1 DEF TypeOK, facadeVars, intent
    <2>3. Ownership' BY <1>0, <1>1, <2>1 DEF IInv, Ownership, facadeVars, intent
    <2>4. Attempt' BY <1>0, <1>1, <2>1 DEF IInv, Attempt, Alive, InFlight
    <2>5. NeverStranded' BY <1>1, <1>3 DEF IInv, Attempt, NeverStranded
    <2>6. AuthenticatedIsUp' BY <1>0, <2>1 DEF IInv, AuthenticatedIsUp
    <2> QED BY <2>2, <2>3, <2>4, <2>5, <2>6 DEF IInv
  <1> QED BY <1>2, <1>3

\* A step that changes one client but neither its call nor who it is for.
LEMMA ClientStep ==
  ASSUME IInv, NEW g \in DOMAIN clients, NEW c \in ClientRecords,
         clients' = [clients EXCEPT ![g] = c],
         c.call = clients[g].call, c.reconnect = clients[g].reconnect,
         UNCHANGED <<runtime, factory, target, authority>>,
         calls' \in Seq(CallRecords), intent' = intent, DOMAIN calls' = DOMAIN calls,
         \A i \in DOMAIN calls : calls'[i].op = calls[i].op,
         \A i \in DOMAIN calls : calls'[i].stage \in Loading => calls[i].stage \in Loading,
         retryEnabled' \in BOOLEAN, identityValidated' \in BOOLEAN,
         timer' \in {0, timer, target}, phase' \in Phases, faults' \in 0..MaxFaults
  PROVE  TypeOK' /\ Ownership'
  <1>0. TypeOK BY DEF IInv
  <1>1. /\ clients' \in Seq(ClientRecords) /\ Len(clients') = Len(clients)
        /\ DOMAIN clients' = DOMAIN clients
        /\ clients'[g] = c
        /\ \A h \in DOMAIN clients : h # g => clients'[h] = clients[h]
    BY <1>0, OneClient
  <1>2. TypeOK'
    <2>1. timer' \in 0..MaxCalls /\ target' \in 0..MaxCalls
      BY <1>0, RuntimeAssumption DEF TypeOK
    <2>2. authority' \in {0, Len(clients')} /\ (authority' = 0) = (target' = 0)
      BY <1>0, <1>1 DEF TypeOK
    <2>3. intent' <= MaxCalls /\ factory' \in {"none", "loading", "ready"} /\ runtime' \in BOOLEAN
      BY <1>0 DEF TypeOK
    <2> QED BY <1>1, <2>1, <2>2, <2>3 DEF TypeOK
  <1>3. Ownership'
    <2>1. target # 0 => intent \in DOMAIN calls BY <1>0, Domains DEF IInv, Ownership, TypeOK
    <2>2. authority # 0 => clients'[authority].call = clients[authority].call
      BY <1>0, <1>1, Domains
    <2> QED BY <2>1, <2>2 DEF IInv, Ownership, Loading
  <1> QED BY <1>2, <1>3

\* How the call behind a client ends.
LEMMA EndsFacts ==
  ASSUME IInv, NEW g \in DOMAIN clients, NEW s \in {"returned", "superseded", "thrown"},
         CallEnds(g, s)
  PROVE  /\ calls' \in Seq(CallRecords) /\ intent' = intent
         /\ DOMAIN calls' = DOMAIN calls
         /\ \A j \in DOMAIN calls : calls'[j].op = calls[j].op
         /\ \A j \in DOMAIN calls : calls'[j].stage \in Loading => calls[j].stage \in Loading
  <1>0. TypeOK BY DEF IInv
  <1>1. CASE calls' = calls BY <1>0, <1>1 DEF TypeOK, intent
  <1>2. CASE calls' = [calls EXCEPT ![clients[g].call].stage = s]
    <2>1. CASE clients[g].call \in DOMAIN calls
      <3>1. Stage(clients[g].call, s) BY <1>2 DEF Stage
      <3> QED BY <1>0, <2>1, <3>1, OneStage DEF Stages, Loading
    <2>2. CASE clients[g].call \notin DOMAIN calls
      <3>1. calls' = calls BY <1>0, <1>2, <2>2 DEF TypeOK
      <3> QED BY <1>1, <3>1
    <2> QED BY <2>1, <2>2
  <1> QED BY <1>1, <1>2 DEF CallEnds

\* The facts about the client that a step changes, from the invariant.
LEMMA ClientFacts ==
  ASSUME IInv, NEW g \in DOMAIN clients
  PROVE  /\ clients[g] \in ClientRecords
         /\ clients[g].call \in 1..MaxCalls /\ clients[g].reconnect \in BOOLEAN
         /\ clients[g].conn \in {"connecting", "connected", "error", "disconnected"}
         /\ clients[g].flow \in Flows
         /\ clients[g].conn \in {"connecting", "connected"} => g = authority
         /\ clients[g].flow \in {"dialing", "asking"} => g = authority
         /\ clients[g].conn = "connecting" => clients[g].flow = "dialing"
         /\ g # 0
  <1>0. TypeOK BY DEF IInv
  <1>1. clients[g] \in ClientRecords /\ g # 0 BY <1>0, Domains
  <1> QED BY <1>1 DEF IInv, Attempt, Alive, ClientRecords

\* The rest of the invariant after a step of the authority's client.
LEMMA AuthorityStep ==
  ASSUME IInv, NEW c \in ClientRecords, authority # 0,
         clients' = [clients EXCEPT ![authority] = c], UNCHANGED <<authority, target>>,
         c.flow = "dialing" => c.conn = "connecting",
         c.flow = "asking" => c.conn = "connected",
         c.conn = "connecting" => c.flow = "dialing",
         c.conn \in {"connecting", "connected"} => timer' = 0,
         c.flow # "done" /\ c.reconnect => retryEnabled',
         c.flow # "done" /\ ~c.reconnect => ~identityValidated',
         identityValidated' => retryEnabled',
         identityValidated' => timer' # 0 \/ c.flow # "done" \/ c.conn = "connected",
         phase' = "authenticated" => /\ c.conn = "connected" /\ c.flow = "done"
                                     /\ identityValidated' /\ retryEnabled' /\ timer' = 0
  PROVE  Attempt' /\ NeverStranded' /\ AuthenticatedIsUp'
  <1>0. TypeOK /\ authority \in DOMAIN clients BY Domains DEF IInv
  <1>1. /\ DOMAIN clients' = DOMAIN clients
        /\ clients'[authority] = c
        /\ \A h \in DOMAIN clients : h # authority => clients'[h] = clients[h]
    BY <1>0, OneClient
  <1>2. target' # 0 BY <1>0 DEF TypeOK
  <1>3. ASSUME NEW h \in DOMAIN clients'
        PROVE  /\ Alive(h)' => h = authority'
               /\ clients'[h].flow = "dialing" => clients'[h].conn = "connecting"
               /\ clients'[h].flow = "asking" => clients'[h].conn = "connected"
               /\ clients'[h].conn = "connecting" => clients'[h].flow = "dialing"
    <2>1. CASE h = authority BY <1>1, <2>1
    <2>2. CASE h # authority BY <1>1, <2>2 DEF IInv, Attempt, Alive
    <2> QED BY <2>1, <2>2
  <1>4. Attempt' BY <1>1, <1>2, <1>3 DEF Attempt, Alive, InFlight
  <1>5. NeverStranded' BY <1>1 DEF NeverStranded, InFlight
  <1>6. AuthenticatedIsUp' BY <1>1 DEF AuthenticatedIsUp, InFlight
  <1> QED BY <1>4, <1>5, <1>6

\* A client that was replaced ends its flow.
LEMMA SupersededKeeps ==
  ASSUME IInv, NEW g \in DOMAIN clients, FlowSuperseded(g)
  PROVE  IInv'
  <1> DEFINE c == [clients[g] EXCEPT !.flow = "done"]
  <1>0. TypeOK BY DEF IInv
  <1>1. /\ g # authority /\ clients' = [clients EXCEPT ![g] = c]
        /\ CallEnds(g, "superseded")
        /\ UNCHANGED <<factory, runtime, phase, target, retryEnabled, identityValidated,
                       timer, authority, faults>>
    BY DEF FlowSuperseded
  <1>2. /\ c \in ClientRecords /\ c.call = clients[g].call /\ c.reconnect = clients[g].reconnect
        /\ c.conn = clients[g].conn /\ c.flow = "done"
    BY ClientFacts DEF ClientRecords, Flows
  <1>a. c.conn \notin {"connecting", "connected"} BY <1>1, <1>2, ClientFacts
  <1> HIDE DEF c
  <1>3. TypeOK' /\ Ownership'
    BY <1>0, <1>1, <1>2, EndsFacts, ClientStep DEF TypeOK
  <1>4. /\ DOMAIN clients' = DOMAIN clients /\ clients'[g] = c
        /\ \A h \in DOMAIN clients : h # g => clients'[h] = clients[h]
    BY <1>0, <1>1, <1>2, OneClient
  <1>5. authority # 0 => authority \in DOMAIN clients BY <1>0, Domains
  <1>6. Attempt' BY <1>1, <1>2, <1>a, <1>4, <1>5 DEF IInv, Attempt, Alive, InFlight
  <1>7. NeverStranded' BY <1>1, <1>4, <1>5 DEF IInv, NeverStranded, InFlight
  <1>8. AuthenticatedIsUp' BY <1>1, <1>4, <1>5 DEF IInv, AuthenticatedIsUp, InFlight
  <1> QED BY <1>3, <1>6, <1>7, <1>8 DEF IInv

\* The authority's client is accepted.
LEMMA SucceedsKeeps ==
  ASSUME IInv, NEW g \in DOMAIN clients, FlowSucceeds(g)
  PROVE  IInv'
  <1> DEFINE c == [clients[g] EXCEPT !.flow = "done"]
  <1>0. TypeOK BY DEF IInv
  <1>1. /\ g = authority /\ clients[g].flow = "answered" /\ clients[g].conn = "connected"
        /\ clients' = [clients EXCEPT ![g] = c]
        /\ phase' = "authenticated" /\ identityValidated' = TRUE
        /\ retryEnabled' = (retryEnabled \/ ~clients[g].reconnect)
        /\ UNCHANGED <<factory, runtime, target, timer, authority, faults>>
    BY DEF FlowSucceeds
  <1>2. /\ c \in ClientRecords /\ c.call = clients[g].call /\ c.reconnect = clients[g].reconnect
        /\ c.conn = "connected" /\ c.flow = "done"
    BY <1>1, ClientFacts DEF ClientRecords, Flows
  <1>3. PICK s \in {"returned", "superseded", "thrown"} : CallEnds(g, s) BY DEF FlowSucceeds
  <1> HIDE DEF c
  <1>4. TypeOK' /\ Ownership'
    <2>1. phase' \in Phases /\ retryEnabled' \in BOOLEAN /\ faults' \in 0..MaxFaults
      BY <1>0, <1>1 DEF Phases, TypeOK
    <2> QED BY <1>1, <1>2, <1>3, <2>1, EndsFacts, ClientStep
  <1>5. authority # 0 /\ timer' = 0
    BY <1>1, ClientFacts DEF IInv, Attempt, Alive
  <1>6. retryEnabled' = TRUE
    <2>1. clients[g].reconnect => retryEnabled
      BY <1>1, <1>5 DEF IInv, Attempt, InFlight
    <2> QED BY <1>1, <2>1
  <1>7. Attempt' /\ NeverStranded' /\ AuthenticatedIsUp'
    BY <1>1, <1>2, <1>5, <1>6, AuthorityStep
  <1> QED BY <1>4, <1>7 DEF IInv

\* The authority's attempt fails; unless it was fatal or the user's own, the timer
\* is armed.
LEMMA FailsKeeps ==
  ASSUME IInv, NEW g \in DOMAIN clients, FlowFails(g)
  PROVE  IInv'
  <1> DEFINE fatal == clients[g].flow = "incompatible" /\ clients[g].conn = "connected"
             c == [Closed(g)[g] EXCEPT !.flow = "done"]
  <1>0. TypeOK BY DEF IInv
  <1>1. /\ g = authority /\ clients[g].flow # "done" /\ FailCurrent(g, fatal)
        /\ clients' = [Closed(g) EXCEPT ![g].flow = "done"] /\ CallEnds(g, "thrown")
        /\ UNCHANGED <<factory, runtime, target, authority, faults>>
    BY DEF FlowFails
  <1>2. authority # 0 /\ target # 0 BY <1>0, <1>1, ClientFacts DEF TypeOK
  <1>3. /\ c \in ClientRecords /\ c.call = clients[g].call /\ c.reconnect = clients[g].reconnect
        /\ c.conn = "disconnected" /\ c.flow = "done"
    <2>1. Closed(g)[g] \in ClientRecords BY <1>0, ClosedFacts
    <2> QED BY <1>0, <2>1, ClosedFacts DEF ClientRecords, Flows
  <1>4. clients' = [clients EXCEPT ![g] = c]
    <2>1. clients' = [Closed(g) EXCEPT ![g] = c] BY <1>1
    <2>2. Closed(g) \in Seq(ClientRecords) /\ DOMAIN Closed(g) = DOMAIN clients
          /\ \A h \in DOMAIN clients : h # g => Closed(g)[h] = clients[h]
      BY <1>0, ClosedFacts
    <2>3. clients \in Seq(ClientRecords) BY <1>0 DEF TypeOK
    <2> HIDE DEF c
    <2> QED BY <2>1, <2>2, <2>3
  <1> HIDE DEF c
  <1>5. /\ retryEnabled' = (retryEnabled /\ ~fatal)
        /\ identityValidated' = (identityValidated /\ ~fatal)
        /\ phase' \in {"error", "reconnect_wait"}
        /\ timer' \in {timer, target}
    BY <1>1 DEF FailCurrent, ScheduleReconnect
  <1>6. identityValidated' => retryEnabled' /\ timer' # 0
    <2> SUFFICES ASSUME identityValidated' PROVE retryEnabled' /\ timer' # 0 OBVIOUS
    <2>1. identityValidated /\ ~fatal BY <1>5
    <2>2. retryEnabled' BY <1>5, <2>1 DEF IInv, Attempt
    <2>3. clients[g].reconnect BY <1>1, <1>2, <2>1 DEF IInv, Attempt, InFlight
    <2>4. ScheduleReconnect(retryEnabled', "error") BY <1>1, <2>1, <2>3 DEF FailCurrent
    <2> QED BY <1>2, <2>2, <2>4 DEF ScheduleReconnect
  <1>7. TypeOK' /\ Ownership'
    <2>1. /\ phase' \in Phases /\ retryEnabled' \in BOOLEAN /\ identityValidated' \in BOOLEAN
          /\ faults' \in 0..MaxFaults /\ timer' \in {0, timer, target}
      BY <1>0, <1>1, <1>5 DEF Phases, TypeOK
    <2> QED BY <1>1, <1>3, <1>4, <2>1, EndsFacts, ClientStep
  <1>8. Attempt' /\ NeverStranded' /\ AuthenticatedIsUp'
    BY <1>1, <1>2, <1>3, <1>4, <1>5, <1>6, AuthorityStep
  <1> QED BY <1>7, <1>8 DEF IInv

\* The socket opens and the server answers.
LEMMA NetworkKeeps ==
  ASSUME IInv, NEW g \in DOMAIN clients, Opens(g) \/ Answers(g)
  PROVE  IInv'
  <1>0. TypeOK BY DEF IInv
  <1>1. PICK c \in ClientRecords :
          /\ clients' = [clients EXCEPT ![g] = c]
          /\ c.call = clients[g].call /\ c.reconnect = clients[g].reconnect
          /\ c.conn = "connected" /\ c.flow \in {"asking", "answered", "incompatible", "failed"}
    <2>1. CASE Opens(g)
      <3> DEFINE c == [clients[g] EXCEPT !.conn = "connected", !.flow = "asking"]
      <3>1. clients' = [clients EXCEPT ![g] = c] BY <2>1 DEF Opens
      <3>2. /\ c \in ClientRecords /\ c.call = clients[g].call
            /\ c.reconnect = clients[g].reconnect /\ c.conn = "connected" /\ c.flow = "asking"
        BY ClientFacts DEF ClientRecords, Flows
      <3> HIDE DEF c
      <3> QED BY <3>1, <3>2
    <2>2. CASE Answers(g)
      <3>1. PICK f \in {"answered", "incompatible", "failed"} :
              clients' = [clients EXCEPT ![g].flow = f]
        BY <2>2 DEF Answers
      <3> DEFINE c == [clients[g] EXCEPT !.flow = f]
      <3>2. clients' = [clients EXCEPT ![g] = c] BY <3>1
      <3>3. clients[g].conn = "connected" BY <2>2 DEF Answers, IInv, Attempt
      <3>4. /\ c \in ClientRecords /\ c.call = clients[g].call
            /\ c.reconnect = clients[g].reconnect /\ c.conn = "connected" /\ c.flow = f
        BY <3>3, ClientFacts DEF ClientRecords, Flows
      <3> HIDE DEF c
      <3> QED BY <3>2, <3>4
    <2> QED BY <2>1, <2>2
  <1>2. g = authority /\ authority # 0 /\ InFlight(g) /\ Alive(g)
    <2>1. CASE Opens(g) BY <2>1, ClientFacts DEF Opens, InFlight, Alive
    <2>2. CASE Answers(g) BY <2>2, ClientFacts DEF Answers, InFlight, Alive, IInv, Attempt
    <2> QED BY <2>1, <2>2
  <1>3. UNCHANGED <<facadeVars, phase, target, retryEnabled, identityValidated, timer, authority>>
    BY DEF Opens, Answers
  <1>4. faults' \in 0..MaxFaults
    BY <1>0, RuntimeAssumption DEF Opens, Answers, Fine, Fault, TypeOK
  <1>5. TypeOK' /\ Ownership'
    <2>1. /\ calls' = calls /\ factory' = factory /\ runtime' = runtime /\ intent' = intent
      BY <1>3 DEF facadeVars, intent
    <2> QED BY <1>0, <1>1, <1>3, <1>4, <2>1, ClientStep DEF TypeOK
  <1>6. phase' # "authenticated" BY <1>2, <1>3 DEF IInv, AuthenticatedIsUp
  <1>7. /\ timer = 0
        /\ clients[g].reconnect => retryEnabled
        /\ ~clients[g].reconnect => ~identityValidated
        /\ identityValidated => retryEnabled
    BY <1>2 DEF IInv, Attempt
  <1>8. Attempt' /\ NeverStranded' /\ AuthenticatedIsUp'
    BY <1>1, <1>2, <1>3, <1>6, <1>7, AuthorityStep
  <1> QED BY <1>5, <1>8 DEF IInv

\* The socket is lost.
LEMMA LostKeeps ==
  ASSUME IInv, NEW g \in DOMAIN clients, NEW st \in {"error", "disconnected"}, Lost(g, st)
  PROVE  IInv'
  <1> DEFINE c == [clients[g] EXCEPT !.conn = st,
                     !.flow = IF @ \in {"dialing", "asking"} THEN "failed" ELSE @]
  <1>0. TypeOK BY DEF IInv
  <1>1. /\ g = authority /\ authority # 0 /\ clients[g].conn \in {"connecting", "connected"}
    BY ClientFacts DEF Lost
  <1>2. /\ clients' = [clients EXCEPT ![g] = c] /\ StatusListener(st)
        /\ UNCHANGED <<facadeVars, target, retryEnabled, identityValidated, authority>>
    BY <1>1 DEF Lost
  <1>3. /\ c \in ClientRecords /\ c.call = clients[g].call /\ c.reconnect = clients[g].reconnect
        /\ c.conn = st /\ c.flow \notin {"dialing", "asking"}
        /\ c.flow = "done" <=> clients[g].flow = "done"
    BY ClientFacts DEF ClientRecords, Flows
  <1> HIDE DEF c
  <1>4. timer = 0 /\ target # 0 BY <1>0, <1>1 DEF IInv, Attempt, Alive, TypeOK
  <1>5. /\ retryEnabled => timer' = target /\ phase' = "reconnect_wait"
        /\ ~retryEnabled => timer' = timer /\ phase' \in {"error", phase}
    BY <1>2, <1>4 DEF StatusListener, ScheduleReconnect
  <1>6. faults' \in 0..MaxFaults BY <1>0, RuntimeAssumption DEF Lost, Fault, TypeOK
  <1>7. TypeOK' /\ Ownership'
    <2>1. /\ calls' = calls /\ factory' = factory /\ runtime' = runtime /\ intent' = intent
      BY <1>2 DEF facadeVars, intent
    <2>2. phase' \in Phases /\ timer' \in {0, timer, target}
      BY <1>0, <1>5 DEF TypeOK, Phases
    <2> QED BY <1>0, <1>2, <1>3, <1>6, <2>1, <2>2, ClientStep DEF TypeOK
  <1>8. phase' # "authenticated" BY <1>5 DEF IInv, AuthenticatedIsUp
  <1>9. /\ clients[g].flow # "done" /\ clients[g].reconnect => retryEnabled
        /\ clients[g].flow # "done" /\ ~clients[g].reconnect => ~identityValidated
        /\ identityValidated => retryEnabled
    BY <1>1 DEF IInv, Attempt, InFlight
  <1>10. Attempt' /\ NeverStranded' /\ AuthenticatedIsUp'
    BY <1>1, <1>2, <1>3, <1>4, <1>5, <1>8, <1>9, AuthorityStep
  <1> QED BY <1>7, <1>10 DEF IInv

\* Every step keeps the invariant.
LEMMA StepKeeps == IInv /\ [Next]_vars => IInv'
  <1> SUFFICES ASSUME IInv, [Next]_vars PROVE IInv' OBVIOUS
  <1>1. CASE UNCHANGED vars
    <2>1. UNCHANGED <<calls, factory, runtime, phase, runtimeVars, faults>>
      BY <1>1 DEF vars, facadeVars
    <2> QED BY <2>1, CallsOnly DEF IInv, TypeOK, intent
  <1>2. CASE User BY <1>2, ConnectKeeps, DisconnectKeeps DEF User
  <1>3. CASE Facade BY <1>3, FacadeKeeps, ConnectKeeps DEF Facade
  <1>4. CASE Flow BY <1>4, SupersededKeeps, SucceedsKeeps, FailsKeeps DEF Flow
  <1>5. CASE TimerFires BY <1>5, TimerKeeps
  <1>6. CASE Loads \/ FactoryFails BY <1>6, LoadsKeep DEF Loads
  <1>7. CASE Network BY <1>7, NetworkKeeps DEF Network
  <1>8. CASE Loses BY <1>8, LostKeeps DEF Loses
  <1> QED BY <1>1, <1>2, <1>3, <1>4, <1>5, <1>6, <1>7, <1>8 DEF Next

\* The invariant holds.
LEMMA Invariant == Spec => []IInv
  BY InitHolds, StepKeeps, PTL DEF Spec

\* Every variable keeps its type, and there is an authority exactly while there is
\* a target.
THEOREM RuntimeTypeCorrect == Spec => []TypeOK
  <1>1. IInv => TypeOK BY DEF IInv
  <1> QED BY <1>1, Invariant, PTL

\* The last Connect or Disconnect wins: a live socket or an armed retry timer is
\* its own, however long earlier calls were loading, dialing or waiting.
THEOREM LastCallOwnsSocket == Spec => []LatestCallOwns
  <1>1. ASSUME IInv PROVE LatestCallOwns
    <2>0. TypeOK BY <1>1 DEF IInv
    <2>1. ASSUME NEW g \in DOMAIN clients, Alive(g)
          PROVE  g = authority /\ Latest(clients[g].call) /\ calls[intent].op = "authenticate"
      <3>1. g = authority /\ authority # 0 BY <1>1, <2>1, ClientFacts DEF IInv, Attempt
      <3>2. target # 0 BY <2>0, <3>1 DEF TypeOK
      <3> QED BY <1>1, <3>1, <3>2 DEF IInv, Ownership, Latest
    <2>2. timer # 0 => timer = target /\ Latest(target)
      BY <1>1 DEF IInv, Ownership, Latest
    <2> QED BY <2>1, <2>2 DEF LatestCallOwns
  <1> QED BY <1>1, Invariant, PTL

\* A page that shows itself authenticated is never stranded.
THEOREM EstablishedIsServed == Spec => []NeverStranded
  <1>1. IInv => NeverStranded BY DEF IInv
  <1> QED BY <1>1, Invariant, PTL

\* No late answer authenticates a client whose socket is gone.
THEOREM AuthenticatedHasSocket == Spec => []AuthenticatedIsUp
  <1>1. IInv => AuthenticatedIsUp BY DEF IInv
  <1> QED BY <1>1, Invariant, PTL
=============================================================================
