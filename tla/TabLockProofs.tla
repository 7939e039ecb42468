--------------------------- MODULE TabLockProofs ---------------------------
(***************************************************************************)
(* What is proved of the tab lock, for any tabs, Sessions and requests: a  *)
(* tab at rest that calls itself the owner holds the lock, and therefore   *)
(* no two tabs at rest both own a Session.                                 *)
(*                                                                         *)
(* The invariant follows a request from its grant to its end: while the    *)
(* promise of a granted request is pending the request holds the lock, and *)
(* a tab can call itself the owner only by the request that owns its       *)
(* generation, which nothing but dispose() or a steal can end.             *)
(***************************************************************************)
EXTENDS TabLock, TLAPS

Granted(r) == requests[r].callback \in {"lock", "done"} /\ requests[r].outer = "pending"

\* What is true of every request.
Grants ==
    \A r \in Made :
        /\ Granted(r) => holder[requests[r].key] = r
        /\ requests[r].outer = "handled" => requests[r].callback = "done"
        /\ requests[r].inner => requests[r].voluntary

\* What is true of a tab, by the request that owns its generation.
Owners ==
    \A t \in Tabs :
        /\ release[t] # 0 => requests[release[t]].tab = t
        /\ generation[t] # 0 => ~requests[generation[t]].inner
        /\ generation[t] # 0 /\ requests[generation[t]].voluntary => state[t] # "owner"
        /\ generation[t] # 0 /\ requests[generation[t]].voluntary
             => requests[generation[t]].callback = "done"
        /\ state[t] = "owner" => generation[t] # 0
        /\ t \in open /\ state[t] = "owner" => requests[generation[t]].outer # "handled"

IInv == TypeOK /\ Grants /\ Owners

\* No two tabs at rest both take themselves for the owner of one Session.
OneOwner ==
    \A t, u \in Tabs :
        /\ Resting(t) /\ state[t] = "owner"
        /\ Resting(u) /\ state[u] = "owner"
        /\ session[t] = session[u]
        => t = u
-----------------------------------------------------------------------------
(* Requests *)

\* What the types say of numbers and requests.
LEMMA Basics ==
  ASSUME TypeOK
  PROVE  /\ made \in Nat /\ made <= MaxRequests /\ 0 \notin Made
         /\ \A r \in Made : /\ requests[r] \in RequestRecords /\ requests[r].tab \in Tabs
                            /\ requests[r].key \in Sessions
         /\ \A t \in Tabs : /\ generation[t] # 0 => generation[t] \in Made
                            /\ release[t] # 0 => release[t] \in Made
                            /\ generation[t] # 0 =>
                                 /\ requests[generation[t]].tab = t
                                 /\ requests[generation[t]].key = session[t]
  BY TabAssumption DEF TypeOK, Made, RequestRecords

\* The part of TypeOK that looks at the requests of the generations.
GenerationsTyped ==
    \A t \in Tabs : generation[t] # 0 =>
        requests[generation[t]].tab = t /\ requests[generation[t]].key = session[t]

RestTyped ==
    /\ session \in [Tabs -> Sessions \cup {NoSession}]
    /\ state \in [Tabs -> Kinds]
    /\ generation \in [Tabs -> 0..made]
    /\ release \in [Tabs -> 0..made]
    /\ made \in 0..MaxRequests
    /\ holder \in [Sessions -> 0..made]
    /\ open \subseteq Tabs

\* TypeOK in three parts.
LEMMA TypeParts ==
  TypeOK <=> RestTyped /\ requests \in [Made -> RequestRecords] /\ GenerationsTyped
  BY DEF TypeOK, RestTyped, GenerationsTyped

\* The same after a step.
LEMMA TypePartsNext ==
  RestTyped' /\ (requests \in [Made -> RequestRecords])' /\ GenerationsTyped' => TypeOK'
  BY DEF TypeOK, RestTyped, GenerationsTyped

\* A step that changes one request.
LEMMA OneRequest ==
  ASSUME TypeOK, NEW r \in Made, NEW q \in RequestRecords,
         requests' = [requests EXCEPT ![r] = q], made' = made
  PROVE  /\ (requests \in [Made -> RequestRecords])' /\ Made' = Made
         /\ requests'[r] = q
         /\ \A p \in Made : p # r => requests'[p] = requests[p]
  BY DEF TypeOK, Made

\* A callback or a settlement is told to the tab whose generation it still is.
LEMMA ToldTyped ==
  ASSUME TypeOK, NEW r \in Made, NEW b, NEW k \in Kinds, TellIf(b, r, k)
  PROVE  /\ state' \in [Tabs -> Kinds]
         /\ \A t \in Tabs : t # requests[r].tab => state'[t] = state[t]
         /\ b => state'[requests[r].tab] = k
         /\ ~b => state' = state
  BY Basics DEF TypeOK, TellIf

\* The callback of a request runs, and perhaps its promise settles.
LEMMA CallbackTyped ==
  ASSUME NEW x \in RequestRecords, NEW c \in {"waiting", "null", "lock", "done"}
  PROVE  [x EXCEPT !.callback = c] \in RequestRecords
  BY DEF RequestRecords

\* The promise of a request settles.
LEMMA OuterTyped ==
  ASSUME NEW x \in RequestRecords, NEW o \in {"pending", "resolved", "rejected", "handled"}
  PROVE  [x EXCEPT !.outer = o] \in RequestRecords
  BY DEF RequestRecords

\* Both at once.
LEMMA SettledTyped ==
  ASSUME NEW x \in RequestRecords, NEW c \in {"waiting", "null", "lock", "done"},
         NEW o \in {"pending", "resolved", "rejected", "handled"}
  PROVE  [x EXCEPT !.callback = c, !.outer = o] \in RequestRecords
  <1>1. [x EXCEPT !.callback = c] \in RequestRecords BY CallbackTyped
  <1>2. [[x EXCEPT !.callback = c] EXCEPT !.outer = o] \in RequestRecords BY <1>1, OuterTyped
  <1>3. [x EXCEPT !.callback = c, !.outer = o] = [[x EXCEPT !.callback = c] EXCEPT !.outer = o]
    OBVIOUS
  <1> QED BY <1>2, <1>3

\* The callback that finds no lock.
LEMMA NullTyped ==
  ASSUME NEW x \in RequestRecords
  PROVE  [x EXCEPT !.callback = "done", !.voluntary = TRUE, !.outer = "resolved"]
            \in RequestRecords
  <1> DEFINE y == [x EXCEPT !.callback = "done"]
             z == [y EXCEPT !.voluntary = TRUE]
  <1>1. y \in RequestRecords BY CallbackTyped
  <1> HIDE DEF y
  <1>2. z \in RequestRecords BY <1>1 DEF RequestRecords
  <1> HIDE DEF z
  <1>3. [z EXCEPT !.outer = "resolved"] \in RequestRecords BY <1>2, OuterTyped
  <1>4. [x EXCEPT !.callback = "done", !.voluntary = TRUE, !.outer = "resolved"]
           = [z EXCEPT !.outer = "resolved"]
    BY DEF y, z
  <1> QED BY <1>3, <1>4

\* release() of a request.
LEMMA ReleasedTyped ==
  ASSUME NEW x \in RequestRecords
  PROVE  [x EXCEPT !.voluntary = TRUE, !.inner = TRUE] \in RequestRecords
  <1> DEFINE y == [x EXCEPT !.voluntary = TRUE]
  <1>1. y \in RequestRecords BY DEF RequestRecords
  <1> HIDE DEF y
  <1>2. [y EXCEPT !.inner = TRUE] \in RequestRecords BY <1>1 DEF RequestRecords
  <1>3. [x EXCEPT !.voluntary = TRUE, !.inner = TRUE] = [y EXCEPT !.inner = TRUE] BY DEF y
  <1> QED BY <1>2, <1>3

\* The first state.
LEMMA InitHolds == Init => IInv
  <1> SUFFICES ASSUME Init PROVE IInv OBVIOUS
  <1>1. Made = {} /\ made \in 0..MaxRequests BY TabAssumption DEF Init, Made
  <1>2. requests \in [Made -> RequestRecords]
    <2>1. requests = [r \in {} |-> 0] BY DEF Init
    <2> QED BY <1>1, <2>1
  <1>3. TypeOK BY <1>1, <1>2 DEF Init, TypeOK, Kinds
  <1> QED BY <1>1, <1>3 DEF Init, IInv, Grants, Owners
-----------------------------------------------------------------------------
(* The browser *)

\* A request of a tab is decided, refused or released.
LEMMA BrowserKeeps ==
  ASSUME IInv, Browser
  PROVE  IInv'
  <1>0. TypeOK /\ made' = made /\ UNCHANGED <<session, state, generation, release, open>>
    BY DEF IInv, Browser, Decide, Steal, Refused, Released
  <1>1. ASSUME NEW r \in Made, Decide(r) PROVE IInv'
    <2> DEFINE k == requests[r].key
    <2>0. k \in Sessions /\ r \in 0..made BY <1>0, Basics DEF Made
    <2>1. CASE holder[k] = 0
      <3> DEFINE q == [requests[r] EXCEPT !.callback = "lock"]
      <3>1. requests' = [requests EXCEPT ![r] = q] /\ holder' = [holder EXCEPT ![k] = r]
        BY <1>1, <2>1 DEF Decide
      <3>2. q \in RequestRecords BY <1>0, Basics DEF RequestRecords
      <3>3. /\ q.tab = requests[r].tab /\ q.key = requests[r].key /\ q.inner = requests[r].inner
            /\ q.voluntary = requests[r].voluntary /\ q.callback = "lock"
            /\ q.outer = requests[r].outer
        BY <1>0, Basics DEF RequestRecords
      <3>4. requests[r].callback = "waiting" BY <1>1 DEF Decide
      <3> HIDE DEF q
      <3>5. /\ (requests \in [Made -> RequestRecords])' /\ Made' = Made
            /\ requests'[r] = q /\ \A p \in Made : p # r => requests'[p] = requests[p]
        BY <1>0, <3>1, <3>2, OneRequest
      <3>6. holder' \in [Sessions -> 0..made] BY <1>0, <2>0, <3>1 DEF TypeOK
      <3>7. TypeOK'
        <4>1. RestTyped' BY <1>0, <3>6, TypeParts DEF RestTyped
        <4>2. GenerationsTyped' BY <1>0, <3>3, <3>5, Basics DEF GenerationsTyped
        <4> QED BY <3>5, <4>1, <4>2, TypePartsNext
      <3>8. Grants'
        <4> SUFFICES ASSUME NEW p \in Made'
                     PROVE  /\ Granted(p)' => holder'[requests'[p].key] = p
                            /\ requests'[p].outer = "handled" => requests'[p].callback = "done"
                            /\ requests'[p].inner => requests'[p].voluntary
          BY DEF Grants
        <4>1. CASE p = r
          BY <1>0, <2>0, <3>1, <3>3, <3>4, <3>5, <4>1 DEF IInv, Grants, TypeOK
        <4>2. CASE p # r
          <5>1. Granted(p) => holder[requests[p].key] = p /\ requests[p].key # k
            BY <1>0, <2>1, <3>5, <4>2, Basics DEF IInv, Grants
          <5>2. requests[p].key \in Sessions BY <1>0, <3>5, Basics
          <5> QED BY <1>0, <2>0, <3>1, <3>5, <4>2, <5>1, <5>2 DEF IInv, Grants, Granted, TypeOK
        <4> QED BY <4>1, <4>2
      <3>9. Owners'
        BY <1>0, <3>3, <3>4, <3>5, Basics DEF IInv, Owners
      <3> QED BY <3>7, <3>8, <3>9 DEF IInv
    <2>2. CASE holder[k] # 0
      <3> DEFINE q == [requests[r] EXCEPT !.callback = "null"]
      <3>1. requests' = [requests EXCEPT ![r] = q] /\ holder' = holder
        BY <1>1, <2>2 DEF Decide
      <3>2. q \in RequestRecords BY <1>0, Basics DEF RequestRecords
      <3>3. /\ q.tab = requests[r].tab /\ q.key = requests[r].key /\ q.inner = requests[r].inner
            /\ q.voluntary = requests[r].voluntary /\ q.callback = "null"
            /\ q.outer = requests[r].outer
        BY <1>0, Basics DEF RequestRecords
      <3>4. requests[r].callback = "waiting" BY <1>1 DEF Decide
      <3> HIDE DEF q
      <3>5. /\ (requests \in [Made -> RequestRecords])' /\ Made' = Made
            /\ requests'[r] = q /\ \A p \in Made : p # r => requests'[p] = requests[p]
        BY <1>0, <3>1, <3>2, OneRequest
      <3>7. TypeOK'
        <4>1. RestTyped' BY <1>0, <3>1, TypeParts DEF RestTyped
        <4>2. GenerationsTyped' BY <1>0, <3>3, <3>5, Basics DEF GenerationsTyped
        <4> QED BY <3>5, <4>1, <4>2, TypePartsNext
      <3>8. Grants' BY <1>0, <3>1, <3>3, <3>4, <3>5 DEF IInv, Grants, Granted
      <3>9. Owners' BY <1>0, <3>3, <3>4, <3>5, Basics DEF IInv, Owners
      <3> QED BY <3>7, <3>8, <3>9 DEF IInv
    <2> QED BY <2>1, <2>2
  <1>2. ASSUME NEW r \in Made, Refused(r) PROVE IInv'
    <2> DEFINE q == [requests[r] EXCEPT !.callback = "done", !.outer = "rejected"]
    <2>1. requests' = [requests EXCEPT ![r] = q] /\ holder' = holder
          /\ requests[r].callback = "waiting"
      BY <1>2 DEF Refused
    <2>2. q \in RequestRecords BY <1>0, Basics, SettledTyped
    <2>3. /\ q.tab = requests[r].tab /\ q.key = requests[r].key /\ q.inner = requests[r].inner
          /\ q.voluntary = requests[r].voluntary /\ q.callback = "done" /\ q.outer = "rejected"
      BY <1>0, Basics DEF RequestRecords
    <2> HIDE DEF q
    <2>5. /\ (requests \in [Made -> RequestRecords])' /\ Made' = Made
          /\ requests'[r] = q /\ \A p \in Made : p # r => requests'[p] = requests[p]
      BY <1>0, <2>1, <2>2, OneRequest
    <2>7. TypeOK'
      <3>1. RestTyped' BY <1>0, <2>1, TypeParts DEF RestTyped
      <3>2. GenerationsTyped' BY <1>0, <2>3, <2>5, Basics DEF GenerationsTyped
      <3> QED BY <2>5, <3>1, <3>2, TypePartsNext
    <2>8. Grants' BY <1>0, <2>1, <2>3, <2>5 DEF IInv, Grants, Granted
    <2>9. Owners' BY <1>0, <2>1, <2>3, <2>5, Basics DEF IInv, Owners
    <2> QED BY <2>7, <2>8, <2>9 DEF IInv
  <1>3. ASSUME NEW r \in Made, Released(r) PROVE IInv'
    <2> DEFINE q == [requests[r] EXCEPT !.outer = "resolved"]
    <2>1. /\ requests' = [requests EXCEPT ![r] = q]
          /\ holder' = [k \in Sessions |-> IF holder[k] = r THEN 0 ELSE holder[k]]
      BY <1>3 DEF Released
    <2>2. q \in RequestRecords BY <1>0, Basics DEF RequestRecords
    <2>3. /\ q.tab = requests[r].tab /\ q.key = requests[r].key /\ q.inner = requests[r].inner
          /\ q.voluntary = requests[r].voluntary /\ q.callback = requests[r].callback
          /\ q.outer = "resolved"
      BY <1>0, Basics DEF RequestRecords
    <2> HIDE DEF q
    <2>5. /\ (requests \in [Made -> RequestRecords])' /\ Made' = Made
          /\ requests'[r] = q /\ \A p \in Made : p # r => requests'[p] = requests[p]
      BY <1>0, <2>1, <2>2, OneRequest
    <2>6. holder' \in [Sessions -> 0..made] BY <1>0, <2>1, Basics DEF TypeOK
    <2>7. TypeOK'
      <3>1. RestTyped' BY <1>0, <2>6, TypeParts DEF RestTyped
      <3>2. GenerationsTyped' BY <1>0, <2>3, <2>5, Basics DEF GenerationsTyped
      <3> QED BY <2>5, <3>1, <3>2, TypePartsNext
    <2>8. Grants'
      BY <1>0, <2>1, <2>3, <2>5, Basics DEF IInv, Grants, Granted
    <2>9. Owners' BY <1>0, <2>1, <2>3, <2>5, Basics DEF IInv, Owners
    <2> QED BY <2>7, <2>8, <2>9 DEF IInv
  <1>4. ASSUME NEW r \in Made, Steal(r) PROVE IInv'
    <2> DEFINE k == requests[r].key
    <2>0. k \in Sessions /\ r \in 0..made BY <1>0, Basics DEF Made
    <2>1. PICK outcome \in {"resolved", "rejected"} :
            requests' = [q \in Made |->
                  IF q = r THEN [requests[q] EXCEPT !.callback = "lock"]
                  ELSE IF q = holder[k] /\ requests[q].outer = "pending"
                  THEN [requests[q] EXCEPT !.outer = outcome] ELSE requests[q]]
      BY <1>4 DEF Steal
    <2>2. holder' = [holder EXCEPT ![k] = r] /\ requests[r].callback = "waiting"
      BY <1>4 DEF Steal
    <2>3. Made' = Made BY <1>0 DEF Made
    <2>4. \A q \in Made :
            /\ requests'[q] \in RequestRecords
            /\ requests'[q].tab = requests[q].tab /\ requests'[q].key = requests[q].key
            /\ requests'[q].inner = requests[q].inner
            /\ requests'[q].voluntary = requests[q].voluntary
            /\ requests'[q].callback = IF q = r THEN "lock" ELSE requests[q].callback
            /\ requests'[q].outer = IF q # r /\ q = holder[k] /\ requests[q].outer = "pending"
                                    THEN outcome ELSE requests[q].outer
      BY <1>0, <2>1, Basics DEF RequestRecords
    <2>5. (requests \in [Made -> RequestRecords])' BY <2>1, <2>3, <2>4
    <2>6. holder' \in [Sessions -> 0..made] BY <1>0, <2>0, <2>2 DEF TypeOK
    <2>7. TypeOK'
      <3>1. RestTyped' BY <1>0, <2>6, TypeParts DEF RestTyped
      <3>2. GenerationsTyped' BY <1>0, <2>4, Basics DEF GenerationsTyped
      <3> QED BY <2>5, <3>1, <3>2, TypePartsNext
    <2>8. Grants'
      <3> SUFFICES ASSUME NEW p \in Made
                   PROVE  /\ Granted(p)' => holder'[requests'[p].key] = p
                          /\ requests'[p].outer = "handled" => requests'[p].callback = "done"
                          /\ requests'[p].inner => requests'[p].voluntary
        BY <2>3 DEF Grants
      <3>1. requests'[p].outer = "handled" => requests'[p].callback = "done"
        BY <2>2, <2>4 DEF IInv, Grants
      <3>2. requests'[p].inner => requests'[p].voluntary BY <2>4 DEF IInv, Grants
      <3>3. CASE p = r BY <1>0, <2>0, <2>2, <2>4, <3>1, <3>2, <3>3 DEF TypeOK
      <3>4. CASE p # r
        <4>1. ASSUME Granted(p)' PROVE holder'[requests'[p].key] = p
          <5>1. requests[p].callback \in {"lock", "done"} /\ requests[p].outer = "pending"
                /\ p # holder[k]
            BY <2>4, <3>4, <4>1 DEF Granted
          <5>2. holder[requests[p].key] = p BY <5>1 DEF IInv, Grants, Granted
          <5>3. requests[p].key # k /\ requests[p].key \in Sessions BY <1>0, <5>1, <5>2, Basics
          <5> QED BY <1>0, <2>2, <2>4, <5>2, <5>3 DEF TypeOK
        <4> QED BY <3>1, <3>2, <4>1
      <3> QED BY <3>3, <3>4
    <2>9. Owners'
      BY <1>0, <2>2, <2>4, Basics DEF IInv, Owners
    <2> QED BY <2>7, <2>8, <2>9 DEF IInv
  <1> QED BY <1>1, <1>2, <1>3, <1>4 DEF Browser
-----------------------------------------------------------------------------
(* The controller *)

\* What a step that changes one request, and tells its tab, has to show.
LEMMA TypedStep ==
  ASSUME TypeOK, NEW r \in Made, NEW q \in RequestRecords,
         q.tab = requests[r].tab, q.key = requests[r].key,
         requests' = [requests EXCEPT ![r] = q],
         state' \in [Tabs -> Kinds], release' \in [Tabs -> 0..made],
         UNCHANGED <<session, generation, made, holder, open>>
  PROVE  TypeOK'
  <1>1. /\ (requests \in [Made -> RequestRecords])' /\ Made' = Made
        /\ requests'[r] = q /\ \A p \in Made : p # r => requests'[p] = requests[p]
    BY OneRequest
  <1>2. RestTyped' BY TypeParts DEF RestTyped
  <1>3. GenerationsTyped' BY <1>1, Basics DEF GenerationsTyped
  <1> QED BY <1>1, <1>2, <1>3, TypePartsNext

\* Callbacks and settlements.
LEMMA ControllerKeeps ==
  ASSUME IInv, Controller
  PROVE  IInv'
  <1>0. TypeOK /\ UNCHANGED <<session, generation, made, holder, open>>
    BY DEF IInv, Controller, CallbackNull, CallbackLock, OuterResolved, OuterRejected
  <1>00. release \in [Tabs -> 0..made] /\ state \in [Tabs -> Kinds] BY <1>0 DEF TypeOK
  <1>1. ASSUME NEW r \in Made, CallbackNull(r) PROVE IInv'
    <2> DEFINE q == [requests[r] EXCEPT !.callback = "done", !.voluntary = TRUE,
                                        !.outer = "resolved"]
               t == requests[r].tab
    <2>1. requests' = [requests EXCEPT ![r] = q] /\ release' = release
          /\ TellIf(Mine(r), r, "held-elsewhere")
      BY <1>1 DEF CallbackNull
    <2>2. q \in RequestRecords BY <1>0, Basics, NullTyped
    <2>3. /\ q.tab = t /\ q.key = requests[r].key /\ q.inner = requests[r].inner
          /\ q.voluntary /\ q.callback = "done" /\ q.outer = "resolved"
      BY <1>0, Basics DEF RequestRecords
    <2> HIDE DEF q
    <2>4. /\ Made' = Made /\ requests'[r] = q
          /\ \A p \in Made : p # r => requests'[p] = requests[p]
      BY <1>0, <2>1, <2>2, OneRequest
    <2>5. /\ state' \in [Tabs -> Kinds] /\ \A u \in Tabs : u # t => state'[u] = state[u]
          /\ Mine(r) => state'[t] = "held-elsewhere"
          /\ ~Mine(r) => state' = state
      BY <1>0, <2>1, ToldTyped DEF Kinds
    <2>6. TypeOK' BY <1>0, <1>00, <2>1, <2>2, <2>3, <2>5, TypedStep
    <2>7. Grants' BY <1>0, <2>3, <2>4 DEF IInv, Grants, Granted
    <2>8. Owners'
      <3> SUFFICES ASSUME NEW u \in Tabs
                   PROVE  /\ release[u] # 0 => requests'[release[u]].tab = u
                          /\ generation[u] # 0 => ~requests'[generation[u]].inner
                          /\ generation[u] # 0 /\ requests'[generation[u]].voluntary
                               => state'[u] # "owner"
                          /\ generation[u] # 0 /\ requests'[generation[u]].voluntary
                               => requests'[generation[u]].callback = "done"
                          /\ state'[u] = "owner" => generation[u] # 0
                          /\ u \in open /\ state'[u] = "owner"
                               => requests'[generation[u]].outer # "handled"
        BY <1>0, <2>1 DEF Owners
      <3>1. CASE generation[u] = r
        <4>1. t = u /\ Mine(r) BY <1>0, <3>1, Basics DEF Mine
        <4> QED BY <1>0, <2>3, <2>4, <2>5, <3>1, <4>1, Basics DEF IInv, Owners
      <3>2. CASE generation[u] # r
        <4>1. state'[u] = state[u] BY <2>5, <3>2 DEF Mine
        <4> QED BY <1>0, <2>3, <2>4, <3>2, <4>1, Basics DEF IInv, Owners
      <3> QED BY <3>1, <3>2
    <2> QED BY <2>6, <2>7, <2>8 DEF IInv
  <1>2. ASSUME NEW r \in Made, CallbackLock(r) PROVE IInv'
    <2> DEFINE q == [requests[r] EXCEPT !.callback = "done"]
               t == requests[r].tab
    <2>0. t \in Tabs /\ r \in 0..made /\ r # 0 BY <1>0, Basics DEF Made
    <2>1. requests' = [requests EXCEPT ![r] = q] /\ release' = [release EXCEPT ![t] = r]
          /\ TellIf(Mine(r), r, "owner") /\ requests[r].callback = "lock"
      BY <1>2 DEF CallbackLock
    <2>2. q \in RequestRecords BY <1>0, Basics, CallbackTyped
    <2>3. /\ q.tab = t /\ q.key = requests[r].key /\ q.inner = requests[r].inner
          /\ q.voluntary = requests[r].voluntary /\ q.callback = "done"
          /\ q.outer = requests[r].outer
      BY <1>0, Basics DEF RequestRecords
    <2> HIDE DEF q
    <2>4. /\ Made' = Made /\ requests'[r] = q
          /\ \A p \in Made : p # r => requests'[p] = requests[p]
      BY <1>0, <2>1, <2>2, OneRequest
    <2>5. /\ state' \in [Tabs -> Kinds] /\ \A u \in Tabs : u # t => state'[u] = state[u]
          /\ Mine(r) => state'[t] = "owner"
          /\ ~Mine(r) => state' = state
      BY <1>0, <2>1, ToldTyped DEF Kinds
    <2>50. /\ release' \in [Tabs -> 0..made] /\ release'[t] = r
           /\ \A u \in Tabs : u # t => release'[u] = release[u]
      BY <1>00, <2>0, <2>1
    <2>6. TypeOK' BY <1>0, <2>1, <2>2, <2>3, <2>5, <2>50, TypedStep
    <2>7. Grants'
      BY <1>0, <2>1, <2>3, <2>4 DEF IInv, Grants, Granted
    <2>8. Owners'
      <3> SUFFICES ASSUME NEW u \in Tabs
                   PROVE  /\ release'[u] # 0 => requests'[release'[u]].tab = u
                          /\ generation[u] # 0 => ~requests'[generation[u]].inner
                          /\ generation[u] # 0 /\ requests'[generation[u]].voluntary
                               => state'[u] # "owner"
                          /\ generation[u] # 0 /\ requests'[generation[u]].voluntary
                               => requests'[generation[u]].callback = "done"
                          /\ state'[u] = "owner" => generation[u] # 0
                          /\ u \in open /\ state'[u] = "owner"
                               => requests'[generation[u]].outer # "handled"
        BY <1>0 DEF Owners
      <3>0. release'[u] # 0 => requests'[release'[u]].tab = u
        BY <1>0, <2>0, <2>3, <2>4, <2>50, Basics DEF IInv, Owners
      <3>1. CASE generation[u] = r
        <4>1. t = u /\ Mine(r) BY <1>0, <2>0, <3>1, Basics DEF Mine
        <4>2. ~requests[r].voluntary /\ requests[r].outer # "handled"
          BY <2>0, <2>1, <3>1 DEF IInv, Owners, Grants
        <4> QED BY <2>0, <2>3, <2>4, <2>5, <3>0, <3>1, <4>1, <4>2 DEF IInv, Owners
      <3>2. CASE generation[u] # r
        <4>1. state'[u] = state[u] BY <2>5, <3>2 DEF Mine
        <4> QED BY <1>0, <2>4, <3>0, <3>2, <4>1, Basics DEF IInv, Owners
      <3> QED BY <3>1, <3>2
    <2> QED BY <2>6, <2>7, <2>8 DEF IInv
  <1>3. ASSUME NEW r \in Made, OuterResolved(r) \/ OuterRejected(r) PROVE IInv'
    <2> DEFINE q == [requests[r] EXCEPT !.outer = "handled"]
               t == requests[r].tab
    <2>0. t \in Tabs /\ r # 0 BY <1>0, Basics DEF Made
    <2>1. /\ requests' = [requests EXCEPT ![r] = q]
          /\ requests[r].callback = "done"
      BY <1>3 DEF OuterResolved, OuterRejected
    <2>10. /\ state' \in [Tabs -> Kinds] /\ \A u \in Tabs : u # t => state'[u] = state[u]
           /\ Mine(r) => (requests[r].voluntary /\ state' = state) \/ state'[t] = "held-elsewhere"
           /\ ~Mine(r) => state' = state
      <3>1. CASE OuterResolved(r)
        <4>1. TellIf(~requests[r].voluntary /\ Mine(r), r, "held-elsewhere")
          BY <3>1 DEF OuterResolved
        <4> QED BY <1>0, <4>1, ToldTyped DEF Kinds
      <3>2. CASE OuterRejected(r)
        <4>1. TellIf(Mine(r), r, "held-elsewhere") BY <3>2 DEF OuterRejected
        <4> QED BY <1>0, <4>1, ToldTyped DEF Kinds
      <3> QED BY <1>3, <3>1, <3>2
    <2>11. /\ release' \in [Tabs -> 0..made]
           /\ \A u \in Tabs : release'[u] \in {0, release[u]}
      <3>1. CASE OuterResolved(r)
        <4>1. release' = [release EXCEPT ![t] = 0] BY <3>1 DEF OuterResolved
        <4>2. 0 \in 0..made BY <1>0, Basics
        <4> QED BY <1>00, <2>0, <4>1, <4>2
      <3>2. CASE OuterRejected(r) BY <1>00, <3>2 DEF OuterRejected
      <3> QED BY <1>3, <3>1, <3>2
    <2>2. q \in RequestRecords BY <1>0, Basics, OuterTyped
    <2>3. /\ q.tab = t /\ q.key = requests[r].key /\ q.inner = requests[r].inner
          /\ q.voluntary = requests[r].voluntary /\ q.callback = requests[r].callback
          /\ q.outer = "handled"
      BY <1>0, Basics DEF RequestRecords
    <2> HIDE DEF q
    <2>4. /\ Made' = Made /\ requests'[r] = q
          /\ \A p \in Made : p # r => requests'[p] = requests[p]
      BY <1>0, <2>1, <2>2, OneRequest
    <2>6. TypeOK' BY <1>0, <2>1, <2>2, <2>3, <2>10, <2>11, TypedStep
    <2>7. Grants' BY <1>0, <2>1, <2>3, <2>4 DEF IInv, Grants, Granted
    <2>8. Owners'
      <3> SUFFICES ASSUME NEW u \in Tabs
                   PROVE  /\ release'[u] # 0 => requests'[release'[u]].tab = u
                          /\ generation[u] # 0 => ~requests'[generation[u]].inner
                          /\ generation[u] # 0 /\ requests'[generation[u]].voluntary
                               => state'[u] # "owner"
                          /\ generation[u] # 0 /\ requests'[generation[u]].voluntary
                               => requests'[generation[u]].callback = "done"
                          /\ state'[u] = "owner" => generation[u] # 0
                          /\ u \in open /\ state'[u] = "owner"
                               => requests'[generation[u]].outer # "handled"
        BY <1>0 DEF Owners
      <3>0. release'[u] # 0 => requests'[release'[u]].tab = u
        BY <1>0, <2>3, <2>4, <2>11, Basics DEF IInv, Owners
      <3>1. CASE generation[u] = r
        <4>1. t = u /\ Mine(r) BY <1>0, <2>0, <3>1, Basics DEF Mine
        <4>2. state'[u] # "owner"
          BY <2>0, <2>10, <3>1, <4>1 DEF IInv, Owners
        <4> QED BY <2>0, <2>1, <2>3, <2>4, <3>0, <3>1, <4>2 DEF IInv, Owners
      <3>2. CASE generation[u] # r
        <4>1. state'[u] = state[u] BY <2>10, <3>2 DEF Mine
        <4> QED BY <1>0, <2>4, <3>0, <3>2, <4>1, Basics DEF IInv, Owners
      <3> QED BY <3>1, <3>2
    <2> QED BY <2>6, <2>7, <2>8 DEF IInv
  <1> QED BY <1>1, <1>2, <1>3 DEF Controller
-----------------------------------------------------------------------------
(* The user *)

\* The cleanup releases at most the kept request.
LEMMA DisposedTyped ==
  ASSUME IInv, NEW t \in Tabs
  PROVE  /\ Disposed(t) \in [Made -> RequestRecords]
         /\ \A r \in Made :
              /\ Disposed(t)[r].tab = requests[r].tab /\ Disposed(t)[r].key = requests[r].key
              /\ Disposed(t)[r].callback = requests[r].callback
              /\ Disposed(t)[r].outer = requests[r].outer
              /\ Disposed(t)[r].inner => Disposed(t)[r].voluntary
              /\ requests[r].tab # t => Disposed(t)[r] = requests[r]
  <1>0. TypeOK BY DEF IInv
  <1>1. ASSUME NEW r \in Made
        PROVE  /\ Disposed(t)[r] \in RequestRecords
               /\ Disposed(t)[r].tab = requests[r].tab /\ Disposed(t)[r].key = requests[r].key
               /\ Disposed(t)[r].callback = requests[r].callback
               /\ Disposed(t)[r].outer = requests[r].outer
               /\ Disposed(t)[r].inner => Disposed(t)[r].voluntary
               /\ requests[r].tab # t => Disposed(t)[r] = requests[r]
    <2>1. requests[r] \in RequestRecords BY <1>0, Basics
    <2>2. CASE HasCleanup(t) /\ r = release[t]
      <3> DEFINE q == [requests[r] EXCEPT !.voluntary = TRUE, !.inner = TRUE]
      <3>1. Disposed(t)[r] = q BY <2>2 DEF Disposed
      <3>2. q \in RequestRecords BY <2>1, ReleasedTyped
      <3>3. /\ q.tab = requests[r].tab /\ q.key = requests[r].key /\ q.voluntary
            /\ q.callback = requests[r].callback /\ q.outer = requests[r].outer
        BY <2>1 DEF RequestRecords
      <3> HIDE DEF q
      <3>4. requests[r].tab = t BY <1>0, <2>2, Basics DEF IInv, Owners
      <3> QED BY <3>1, <3>2, <3>3, <3>4
    <2>3. CASE ~(HasCleanup(t) /\ r = release[t])
      <3>1. Disposed(t)[r] = requests[r] BY <2>3 DEF Disposed
      <3> QED BY <2>1, <3>1 DEF IInv, Grants
    <2> QED BY <2>2, <2>3
  <1>2. Disposed(t) = [r \in Made |-> Disposed(t)[r]] BY DEF Disposed
  <1> QED BY <1>1, <1>2

\* A new request is numbered, waits, and owns the generation of its tab.
LEMMA Acquired ==
  ASSUME TypeOK, NEW t \in Tabs, NEW k \in Sessions, NEW steal \in BOOLEAN,
         NEW before \in [Made -> RequestRecords], Acquire(t, k, steal, before)
  PROVE  /\ made' = made + 1 /\ made' \in 0..MaxRequests
         /\ Made' = Made \cup {made'} /\ made' \notin Made /\ made' # 0
         /\ requests' \in [Made' -> RequestRecords]
         /\ \A r \in Made : requests'[r] = before[r]
         /\ requests'[made'].tab = t /\ requests'[made'].key = k
         /\ requests'[made'].callback = "waiting" /\ requests'[made'].outer = "pending"
         /\ ~requests'[made'].voluntary /\ ~requests'[made'].inner
         /\ generation' \in [Tabs -> 0..made'] /\ generation'[t] = made'
         /\ \A u \in Tabs : u # t => generation'[u] = generation[u]
  <1> DEFINE q == [tab |-> t, key |-> k, steal |-> steal, voluntary |-> FALSE,
                   callback |-> "waiting", inner |-> FALSE, outer |-> "pending"]
  <1>1. made' = made + 1 /\ made < MaxRequests /\ made \in Nat /\ MaxRequests \in Nat
    BY Basics, TabAssumption DEF Acquire
  <1>2. Made' = 1..made' /\ Made' = Made \cup {made'} /\ made' \notin Made /\ made' # 0
    BY <1>1 DEF Made
  <1>3. requests' = [r \in 1..made' |-> IF r \in Made THEN before[r] ELSE q]
    BY DEF Acquire
  <1>4. q \in RequestRecords BY DEF RequestRecords
  <1>5. q.tab = t /\ q.key = k /\ q.callback = "waiting" /\ q.outer = "pending"
        /\ ~q.voluntary /\ ~q.inner
    OBVIOUS
  <1> HIDE DEF q
  <1>6. requests' \in [Made' -> RequestRecords] BY <1>2, <1>3, <1>4
  <1>7. (\A r \in Made : requests'[r] = before[r]) /\ requests'[made'] = q BY <1>2, <1>3
  <1>8. generation' = [generation EXCEPT ![t] = made'] /\ generation \in [Tabs -> 0..made]
    BY DEF Acquire, TypeOK
  <1>9. made' \in 0..made' /\ \A g \in 0..made : g \in 0..made' BY <1>1
  <1>10. generation' \in [Tabs -> 0..made'] /\ generation'[t] = made'
         /\ \A u \in Tabs : u # t => generation'[u] = generation[u]
    BY <1>8, <1>9
  <1>11. made' \in 0..MaxRequests BY <1>1
  <1> QED BY <1>1, <1>2, <1>5, <1>6, <1>7, <1>10, <1>11

\* Requests that differ from the present ones at most by a dispose() of tab t.
OnlyDisposed(before, t) ==
    \A r \in Made :
        /\ before[r].tab = requests[r].tab /\ before[r].key = requests[r].key
        /\ before[r].callback = requests[r].callback
        /\ before[r].outer = requests[r].outer
        /\ before[r].inner => before[r].voluntary
        /\ requests[r].tab # t => before[r] = requests[r]

\* What a new request does to the invariant, whatever was disposed of before it.
LEMMA AcquireKeeps ==
  ASSUME IInv, NEW t \in Tabs, NEW k \in Sessions, NEW steal \in BOOLEAN,
         NEW before \in [Made -> RequestRecords], Acquire(t, k, steal, before),
         OnlyDisposed(before, t),
         session' = [session EXCEPT ![t] = k], UNCHANGED <<state, holder, open>>,
         release' \in [Tabs -> 0..made], \A u \in Tabs : release'[u] \in {0, release[u]}
  PROVE  IInv'
  <1> USE DEF OnlyDisposed
  <1>0. TypeOK BY DEF IInv
  <1>1. /\ made' = made + 1 /\ made' \in 0..MaxRequests
        /\ Made' = Made \cup {made'} /\ made' \notin Made /\ made' # 0
        /\ requests' \in [Made' -> RequestRecords]
        /\ \A r \in Made : requests'[r] = before[r]
        /\ requests'[made'].tab = t /\ requests'[made'].key = k
        /\ requests'[made'].callback = "waiting" /\ requests'[made'].outer = "pending"
        /\ ~requests'[made'].voluntary /\ ~requests'[made'].inner
        /\ generation' \in [Tabs -> 0..made'] /\ generation'[t] = made'
        /\ \A u \in Tabs : u # t => generation'[u] = generation[u]
    BY <1>0, Acquired
  <1>2. session' \in [Tabs -> Sessions \cup {NoSession}] /\ session'[t] = k
        /\ \A u \in Tabs : u # t => session'[u] = session[u]
    BY <1>0 DEF TypeOK
  <1>3. made \in Nat /\ \A g \in 0..made : g \in 0..made' BY <1>0, <1>1, Basics
  <1>5. release' \in [Tabs -> 0..made'] /\ holder' \in [Sessions -> 0..made']
    BY <1>0, <1>3 DEF TypeOK
  <1>6. TypeOK'
    <2>1. RestTyped' BY <1>0, <1>1, <1>2, <1>5 DEF RestTyped, TypeOK
    <2>2. GenerationsTyped'
      <3> SUFFICES ASSUME NEW u \in Tabs, generation'[u] # 0
                   PROVE  requests'[generation'[u]].tab = u
                          /\ requests'[generation'[u]].key = session'[u]
        BY DEF GenerationsTyped
      <3>1. CASE u = t BY <1>1, <1>2, <3>1
      <3>2. CASE u # t BY <1>0, <1>1, <1>2, <3>2, Basics
      <3> QED BY <3>1, <3>2
    <2> QED BY <1>1, <2>1, <2>2, TypePartsNext
  <1>7. Grants'
    <2> SUFFICES ASSUME NEW p \in Made'
                 PROVE  /\ Granted(p)' => holder'[requests'[p].key] = p
                        /\ requests'[p].outer = "handled" => requests'[p].callback = "done"
                        /\ requests'[p].inner => requests'[p].voluntary
      BY DEF Grants
    <2>1. CASE p = made' BY <1>1, <2>1 DEF Granted
    <2>2. CASE p \in Made BY <1>1, <2>2 DEF IInv, Grants, Granted
    <2> QED BY <1>1, <2>1, <2>2
  <1>8. Owners'
    <2> SUFFICES ASSUME NEW u \in Tabs
                 PROVE  /\ release'[u] # 0 => requests'[release'[u]].tab = u
                        /\ generation'[u] # 0 => ~requests'[generation'[u]].inner
                        /\ generation'[u] # 0 /\ requests'[generation'[u]].voluntary
                             => state[u] # "owner"
                        /\ generation'[u] # 0 /\ requests'[generation'[u]].voluntary
                             => requests'[generation'[u]].callback = "done"
                        /\ state[u] = "owner" => generation'[u] # 0
                        /\ u \in open /\ state[u] = "owner"
                             => requests'[generation'[u]].outer # "handled"
      BY DEF Owners
    <2>1. release'[u] # 0 => requests'[release'[u]].tab = u
      BY <1>0, <1>1, Basics DEF IInv, Owners
    <2>2. CASE u = t BY <1>1, <2>1, <2>2
    <2>3. CASE u # t
      <3>1. generation'[u] = generation[u] BY <1>1, <2>3
      <3>2. generation[u] # 0 => requests'[generation[u]] = requests[generation[u]]
        BY <1>0, <1>1, <2>3, Basics
      <3> QED BY <2>1, <3>1, <3>2 DEF IInv, Owners
    <2> QED BY <2>2, <2>3
  <1> QED BY <1>6, <1>7, <1>8 DEF IInv

\* A tab shows another Session, takes one over, or is closed.
LEMMA UserKeeps ==
  ASSUME IInv, User
  PROVE  IInv'
  <1>0. TypeOK BY DEF IInv
  <1>1. ASSUME NEW t \in Tabs, NEW k \in Sessions, Switch(t, k) PROVE IInv'
    <2>1. /\ Acquire(t, k, FALSE, Disposed(t)) /\ UNCHANGED <<state, holder, open>>
          /\ session' = [session EXCEPT ![t] = k]
          /\ release' = IF HasCleanup(t) THEN [release EXCEPT ![t] = 0] ELSE release
      BY <1>1, TabAssumption DEF Switch
    <2>2. Disposed(t) \in [Made -> RequestRecords] /\ OnlyDisposed(Disposed(t), t)
      BY DisposedTyped DEF OnlyDisposed
    <2>3. release' \in [Tabs -> 0..made] /\ \A u \in Tabs : release'[u] \in {0, release[u]}
      <3>1. release \in [Tabs -> 0..made] /\ 0 \in 0..made BY <1>0, Basics DEF TypeOK
      <3> QED BY <2>1, <3>1
    <2> QED BY <2>1, <2>2, <2>3, AcquireKeeps
  <1>2. ASSUME NEW t \in Tabs, TakeOver(t) PROVE IInv'
    <2>1. /\ Acquire(t, session[t], TRUE, requests) /\ UNCHANGED <<state, holder, open>>
          /\ session' = session /\ release' = release /\ session[t] # NoSession
      BY <1>2 DEF TakeOver
    <2>2. session[t] \in Sessions /\ session' = [session EXCEPT ![t] = session[t]]
      BY <1>0, <2>1 DEF TypeOK
    <2>3. requests \in [Made -> RequestRecords] BY <1>0 DEF TypeOK
    <2>4. OnlyDisposed(requests, t) BY DEF IInv, Grants, OnlyDisposed
    <2>5. release' \in [Tabs -> 0..made] /\ \A u \in Tabs : release'[u] \in {0, release[u]}
      BY <1>0, <2>1 DEF TypeOK
    <2> QED BY <2>1, <2>2, <2>3, <2>4, <2>5, AcquireKeeps
  <1>3. ASSUME NEW t \in Tabs, Switch(t, NoSession) PROVE IInv'
    <2>1. /\ session' = [session EXCEPT ![t] = NoSession]
          /\ release' = [release EXCEPT ![t] = 0]
          /\ generation' = [generation EXCEPT ![t] = 0]
          /\ state' = [state EXCEPT ![t] = "unsupported"]
          /\ requests' = Disposed(t) /\ UNCHANGED <<made, holder, open>>
      BY <1>3 DEF Switch, HasCleanup
    <2>2. /\ requests' \in [Made -> RequestRecords] /\ Made' = Made
          /\ \A r \in Made :
              /\ requests'[r].tab = requests[r].tab /\ requests'[r].key = requests[r].key
              /\ requests'[r].callback = requests[r].callback
              /\ requests'[r].outer = requests[r].outer
              /\ requests'[r].inner => requests'[r].voluntary
              /\ requests[r].tab # t => requests'[r] = requests[r]
      BY <2>1, DisposedTyped DEF Made
    <2>3. 0 \in 0..made BY <1>0, Basics
    <2>4. \A u \in Tabs :
            /\ u = t => /\ release'[u] = 0 /\ generation'[u] = 0 /\ state'[u] = "unsupported"
            /\ u # t => /\ release'[u] = release[u] /\ generation'[u] = generation[u]
                        /\ state'[u] = state[u] /\ session'[u] = session[u]
      BY <1>0, <2>1 DEF TypeOK
    <2>5. /\ session' \in [Tabs -> Sessions \cup {NoSession}]
          /\ release' \in [Tabs -> 0..made] /\ generation' \in [Tabs -> 0..made]
      BY <1>0, <2>1, <2>3 DEF TypeOK
    <2>6. state' \in [Tabs -> Kinds] BY <1>0, <2>1 DEF TypeOK, Kinds
    <2>7. TypeOK'
      <3>1. RestTyped' BY <1>0, <2>1, <2>5, <2>6, TypeParts DEF RestTyped
      <3>2. GenerationsTyped' BY <1>0, <2>2, <2>4, Basics DEF GenerationsTyped
      <3> QED BY <2>2, <3>1, <3>2, TypePartsNext
    <2>8. Grants' BY <2>1, <2>2 DEF IInv, Grants, Granted
    <2>9. Owners'
      <3> SUFFICES ASSUME NEW u \in Tabs
                   PROVE  /\ release'[u] # 0 => requests'[release'[u]].tab = u
                          /\ generation'[u] # 0 => ~requests'[generation'[u]].inner
                          /\ generation'[u] # 0 /\ requests'[generation'[u]].voluntary
                               => state'[u] # "owner"
                          /\ generation'[u] # 0 /\ requests'[generation'[u]].voluntary
                               => requests'[generation'[u]].callback = "done"
                          /\ state'[u] = "owner" => generation'[u] # 0
                          /\ u \in open /\ state'[u] = "owner"
                               => requests'[generation'[u]].outer # "handled"
        BY <2>1 DEF Owners
      <3>1. CASE u = t BY <2>4, <3>1
      <3>2. CASE u # t
        <4>1. generation[u] # 0 => requests'[generation[u]] = requests[generation[u]]
          BY <1>0, <2>2, <3>2, Basics
        <4>2. release[u] # 0 => requests'[release[u]].tab = requests[release[u]].tab
          BY <1>0, <2>2, Basics
        <4> QED BY <2>4, <3>2, <4>1, <4>2 DEF IInv, Owners
      <3> QED BY <3>1, <3>2
    <2> QED BY <2>7, <2>8, <2>9 DEF IInv
  <1>4. ASSUME NEW t \in Tabs, CloseTab(t) PROVE IInv'
    <2>1. /\ UNCHANGED <<session, state, generation, release, made>>
          /\ open' = open \ {t} /\ t \in open
          /\ holder' = [k \in Sessions |-> IF holder[k] \in Of(t) THEN 0 ELSE holder[k]]
          /\ requests' = [r \in Made |-> IF r \in Of(t)
                                   THEN [requests[r] EXCEPT !.callback = "done",
                                                            !.outer = "handled"]
                                   ELSE requests[r]]
      BY <1>4 DEF CloseTab
    <2>2. Made' = Made BY <2>1 DEF Made
    <2>3. ASSUME NEW r \in Made
          PROVE  /\ requests'[r] \in RequestRecords
                 /\ requests'[r].tab = requests[r].tab /\ requests'[r].key = requests[r].key
                 /\ requests'[r].inner = requests[r].inner
                 /\ requests'[r].voluntary = requests[r].voluntary
                 /\ requests[r].tab # t => requests'[r] = requests[r]
                 /\ requests[r].tab = t
                      => requests'[r].callback = "done" /\ requests'[r].outer = "handled"
      <3>1. requests[r] \in RequestRecords BY <1>0, Basics
      <3>2. CASE r \in Of(t)
        <4> DEFINE q == [requests[r] EXCEPT !.callback = "done", !.outer = "handled"]
        <4>1. requests'[r] = q BY <2>1, <3>2
        <4>2. q \in RequestRecords BY <3>1, SettledTyped
        <4>3. /\ q.tab = requests[r].tab /\ q.key = requests[r].key
              /\ q.inner = requests[r].inner /\ q.voluntary = requests[r].voluntary
              /\ q.callback = "done" /\ q.outer = "handled"
          BY <3>1 DEF RequestRecords
        <4> HIDE DEF q
        <4>4. requests[r].tab = t BY <3>2 DEF Of
        <4> QED BY <4>1, <4>2, <4>3, <4>4
      <3>3. CASE r \notin Of(t)
        <4>1. requests'[r] = requests[r] /\ requests[r].tab # t BY <2>1, <3>3 DEF Of
        <4> QED BY <3>1, <4>1
      <3> QED BY <3>2, <3>3
    <2>4. (requests \in [Made -> RequestRecords])' BY <2>1, <2>2, <2>3
    <2>5. holder' \in [Sessions -> 0..made]
      <3>1. 0 \in 0..made BY <1>0, Basics
      <3> QED BY <1>0, <2>1, <3>1 DEF TypeOK
    <2>6. TypeOK'
      <3>1. RestTyped' BY <1>0, <2>1, <2>5, TypeParts DEF RestTyped
      <3>2. GenerationsTyped'
        <4>1. \A u \in Tabs : generation[u] # 0 =>
                requests'[generation[u]].tab = u /\ requests'[generation[u]].key = session[u]
          BY <1>0, <2>3, Basics
        <4> QED BY <2>1, <4>1 DEF GenerationsTyped
      <3> QED BY <2>4, <3>1, <3>2, TypePartsNext
    <2>7. Grants'
      <3> SUFFICES ASSUME NEW p \in Made
                   PROVE  /\ Granted(p)' => holder'[requests'[p].key] = p
                          /\ requests'[p].outer = "handled" => requests'[p].callback = "done"
                          /\ requests'[p].inner => requests'[p].voluntary
        BY <2>2 DEF Grants
      <3>1. CASE requests[p].tab = t BY <2>3, <3>1 DEF IInv, Grants, Granted
      <3>2. CASE requests[p].tab # t
        <4>1. requests'[p] = requests[p] BY <2>3, <3>2
        <4>2. requests[p].key \in Sessions BY <1>0, Basics
        <4>3. p \notin Of(t) BY <3>2 DEF Of
        <4> QED BY <2>1, <4>1, <4>2, <4>3 DEF IInv, Grants, Granted
      <3> QED BY <3>1, <3>2
    <2>8. Owners'
      <3> SUFFICES ASSUME NEW u \in Tabs
                   PROVE  /\ release[u] # 0 => requests'[release[u]].tab = u
                          /\ generation[u] # 0 => ~requests'[generation[u]].inner
                          /\ generation[u] # 0 /\ requests'[generation[u]].voluntary
                               => state[u] # "owner"
                          /\ generation[u] # 0 /\ requests'[generation[u]].voluntary
                               => requests'[generation[u]].callback = "done"
                          /\ state[u] = "owner" => generation[u] # 0
                          /\ u \in open \ {t} /\ state[u] = "owner"
                               => requests'[generation[u]].outer # "handled"
        BY <2>1 DEF Owners
      <3>1. release[u] # 0 => requests'[release[u]].tab = u
        BY <1>0, <2>3, Basics DEF IInv, Owners
      <3>2. CASE u = t BY <1>0, <2>3, <3>1, <3>2, Basics DEF IInv, Owners
      <3>3. CASE u # t
        <4>1. generation[u] # 0 => requests'[generation[u]] = requests[generation[u]]
          BY <1>0, <2>3, <3>3, Basics
        <4> QED BY <3>1, <4>1 DEF IInv, Owners
      <3> QED BY <3>2, <3>3
    <2> QED BY <2>6, <2>7, <2>8 DEF IInv
  <1> QED BY <1>1, <1>2, <1>3, <1>4 DEF User
-----------------------------------------------------------------------------
(* The theorems *)

\* Every step keeps the invariant.
LEMMA StepKeeps == IInv /\ [Next]_vars => IInv'
  <1> SUFFICES ASSUME IInv, [Next]_vars PROVE IInv' OBVIOUS
  <1>1. CASE Next BY <1>1, UserKeeps, ControllerKeeps, BrowserKeeps DEF Next
  <1>2. CASE UNCHANGED vars
    BY <1>2 DEF vars, IInv, TypeOK, Made, Grants, Granted, Owners
  <1> QED BY <1>1, <1>2

\* The inductive invariant of the tab lock.
LEMMA Invariant == Spec => []IInv
  BY InitHolds, StepKeeps, PTL DEF Spec

\* A tab at rest that owns its Session does so by a granted request.
LEMMA OwnerGranted ==
  ASSUME IInv, NEW t \in Tabs, Resting(t), state[t] = "owner"
  PROVE  generation[t] # 0 /\ holder[session[t]] = generation[t]
  <1>0. TypeOK BY DEF IInv
  <1> DEFINE g == generation[t]
  <1>1. g # 0 /\ t \in open BY DEF IInv, Owners, Resting
  <1>2. g \in Made /\ requests[g].tab = t /\ requests[g].key = session[t]
        /\ requests[g] \in RequestRecords
    BY <1>0, <1>1, Basics
  <1>3. AtRest(g) BY <1>2 DEF Resting, Of
  <1>4. requests[g].outer # "handled" BY <1>1 DEF IInv, Owners
  <1>5. requests[g].callback = "done" /\ requests[g].outer = "pending"
    BY <1>2, <1>3, <1>4 DEF AtRest, RequestRecords
  <1> QED BY <1>1, <1>2, <1>5 DEF IInv, Grants, Granted

\* The controllers and the browser's locks keep their types, and the request that
\* owns a tab's generation was made by that tab for the Session it shows
\* (acquire and dispose, tab-session-lock-core.ts), for any tabs and Sessions.
THEOREM TabTypeCorrect == Spec => []TypeOK
  BY Invariant, PTL DEF IInv

\* A tab at rest that reports "owner" holds the lock of the Session on screen by
\* its latest request (the callbacks of acquire, tab-session-lock-core.ts),
\* however requests, steals, releases and switches interleave in any number of
\* tabs.
THEOREM OwnerReallyHolds == Spec => []OwnerHolds
  <1>1. IInv => OwnerHolds BY OwnerGranted DEF OwnerHolds
  <1> QED BY <1>1, Invariant, PTL

\* No two tabs at rest both report themselves the owner of one Session: what the
\* lock is there for (useTabSessionLock, use-tab-session-lock.ts).
THEOREM TabsExclude == Spec => []OneOwner
  <1>1. ASSUME IInv PROVE OneOwner
    <2> SUFFICES ASSUME NEW t \in Tabs, NEW u \in Tabs, Resting(t), state[t] = "owner",
                        Resting(u), state[u] = "owner", session[t] = session[u]
                 PROVE  t = u
      BY DEF OneOwner
    <2>1. generation[t] # 0 /\ generation[u] = generation[t] BY <1>1, OwnerGranted
    <2>2. TypeOK BY <1>1 DEF IInv
    <2> QED BY <2>1, <2>2, Basics
  <1> QED BY <1>1, Invariant, PTL
=============================================================================
