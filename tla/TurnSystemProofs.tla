-------------------------- MODULE TurnSystemProofs --------------------------
(***************************************************************************)
(* Invariants of the turn system for every number of turns, every bound    *)
(* and every choice of the other constants of TurnSystem, in seven layers. *)
(*                                                                         *)
(* SentInv: whatever the controller may still send has never been sent.    *)
(* StartedAtMostOnce is not inductive without it: that a frame is written  *)
(* once says nothing about whether it may be written again.  A retired     *)
(* record has forgotten everything, and has no transport to send with.     *)
(*                                                                         *)
(* KnownInv: Core, its stream and its replies only speak of local turns    *)
(* that were sent, so no event takes a turn in its preflight for accepted. *)
(*                                                                         *)
(* TurnInv: leases, order and places.  A prompt is in one place at a time  *)
(* (queued, held for steering, on its way, run), and what the controller   *)
(* may still start or steer with is fresh: Core has neither got nor run    *)
(* it.  LeaseIsActive, WaitingIsStartable and NeverRunTwice follow.        *)
(*                                                                         *)
(* LostInv: whatever Core holds or still returns over this stream is held  *)
(* by the controller for the turn it was sent to, and the stream, in its   *)
(* order, returns it before the controller drops it.  NoPromptLost.        *)
(*                                                                         *)
(* OrderInv: of two prompts that were never sent, the one admitted first   *)
(* is not behind the other, and returned steering text is behind no prompt *)
(* that was admitted through the FIFO.  NoOvertaking and                   *)
(* ReturnedTextGoesFirst.                                                  *)
(*                                                                         *)
(* ForegroundInv: while hydrate's foreground turn is live and the user did *)
(* not let it go, the head of the queue was sent already, or its outcome   *)
(* is being recovered.  NeverAdvancesOverForeground.                       *)
(*                                                                         *)
(* AgreeInv: a turn of this client at the head of the queue runs in Core,  *)
(* or its terminal is still in the stream, or its start is leased, or its  *)
(* outcome is being recovered; until a hydrate commits on a stream that    *)
(* was cut, any turn may run.  QuiescentAgreement, for as long as          *)
(* terminalReceipts keeps every receipt.                                   *)
(***************************************************************************)
EXTENDS TurnSystem, TurnViewProofs, TLAPS

\* A turn that the controller could still dispatch has never been on the wire.
NotYetSent == ctl.link # "closed" => \A t \in Unsent(ctl) : sends[t] = 0

SentInv ==
    /\ TypeOK
    /\ WellFormed(ctl)
    /\ NotYetSent
    /\ StartedAtMostOnce

LEMMA InitControllerType == InitController \in Controllers
<1>1. EmptyQueue \in Queues
    BY EmptyQueueType
<1> QED BY <1>1, NullTypes DEF InitController, Controllers, Links

LEMMA InitSentInv == Init => SentInv
<1> SUFFICES ASSUME Init PROVE SentInv
    OBVIOUS
<1>1. InitController \in Controllers
    BY InitControllerType
<1>2. WellFormed(ctl)
    BY <1>1 DEF WellFormed, Init, InitController
<1>3. TypeOK
    BY <1>1 DEF Init, TypeOK, NoSnap
<1>4. NotYetSent /\ StartedAtMostOnce
    BY DEF Init, NotYetSent, Unsent, StartedAtMostOnce
<1> QED BY <1>2, <1>3, <1>4 DEF SentInv

\* A step that writes no frame only has to keep the controller's promises.
LEMMA KeptInv ==
    ASSUME SentInv, TypeOK', WellFormed(ctl'), Unsent(ctl') \subseteq Unsent(ctl),
           ctl.link = "closed" => ctl'.link = "closed", sends' = sends
    PROVE  SentInv'
<1>1. NotYetSent'
    BY DEF SentInv, NotYetSent
<1>2. StartedAtMostOnce'
    BY DEF SentInv, StartedAtMostOnce
<1> QED BY <1>1, <1>2 DEF SentInv

LEMMA KeepsInv ==
    ASSUME SentInv, TypeOK', Keeps(ctl, ctl'), sends' = sends
    PROVE  SentInv'
BY KeptInv DEF Keeps

\* Only the controller moves.
LEMMA ControllerStepInv ==
    ASSUME SentInv, Keeps(ctl, ctl'),
           UNCHANGED <<srv, inputs, channels, bounds, history>>
    PROVE  SentInv'
<1>1. TypeOK'
    BY DEF SentInv, TypeOK, Keeps, WellFormed, channels, bounds, history
<1> QED BY <1>1, KeepsInv DEF history

LEMMA UserInv ==
    ASSUME SentInv, User
    PROVE  SentInv'
<1> USE DEF SentInv
<1>1. ASSUME NEW t \in Locals, Admit(t) PROVE SentInv'
  <2>1. Keeps(ctl, ctl')
    BY <1>1, EnqueueTurnKeeps DEF Admit, Turns
  <2>2. TypeOK'
    BY <1>1, <2>1 DEF Admit, TypeOK, Keeps, WellFormed, channels, bounds
  <2> QED BY <1>1, <2>1, <2>2, KeepsInv DEF Admit
<1>2. ASSUME NEW t \in Locals, Cancel(t) PROVE SentInv'
  <2>1. Keeps(ctl, ctl')
    BY <1>2, CancelQueuedPromptKeeps DEF Cancel
  <2>2. TypeOK'
    BY <1>2, <2>1 DEF Cancel, TypeOK, Keeps, WellFormed, channels, bounds, Turns
  <2> QED BY <1>2, <2>1, <2>2, KeepsInv DEF Cancel
<1>3. ASSUME NEW t \in Steerable, Submit(t) PROVE SentInv'
  <2>1. t \in Locals /\ Active(ctl) \in Turns
    BY <1>3, SystemAssumption DEF Submit, CanSteerText, TypeOK, Controllers, Turns
  <2>2. WellFormed(ctl') /\ Unsent(ctl') = Unsent(ctl) /\ ctl'.link = ctl.link
    BY <1>3, <2>1, SubmitSteerKeeps DEF Submit
  <2>3. TypeOK'
    BY <1>3, <2>2 DEF Submit, TypeOK, WellFormed, channels, bounds, history
  <2> QED BY <1>3, <2>2, <2>3, KeptInv DEF Submit, history
<1>4. ASSUME NEW b \in BOOLEAN, Active(ctl) # NoTurn, SendInterrupt(b) PROVE SentInv'
  <2>1. Keeps(ctl, ctl')
    BY <1>4, InterruptKeeps DEF SendInterrupt
  <2>2. Active(ctl) \in Turns
    BY <1>4, ActiveType DEF TypeOK
  <2>3. [kind |-> "interrupt", turn |-> Active(ctl)] \in Requests
    BY <2>2 DEF Requests
  <2>4. TypeOK'
    BY <1>4, <2>1, <2>3 DEF SendInterrupt, TypeOK, Keeps, WellFormed, bounds, history
  <2> QED BY <1>4, <2>1, <2>4, KeepsInv DEF SendInterrupt, history
<1>5. CASE Stop \/ SendPendingNow
    BY <1>4, <1>5 DEF Stop, SendPendingNow, MayInterrupt
<1>6. CASE RetryRecovery
  <2>1. Keeps(ctl, ctl')
    BY <1>6, RetryTurnRecoveryKeeps DEF RetryRecovery
  <2> QED BY <1>6, <2>1, ControllerStepInv DEF RetryRecovery
<1>7. CASE Continue
  <2>1. Active(ctl) # NoTurn
    BY <1>7 DEF Continue, MayContinueWithoutTurn
  <2>2. Active(ctl) \in Turns
    BY <2>1, ActiveType DEF TypeOK
  <2>3. Keeps(ctl, ctl')
    BY <1>7, <2>1, ContinueWithoutTurnKeeps DEF Continue
  <2>4. TypeOK'
    BY <1>7, <2>2, <2>3 DEF Continue, TypeOK, Keeps, WellFormed, channels, bounds
  <2> QED BY <1>7, <2>3, <2>4, KeepsInv DEF Continue
<1>8. CASE RetrySteer
  <2>1. Keeps(ctl, ctl')
    BY <1>8, RetrySteerDeliveryKeeps DEF RetrySteer
  <2> QED BY <1>8, <2>1, ControllerStepInv DEF RetrySteer
<1>9. CASE SetSteeringEnabled
  <2>1. ctl' \in Controllers
    BY <1>9 DEF SetSteeringEnabled, TypeOK, Controllers
  <2>2. Keeps(ctl, ctl')
    BY <1>9, <2>1 DEF SetSteeringEnabled, Keeps, WellFormed, Unsent, Controllers
  <2> QED BY <1>9, <2>2, ControllerStepInv DEF SetSteeringEnabled
<1>10. CASE Retire
  <2>1. /\ ctl' \in Controllers
        /\ ctl'.link = "closed" /\ ctl'.stage = "none" /\ ctl'.steerReq = NoTurn
    <3>1. ctl.steering \in BOOLEAN /\ ctl.composer \in SUBSET Turns
        BY DEF TypeOK, Controllers
    <3>2. InitController.stage = "none" /\ InitController.steerReq = NoTurn
        BY DEF InitController
    <3>3. /\ Reset(ctl) \in Controllers
          /\ Reset(ctl).stage = "none" /\ Reset(ctl).steerReq = NoTurn
        BY <3>1, <3>2, InitControllerType DEF Reset, Controllers
    <3>4. ctl' = [Reset(ctl) EXCEPT !.link = "closed"]
        BY <1>10 DEF Retire
    <3> QED BY <3>3, <3>4 DEF Controllers, Links
  <2>2. QueuedIds(ctl.q) \subseteq Turns
    <3>1. ctl.q \in Queues
        BY DEF TypeOK, Controllers
    <3>2. ctl.q.active.id \in OptTurn /\ ctl.q.pending \in Seq(Entries)
        BY <3>1, QueueFields
    <3>3. \A i \in DOMAIN ctl.q.pending : ctl.q.pending[i].id \in Turns
        <4>1. ASSUME NEW p \in Seq(Entries) PROVE \A i \in DOMAIN p : p[i] \in Entries
            OBVIOUS
        <4>2. \A i \in DOMAIN ctl.q.pending : ctl.q.pending[i] \in Entries
            BY <3>2, <4>1
        <4>3. \A e \in Entries : e.id \in Turns
            BY DEF Entries
        <4> QED BY <4>2, <4>3, Zenon
    <3> QED BY <3>2, <3>3 DEF QueuedIds, Ids, OptTurn
  <2>3. RetainedTurns(ctl) \subseteq Turns
    BY DEF RetainedTurns, TypeOK, Controllers, Steers
  <2>4. TypeOK'
    BY <1>10, <2>1, <2>2, <2>3 DEF Retire, CutStream, TypeOK, NoSnap, bounds
  <2>5. sends' = sends
    BY <1>10 DEF Retire
  <2> QED BY <2>1, <2>4, <2>5 DEF WellFormed, NotYetSent, StartedAtMostOnce
<1> QED BY <1>1, <1>2, <1>3, <1>5, <1>6, <1>7, <1>8, <1>9, <1>10 DEF User
-----------------------------------------------------------------------------
(* Completions of the controller's calls *)

\* The only step that writes a start frame.
LEMMA DispatchInv ==
    ASSUME SentInv, NEW t \in Locals, Dispatch(t)
    PROVE  SentInv'
<1> USE DEF SentInv
<1>1. t \in Turns /\ ctl.startReq = t /\ ctl.stage = "preflight" /\ ctl' = MarkSent(ctl, t)
    BY DEF Dispatch, InPreflight, Turns
<1>2. Keeps(ctl, ctl') /\ t \notin Unsent(ctl')
    BY <1>1, MarkSentKeeps
<1>3. [kind |-> "start", turn |-> t] \in Requests
    BY <1>1 DEF Requests
<1>4. TypeOK'
    BY <1>1, <1>2, <1>3 DEF Dispatch, TypeOK, Keeps, WellFormed, bounds
<1>5. t \in Unsent(ctl) /\ ctl.link = "ready"
    BY <1>1 DEF Unsent, Dispatch
<1>6. sends[t] = 0
    BY <1>5 DEF NotYetSent
<1>7. sends' = [sends EXCEPT ![t] = 1]
    BY <1>6 DEF Dispatch
<1>8. NotYetSent'
    BY <1>1, <1>2, <1>5, <1>7 DEF NotYetSent, Keeps, Unsent, TypeOK
<1>9. StartedAtMostOnce'
    BY <1>7 DEF StartedAtMostOnce, TypeOK
<1> QED BY <1>2, <1>4, <1>8, <1>9 DEF Keeps

LEMMA StartReplyInv ==
    ASSUME SentInv, NEW r \in replies, StartReply(r)
    PROVE  SentInv'
<1> USE DEF SentInv
<1>1. r \in Replies /\ r.kind = "start"
    BY DEF StartReply, TypeOK
<1>2. r.turn \in Turns /\ (r.result = "busy" => r.by \in Turns)
    BY <1>1 DEF Replies, Turns
<1>3. Keeps(ctl, ctl')
  <2>1. /\ Keeps(ctl, StartAcked(ctl, r.turn))
        /\ Keeps(ctl, StartRejected(ctl, r.turn))
        /\ Keeps(ctl, ctl)
    BY <1>2, StartAckedKeeps, StartRefusedKeeps, KeepsReflexive
  <2>2. r.result = "busy" => Keeps(ctl, StartCollided(ctl, r.turn, r.by))
    BY <1>2, StartCollidedKeeps
  <2> QED BY <2>1, <2>2 DEF StartReply
<1>4. TypeOK'
    BY <1>3 DEF StartReply, TypeOK, Keeps, WellFormed, bounds, history
<1> QED BY <1>3, <1>4, KeepsInv DEF StartReply, history

LEMMA SteerReplyInv ==
    ASSUME SentInv, NEW r \in replies, SteerReply(r)
    PROVE  SentInv'
<1> USE DEF SentInv
<1>1. r \in Replies /\ r.kind = "steer"
    BY DEF SteerReply, TypeOK
<1>2. /\ r.turn \in Turns
      /\ r.turn # NoTurn
      /\ r.result = "fellback" => r.by \in Turns
    BY <1>1, TurnsAssumption DEF Replies, Turns
<1>3. Keeps(ctl, ctl')
  <2>1. ctl.steerReq = r.turn => /\ Keeps(ctl, SteerAccepted(ctl))
                                 /\ Keeps(ctl, SteerNotAdmitted(ctl))
    BY <1>2, SteerEndsKeep
  <2>2. r.result = "fellback" => Keeps(ctl, SteerFellBack(ctl, r.by))
    BY <1>2, SteerFellBackKeeps
  <2>3. Keeps(ctl, ctl)
    BY KeepsReflexive
  <2> QED BY <2>1, <2>2, <2>3 DEF SteerReply
<1>4. TypeOK'
    BY <1>3 DEF SteerReply, TypeOK, Keeps, WellFormed, bounds, history
<1> QED BY <1>3, <1>4, KeepsInv DEF SteerReply, history

LEMMA ClientInv ==
    ASSUME SentInv, Client
    PROVE  SentInv'
<1> USE DEF SentInv
<1>1. ASSUME NEW t \in Locals,
             PreflightEndsNotReady(t) \/ SeatRefused(t) \/ StartTimeout(t)
      PROVE  SentInv'
  <2>1. t \in Turns
    BY DEF Turns
  <2>2. Keeps(ctl, ctl')
    BY <1>1, <2>1, PreflightNotReadyKeeps, StartRefusedKeeps, StartUnconfirmedKeeps
       DEF PreflightEndsNotReady, SeatRefused, StartTimeout, InPreflight
  <2> QED BY <1>1, <2>2, ControllerStepInv
          DEF PreflightEndsNotReady, SeatRefused, StartTimeout
<1>2. CASE SteerDispatch
  <2>1. ctl.steerReq \in Locals /\ ctl.steerReq # NoTurn
    BY <1>2 DEF SteerDispatch, TypeOK, Controllers, OptLocal
  <2>2. Keeps(ctl, ctl')
    BY <1>2, <2>1, UpdateSteerKeeps, SteerEndsKeep DEF SteerDispatch
  <2>3. CASE ~MaySendSteer(ctl)
    <3>1. TypeOK'
        BY <1>2, <2>2, <2>3 DEF SteerDispatch, TypeOK, Keeps, WellFormed, bounds
    <3> QED BY <1>2, <2>2, <3>1, KeepsInv DEF SteerDispatch
  <2>4. CASE MaySendSteer(ctl)
    <3> DEFINE m == [kind |-> "steer", turn |-> ctl.steerReq, to |-> ctl.steerOwner]
    <3>1. wire' = wire \cup {m} /\ steerSent' = steerSent \cup {ctl.steerReq}
        BY <1>2, <2>4 DEF SteerDispatch
    <3>2. ctl.steerOwner \in Turns
        BY <2>1 DEF WellFormed, TypeOK, Controllers, OptTurn
    <3>3. m \in Requests
        BY <2>1, <3>2 DEF Requests
    <3> HIDE DEF m
    <3>4. TypeOK'
        BY <1>2, <2>1, <2>2, <3>1, <3>3 DEF SteerDispatch, TypeOK, Keeps, WellFormed, bounds
    <3> QED BY <1>2, <2>2, <3>4, KeepsInv DEF SteerDispatch
  <2> QED BY <2>3, <2>4
<1>3. CASE SteerTimeout
  <2>1. ctl.steerReq # NoTurn
    BY <1>3, TurnsAssumption DEF SteerTimeout, TypeOK
  <2>2. Keeps(ctl, ctl')
    BY <1>3, <2>1, SteerEndsKeep DEF SteerTimeout
  <2> QED BY <1>3, <2>2, ControllerStepInv DEF SteerTimeout
<1>4. ASSUME NEW b \in BOOLEAN, InterruptReply(b) \/ OwnerInteraction(b) PROVE SentInv'
  <2>1. Keeps(ctl, ctl')
    BY <1>4, InterruptKeeps, SetAcceptedOwnerInteractionKeeps
       DEF InterruptReply, OwnerInteraction
  <2> QED BY <1>4, <2>1, ControllerStepInv DEF InterruptReply, OwnerInteraction
<1>5. ASSUME NEW s \in LookupStates, LookupReply(s) PROVE SentInv'
  <2>1. ctl.lookup \in Turns
    BY <1>5 DEF LookupReply, TypeOK, Controllers, OptTurn
  <2>2. Keeps(ctl, ctl')
    BY <1>5, <2>1, LookupReturnedKeeps DEF LookupReply
  <2> QED BY <1>5, <2>2, ControllerStepInv DEF LookupReply
<1> QED BY <1>1, <1>2, <1>3, <1>4, <1>5, DispatchInv, StartReplyInv, SteerReplyInv DEF Client
-----------------------------------------------------------------------------
(* Transport and Core *)

LEMMA ObserveInv ==
    ASSUME SentInv, Observe
    PROVE  SentInv'
<1> USE DEF SentInv
<1> DEFINE n == Head(notes)
<1>1. n \in Notes /\ Tail(notes) \in Seq(Notes)
    BY DEF Observe, TypeOK
<1>2. /\ n.turn \in Turns
      /\ n.kind \notin {"started", "terminal"} => n.inputs \in Seq(Locals)
    BY <1>1 DEF Notes
<1>3. Keeps(ctl, ctl')
  <2>1. /\ Keeps(ctl, ObserveTurnStarted(ctl, n.turn))
        /\ Keeps(ctl, ObserveTerminal(ctl, n.turn))
        /\ Keeps(ctl, ctl)
    BY <1>2, ObserveTurnStartedKeeps, ObserveTerminalKeeps, KeepsReflexive
  <2>2. ASSUME n.kind \notin {"started", "terminal"}
        PROVE  Keeps(ctl, ObserveSteerDropped(ctl, n.turn, n.inputs))
    <3>1. \A s \in Seq(Locals) : s \in Seq(Turns)
        BY DEF Turns
    <3>2. n.inputs \in Seq(Turns)
        BY <1>2, <2>2, <3>1
    <3> QED BY <1>2, <3>2, ObserveSteerDroppedKeeps
  <2> QED BY <2>1, <2>2 DEF Observe
<1>4. TypeOK'
    BY <1>1, <1>3 DEF Observe, TypeOK, Keeps, WellFormed, bounds, history
<1> QED BY <1>3, <1>4, KeepsInv DEF Observe, history

LEMMA TransportInv ==
    ASSUME SentInv, Transport
    PROVE  SentInv'
<1> USE DEF SentInv
<1>1. ASSUME NEW l \in Links, Suspend(l), ctl.link # "closed",
             suspends' \in Nat,
             UNCHANGED <<srv, inputs, wire, gaps, sends, runs, admitted, gone, steerSent>>
      PROVE  SentInv'
  <2> DEFINE d == SuspendTransport(ctl)
             lookup == IF l = "down" THEN NoTurn ELSE d.lookup
  <2>1. Keeps(ctl, d) /\ WellFormed(d)
    BY SuspendTransportKeeps DEF Keeps
  <2>2. ctl' = [d EXCEPT !.link = l, !.lookup = lookup]
    BY <1>1 DEF Suspend
  <2> HIDE DEF d
  <2>3. lookup \in OptTurn
    BY <2>1, NullTypes DEF WellFormed, Controllers
  <2> HIDE DEF lookup
  <2>4. ctl' \in Controllers
    BY <1>1, <2>1, <2>2, <2>3 DEF WellFormed, Controllers
  <2>5. WellFormed(ctl') /\ Unsent(ctl') \subseteq Unsent(ctl)
    BY <1>1, <2>1, <2>2, <2>4 DEF Keeps, WellFormed, Unsent, Controllers
  <2>6. TypeOK'
    BY <1>1, <2>4 DEF Suspend, CutStream, TypeOK, NoSnap
  <2> QED BY <1>1, <2>5, <2>6, KeptInv
<1>2. ASSUME NEW l \in Links, ctl.link # "closed", ctl' = [ctl EXCEPT !.link = l],
             TypeOK', sends' = sends
      PROVE  SentInv'
    BY <1>2, RelinkKeeps, KeptInv
<1>3. CASE LoseTransport \/ Reopen
  <2>1. \E l \in Links : Suspend(l)
    BY <1>3 DEF LoseTransport, Reopen, Links
  <2>2. ctl.link # "closed" /\ suspends' \in Nat
    BY <1>3 DEF LoseTransport, Reopen, TypeOK, bounds
  <2>3. UNCHANGED <<srv, inputs, wire, gaps, sends, runs, admitted, gone, steerSent>>
    BY <1>3 DEF LoseTransport, Reopen, bounds
  <2> QED BY <1>1, <2>1, <2>2, <2>3
<1>4. CASE ReopenFails \/ Gap \/ GapFails
  <2>1. \E l \in Links : ctl.link # "closed" /\ ctl' = [ctl EXCEPT !.link = l]
    BY <1>4 DEF ReopenFails, Gap, GapFails, Links
  <2>2. ctl' \in Controllers
    BY <2>1, RelinkKeeps DEF SentInv, WellFormed
  <2>3. TypeOK'
    <3>1. CASE Gap
        BY <2>2, <3>1 DEF Gap, TypeOK, history
    <3>2. CASE ReopenFails
        BY <2>2, <3>2 DEF ReopenFails, CutStream, TypeOK, NoSnap
    <3>3. CASE GapFails
        BY <2>2, <3>3 DEF GapFails, CutStream, TypeOK, NoSnap, bounds
    <3> QED BY <1>4, <3>1, <3>2, <3>3
  <2>4. sends' = sends
    BY <1>4 DEF ReopenFails, Gap, GapFails, history
  <2> QED BY <1>2, <2>1, <2>3, <2>4
<1>5. ASSUME NEW m \in wire, LoseRequest(m) PROVE SentInv'
  <2>1. TypeOK' /\ Keeps(ctl, ctl')
    BY <1>5, KeepsReflexive DEF LoseRequest, TypeOK, bounds, history
  <2> QED BY <1>5, <2>1, KeepsInv DEF LoseRequest, history
<1>6. CASE AnswerHydrate
  <2>1. snap' \in [Turns -> {"none", "absent", "active", "interrupting", "done"}]
    BY <1>6 DEF AnswerHydrate, HydrateAnswers
  <2>2. TypeOK' /\ Keeps(ctl, ctl')
    BY <1>6, <2>1, KeepsReflexive DEF AnswerHydrate, TypeOK, bounds, history
  <2> QED BY <1>6, <2>2, KeepsInv DEF AnswerHydrate, history
<1>7. CASE Hydrated
  <2> DEFINE d == [ctl EXCEPT !.link = "draining"]
  <2>1. WellFormed(d) /\ Unsent(d) = Unsent(ctl)
    BY RelinkKeeps DEF Links
  <2>2. \E b \in BOOLEAN : ctl' = ReconcileFromHydrate(d, snap, b)
    BY <1>7 DEF Hydrated
  <2> HIDE DEF d
  <2>3. Keeps(d, ctl')
    BY <2>1, <2>2, ReconcileFromHydrateKeeps DEF TypeOK
  <2>4. TypeOK'
    BY <1>7, <2>3 DEF Hydrated, TypeOK, Keeps, WellFormed, NoSnap, bounds, history
  <2>5. ctl.link # "closed" /\ sends' = sends
    BY <1>7 DEF Hydrated, history
  <2> QED BY <2>1, <2>3, <2>4, <2>5, KeptInv DEF Keeps
<1>8. CASE Ready
  <2> DEFINE d == [ctl EXCEPT !.link = "ready"]
  <2>1. WellFormed(d) /\ Unsent(d) = Unsent(ctl)
    BY RelinkKeeps DEF Links
  <2>2. ctl' = StartTurn(d, Active(d)) /\ ctl.link # "closed"
    BY <1>8 DEF Ready, ResumePendingTurn
  <2> HIDE DEF d
  <2>3. Keeps(d, ctl')
    BY <2>1, <2>2, StartTurnKeeps
  <2>4. TypeOK'
    BY <1>8, <2>3 DEF Ready, TypeOK, Keeps, WellFormed, channels, bounds, history
  <2> QED BY <1>8, <2>1, <2>2, <2>3, <2>4, KeptInv DEF Keeps, Ready, history
<1> QED BY <1>3, <1>4, <1>5, <1>6, <1>7, <1>8, ObserveInv DEF Transport

LEMMA EmitType ==
    ASSUME TypeOK, NEW ns \in Seq(Notes)
    PROVE  Emit(ns) \in Seq(Notes)
BY DEF Emit, TypeOK

LEMMA ReplyType ==
    ASSUME TypeOK, NEW r \in Replies
    PROVE  Reply(r) \subseteq Replies
BY DEF Reply, TypeOK

LEMMA CoreInv ==
    ASSUME SentInv, Core
    PROVE  SentInv'
<1> USE DEF SentInv
<1>1. ASSUME TypeOK', ctl' = ctl, sends' = sends PROVE SentInv'
    BY <1>1, KeepsReflexive, KeepsInv
<1>2. ASSUME NEW f \in Turns
      PROVE  /\ Emit(<<[kind |-> "started", turn |-> f]>>) \in Seq(Notes)
             /\ [srv EXCEPT ![f] = "active"]
                \in [Turns -> {"none", "active", "interrupting", "done"}]
  <2>1. [kind |-> "started", turn |-> f] \in Notes
    BY <1>2 DEF Notes
  <2>2. <<[kind |-> "started", turn |-> f]>> \in Seq(Notes)
    BY <2>1
  <2> QED BY <2>2, EmitType DEF TypeOK
<1>3. ASSUME NEW m \in wire, CoreStart(m) PROVE SentInv'
  <2> DEFINE ack == [kind |-> "start", turn |-> m.turn, result |-> "ack"]
             rej == [kind |-> "start", turn |-> m.turn, result |-> "reject"]
             busy(f) == [kind |-> "start", turn |-> m.turn, result |-> "busy", by |-> f]
  <2>1. m.turn \in Locals
    BY <1>3 DEF CoreStart, TypeOK, Requests
  <2>2. m.turn \in Turns
    BY <2>1 DEF Turns
  <2>3. ack \in Replies /\ rej \in Replies /\ \A f \in Turns : busy(f) \in Replies
    BY <2>1 DEF Replies
  <2> HIDE DEF ack, rej, busy
  <2>4. \/ /\ srv' = [srv EXCEPT ![m.turn] = "active"]
           /\ runs' = [runs EXCEPT ![m.turn] = @ + 1]
           /\ replies' = Reply(ack)
           /\ notes' = Emit(<<[kind |-> "started", turn |-> m.turn]>>)
        \/ \E f \in Foreground : replies' = Reply(busy(f)) /\ UNCHANGED <<srv, runs, notes>>
        \/ replies' = Reply(rej) /\ UNCHANGED <<srv, runs, notes>>
    BY <1>3 DEF CoreStart, ack, rej, busy
  <2>5. replies' \subseteq Replies
    BY <2>3, <2>4, ReplyType DEF Foreground, TypeOK
  <2>6. srv' \in [Turns -> {"none", "active", "interrupting", "done"}]
    BY <1>2, <2>2, <2>4 DEF TypeOK
  <2>7. notes' \in Seq(Notes)
    BY <1>2, <2>2, <2>4 DEF TypeOK
  <2>8. runs' \in [Turns -> Nat]
    BY <2>2, <2>4 DEF TypeOK
  <2>9. TypeOK'
    BY <1>3, <2>5, <2>6, <2>7, <2>8 DEF CoreStart, TypeOK, bounds
  <2> QED BY <1>1, <1>3, <2>9 DEF CoreStart
<1>4. ASSUME NEW f \in Foreign, ForeignStart(f) PROVE SentInv'
  <2>1. f \in Turns
    BY DEF Turns
  <2>2. TypeOK'
    BY <1>2, <1>4, <2>1 DEF ForeignStart, TypeOK, bounds, history
  <2> QED BY <1>1, <1>4, <2>2 DEF ForeignStart, history
<1>5. ASSUME NEW m \in wire, CoreInterrupt(m) PROVE SentInv'
  <2>1. m.turn \in Turns
    BY <1>5 DEF CoreInterrupt, TypeOK, Requests
  <2>2. TypeOK'
    BY <1>5, <2>1 DEF CoreInterrupt, TypeOK, bounds, history
  <2> QED BY <1>1, <1>5, <2>2 DEF CoreInterrupt, history
<1>6. ASSUME NEW m \in wire, CoreSteer(m) PROVE SentInv'
  <2> DEFINE yes == [kind |-> "steer", turn |-> m.turn, result |-> "steered"]
             rej == [kind |-> "steer", turn |-> m.turn, result |-> "reject"]
             new(f) == [kind |-> "steer", turn |-> m.turn, result |-> "fellback", by |-> f]
  <2>1. m.turn \in Locals
    BY <1>6 DEF CoreSteer, TypeOK, Requests
  <2>2. m.turn \in Turns /\ \A f \in Foreign : f \in Turns
    BY <2>1 DEF Turns
  <2>3. yes \in Replies /\ rej \in Replies /\ \A f \in Foreign : new(f) \in Replies
    BY <2>1, <2>2 DEF Replies
  <2> HIDE DEF yes, rej, new
  <2>4. \/ /\ inputs' = Append(inputs, m.turn)
           /\ replies' = Reply(yes)
           /\ UNCHANGED <<srv, runs, notes>>
        \/ /\ \E f \in Foreign :
                 /\ srv' = [srv EXCEPT ![f] = "active"]
                 /\ replies' = Reply(new(f))
                 /\ notes' = Emit(<<[kind |-> "started", turn |-> f]>>)
           /\ runs' = [runs EXCEPT ![m.turn] = @ + 1]
           /\ UNCHANGED inputs
        \/ replies' = Reply(rej) /\ UNCHANGED <<srv, inputs, runs, notes>>
    BY <1>6 DEF CoreSteer, yes, rej, new
  <2>5. replies' \subseteq Replies
    <3>1. /\ Reply(yes) \subseteq Replies
          /\ Reply(rej) \subseteq Replies
          /\ \A f \in Foreign : Reply(new(f)) \subseteq Replies
        BY <2>3, ReplyType
    <3> QED BY <2>4, <3>1, Zenon
  <2>6. srv' \in [Turns -> {"none", "active", "interrupting", "done"}]
    BY <1>2, <2>2, <2>4 DEF TypeOK
  <2>7. notes' \in Seq(Notes)
    <3>1. /\ notes \in Seq(Notes)
          /\ \A f \in Foreign : Emit(<<[kind |-> "started", turn |-> f]>>) \in Seq(Notes)
        BY <1>2, <2>2 DEF TypeOK
    <3> QED BY <2>4, <3>1, Zenon
  <2>8. inputs' \in Seq(Locals)
    <3>1. inputs \in Seq(Locals) /\ Append(inputs, m.turn) \in Seq(Locals)
        BY <2>1 DEF TypeOK
    <3> QED BY <2>4, <3>1, Zenon
  <2>9. runs' \in [Turns -> Nat]
    BY <2>2, <2>4 DEF TypeOK
  <2>10. TypeOK'
    BY <1>6, <2>5, <2>6, <2>7, <2>8, <2>9 DEF CoreSteer, TypeOK, bounds
  <2> QED BY <1>1, <1>6, <2>10 DEF CoreSteer
<1>7. CASE CoreDrain
  <2>1. TypeOK'
    BY <1>7 DEF CoreDrain, TypeOK, channels, bounds
  <2> QED BY <1>1, <1>7, <2>1 DEF CoreDrain
<1>8. ASSUME NEW t \in Turns, CoreEnd(t) PROVE SentInv'
  <2> DEFINE drop == [kind |-> "dropped", turn |-> t, inputs |-> inputs]
             end == [kind |-> "terminal", turn |-> t]
             ns == (IF inputs = <<>> THEN <<>> ELSE <<drop>>) \o <<end>>
  <2>1. drop \in Notes /\ end \in Notes
    BY DEF Notes, TypeOK
  <2>2. notes' = Emit(ns)
    BY <1>8 DEF CoreEnd
  <2> HIDE DEF drop, end
  <2>3. ns \in Seq(Notes)
    BY <2>1
  <2> HIDE DEF ns
  <2>4. notes' \in Seq(Notes)
    BY <2>2, <2>3, EmitType
  <2>5. handedBack' \subseteq Locals
    BY <1>8 DEF CoreEnd, TypeOK
  <2>6. TypeOK'
    BY <1>8, <2>4, <2>5 DEF CoreEnd, TypeOK, bounds
  <2> QED BY <1>1, <1>8, <2>6 DEF CoreEnd
<1> QED BY <1>3, <1>4, <1>5, <1>6, <1>7, <1>8 DEF Core
-----------------------------------------------------------------------------
LEMMA NextSentInv == SentInv /\ [Next]_vars => SentInv'
<1> SUFFICES ASSUME SentInv, [Next]_vars PROVE SentInv'
    OBVIOUS
<1>1. CASE Next
    BY <1>1, UserInv, ClientInv, TransportInv, CoreInv DEF Next
<1>2. CASE UNCHANGED vars
  <2>1. Keeps(ctl, ctl')
    BY <1>2, KeepsReflexive DEF SentInv, vars
  <2> QED BY <1>2, <2>1, ControllerStepInv DEF vars
<1> QED BY <1>1, <1>2

\* Every variable of the system keeps its type, whichever handlers, losses,
\* gaps and Core steps interleave, for any number of turns.
THEOREM TypeCorrect == Spec => []TypeOK
<1>1. SentInv => TypeOK
    BY DEF SentInv
<1> QED BY <1>1, InitSentInv, NextSentInv, PTL DEF Spec

\* No turn id ever crosses the wire twice, for any number of turns, transport
\* losses and gap recoveries (attemptedTurns and preflightTurnId).
THEOREM AtMostOneStart == Spec => []StartedAtMostOnce
<1>1. SentInv => StartedAtMostOnce
    BY DEF SentInv
<1> QED BY <1>1, InitSentInv, NextSentInv, PTL DEF Spec

-----------------------------------------------------------------------------
(* What Core knows.  None of this reads the controller beyond SentInv. *)

\* A turn of this client that Core knows was sent to it.
ServerKnows == \A t \in Locals : srv[t] # "none" => sends[t] > 0

\* The event stream and the hydrate reply mention only turns that Core knows.
StreamKnows ==
    /\ \A i \in DOMAIN notes : srv[notes[i].turn] # "none"
    /\ \A t \in Turns : snap[t] \in {"active", "interrupting", "done"} => srv[t] # "none"

\* A start frame in flight is the first Core hears of its turn.
StartsKnow == \A m \in wire : m.kind = "start" => sends[m.turn] > 0 /\ srv[m.turn] = "none"

\* A start was answered once and started its turn if and only if it was acknowledged;
\* a refused start names the foreground turn, a steer that started a turn names it.
RepliesKnow ==
    \A r \in replies :
        /\ r.kind = "start" =>
             /\ sends[r.turn] > 0
             /\ [kind |-> "start", turn |-> r.turn] \notin wire
             /\ IF r.result = "ack" THEN srv[r.turn] # "none" ELSE srv[r.turn] = "none"
             /\ r.result = "busy" => srv[r.by] # "none"
        /\ r.kind = "steer" /\ r.result = "fellback" => r.by \in Foreign

InInputs(p) == \E i \in DOMAIN inputs : inputs[i] = p

\* Text sent as steering is in one place: one frame, then one input of Core.
SteersOnce ==
    /\ NoRepeat(inputs)
    /\ \A i \in DOMAIN notes : notes[i].kind = "dropped" => NoRepeat(notes[i].inputs)
    /\ \A m, n \in wire : m.kind = "steer" /\ n.kind = "steer" /\ m.turn = n.turn => m = n
    /\ \A m \in wire : m.kind = "steer" => m.turn \in steerSent /\ ~InInputs(m.turn)
    /\ \A i \in DOMAIN inputs : inputs[i] \in steerSent

KnownInv ==
    /\ SentInv
    /\ ServerKnows
    /\ StreamKnows
    /\ StartsKnow
    /\ RepliesKnow
    /\ SteersOnce

Interrupts == [kind : {"interrupt"}, turn : Turns]

\* A step of the client that sends nothing but interrupts: it consumes replies and
\* events, or drops them.
Consumes ==
    /\ UNCHANGED <<srv, inputs, sends, steerSent>>
    /\ wire' \subseteq wire \cup Interrupts
    /\ replies' \subseteq replies
    /\ notes' \in {notes, <<>>} \/ (notes # <<>> /\ notes' = Tail(notes))
    /\ snap' \in {snap, NoSnap}

LEMMA InitKnownInv == Init => KnownInv
<1> SUFFICES ASSUME Init PROVE KnownInv
    OBVIOUS
<1>1. ServerKnows /\ StreamKnows /\ StartsKnow /\ RepliesKnow
    BY DEF Init, ServerKnows, StreamKnows, StartsKnow, RepliesKnow, NoSnap, Turns
<1>2. SteersOnce
    BY DEF Init, SteersOnce, NoRepeat
<1> QED BY <1>1, <1>2, InitSentInv DEF KnownInv

\* Every event of the stream after the step was one before it.
LEMMA ConsumesNotes ==
    ASSUME TypeOK, Consumes
    PROVE  \A i \in DOMAIN notes' : \E j \in DOMAIN notes : notes'[i] = notes[j]
<1>1. CASE notes' \in {notes, <<>>}
    BY <1>1
<1>2. CASE notes # <<>> /\ notes' = Tail(notes)
  <2>1. notes \in Seq(Notes)
    BY DEF TypeOK
  <2>2. \A i \in DOMAIN Tail(notes) : i + 1 \in DOMAIN notes /\ Tail(notes)[i] = notes[i + 1]
    BY <1>2, <2>1
  <2> QED BY <1>2, <2>2
<1> QED BY <1>1, <1>2 DEF Consumes

LEMMA ConsumesKnown ==
    ASSUME KnownInv, SentInv', Consumes
    PROVE  KnownInv'
<1> USE DEF KnownInv
<1>1. \A i \in DOMAIN notes' : \E j \in DOMAIN notes : notes'[i] = notes[j]
    BY ConsumesNotes DEF SentInv
<1>2. srv' = srv /\ inputs' = inputs /\ sends' = sends /\ steerSent' = steerSent
    BY DEF Consumes
<1>3. \A m \in wire' : m \in wire \/ m.kind = "interrupt"
    BY DEF Consumes, Interrupts
<1>4. ServerKnows'
    BY <1>2 DEF ServerKnows
<1>5. StreamKnows'
    BY <1>1, <1>2 DEF StreamKnows, Consumes, NoSnap
<1>6. StartsKnow'
    BY <1>2, <1>3 DEF StartsKnow
<1>7. RepliesKnow'
  <2>1. \A t : [kind |-> "start", turn |-> t] \in wire' => [kind |-> "start", turn |-> t] \in wire
    BY <1>3
  <2> QED BY <1>2, <2>1 DEF RepliesKnow, Consumes
<1>8. SteersOnce'
  <2>1. \A i \in DOMAIN notes' : notes'[i].kind = "dropped" => NoRepeat(notes'[i].inputs)
    BY <1>1 DEF SteersOnce
  <2>2. \A p : InInputs(p)' <=> InInputs(p)
    BY <1>2 DEF InInputs
  <2>3. NoRepeat(inputs)'
    BY <1>2 DEF SteersOnce
  <2> QED BY <1>2, <1>3, <2>1, <2>2, <2>3 DEF SteersOnce, NoRepeat
<1> QED BY <1>4, <1>5, <1>6, <1>7, <1>8

LEMMA UserKnown ==
    ASSUME KnownInv, User
    PROVE  KnownInv'
<1>1. SentInv'
    BY UserInv DEF KnownInv
<1>2. Consumes
  <2>1. ASSUME NEW t \in Locals, Admit(t) \/ Cancel(t) PROVE Consumes
    BY <2>1 DEF Admit, Cancel, Consumes, channels
  <2>2. ASSUME NEW t \in Steerable, Submit(t) PROVE Consumes
    BY <2>2 DEF Submit, Consumes, channels, history
  <2>3. CASE Stop \/ SendPendingNow
    <3>1. Active(ctl) \in Turns
        BY <2>3, ActiveType DEF Stop, SendPendingNow, MayInterrupt, KnownInv, SentInv, TypeOK
    <3>2. [kind |-> "interrupt", turn |-> Active(ctl)] \in Interrupts
        BY <3>1 DEF Interrupts
    <3> QED BY <2>3, <3>2 DEF Stop, SendPendingNow, SendInterrupt, Consumes, history
  <2>4. CASE RetryRecovery \/ RetrySteer \/ SetSteeringEnabled
    BY <2>4 DEF RetryRecovery, RetrySteer, SetSteeringEnabled, Consumes, channels, history
  <2>5. CASE Continue
    BY <2>5 DEF Continue, Consumes, channels
  <2>6. CASE Retire
    BY <2>6 DEF Retire, CutStream, Consumes
  <2> QED BY <2>1, <2>2, <2>3, <2>4, <2>5, <2>6 DEF User
<1> QED BY <1>1, <1>2, ConsumesKnown

\* A prompt that may still be dispatched is unknown to Core.
LEMMA UnsentUnknown ==
    ASSUME KnownInv, NEW t \in Locals, t \in Unsent(ctl), ctl.link # "closed"
    PROVE  sends[t] = 0 /\ srv[t] = "none"
<1>1. sends[t] = 0
    BY DEF KnownInv, SentInv, NotYetSent
<1> QED BY <1>1 DEF KnownInv, ServerKnows

LEMMA DispatchKnown ==
    ASSUME KnownInv, NEW t \in Locals, Dispatch(t)
    PROVE  KnownInv'
<1> USE DEF KnownInv
<1> DEFINE m == [kind |-> "start", turn |-> t]
<1>1. SentInv'
    BY DispatchInv
<1>2. t \in Turns /\ t \in Unsent(ctl) /\ ctl.link = "ready"
    BY DEF Dispatch, InPreflight, Unsent, Turns
<1>3. sends[t] = 0 /\ srv[t] = "none"
    BY <1>2, UnsentUnknown
<1>4. /\ UNCHANGED <<srv, inputs, replies, notes, snap, steerSent>>
      /\ sends' = [sends EXCEPT ![t] = 1]
      /\ wire' = wire \cup {m}
    BY <1>3 DEF Dispatch
<1>5. sends'[t] = 1 /\ \A u \in Turns : sends[u] > 0 => sends'[u] > 0
    BY <1>2, <1>3, <1>4 DEF SentInv, TypeOK
<1>6. ServerKnows'
    BY <1>4, <1>5 DEF ServerKnows, Turns
<1>7. StreamKnows'
    BY <1>4 DEF StreamKnows
<1>8. StartsKnow'
  <2>1. \A x \in wire : x.turn \in Turns
    BY DEF SentInv, TypeOK, Requests, Turns
  <2> QED BY <1>3, <1>4, <1>5, <2>1 DEF StartsKnow
<1>9. RepliesKnow'
  <2>1. \A r \in replies : r.turn \in Turns
    BY DEF SentInv, TypeOK, Replies, Turns
  <2>2. \A r \in replies : r.kind = "start" => r.turn # t
    <3>1. \A r \in replies : r.kind = "start" => sends[r.turn] > 0
        BY DEF RepliesKnow
    <3>2. ~(sends[t] > 0)
        BY <1>3
    <3> QED BY <3>1, <3>2, Zenon
  <2>3. \A u : [kind |-> "start", turn |-> u] = m => u = t
    OBVIOUS
  <2>4. \A u : [kind |-> "start", turn |-> u] \in wire' =>
               [kind |-> "start", turn |-> u] \in wire \/ u = t
    BY <1>4, <2>3
  <2> QED BY <1>4, <1>5, <2>1, <2>2, <2>4 DEF RepliesKnow
<1>10. SteersOnce'
  <2>1. \A x \in wire' : x.kind = "steer" => x \in wire
    BY <1>4
  <2>2. \A p : InInputs(p)' <=> InInputs(p)
    BY <1>4 DEF InInputs
  <2> HIDE DEF m
  <2> QED BY <1>4, <2>1, <2>2 DEF SteersOnce, NoRepeat
<1> QED BY <1>1, <1>6, <1>7, <1>8, <1>9, <1>10

LEMMA SteerDispatchKnown ==
    ASSUME KnownInv, SentInv', SteerDispatch, MaySendSteer(ctl)
    PROVE  KnownInv'
<1> USE DEF KnownInv
<1> DEFINE t == ctl.steerReq
           m == [kind |-> "steer", turn |-> t, to |-> ctl.steerOwner]
<1>1. /\ UNCHANGED <<srv, inputs, replies, notes, snap, sends>>
      /\ steerSent' = steerSent \cup {t} /\ t \notin steerSent
      /\ wire' = wire \cup {m}
    BY DEF SteerDispatch
<1>2. m.kind = "steer" /\ m.turn = t /\ \A u : m # [kind |-> "start", turn |-> u]
  <2>1. \A u : [kind |-> "start", turn |-> u].kind = "start"
    OBVIOUS
  <2> QED BY <2>1
<1> HIDE DEF m
<1>3. ServerKnows' /\ StreamKnows'
    BY <1>1 DEF ServerKnows, StreamKnows
<1>4. StartsKnow'
    BY <1>1, <1>2 DEF StartsKnow
<1>5. RepliesKnow'
    BY <1>1, <1>2 DEF RepliesKnow
<1>6. SteersOnce'
  <2>1. \A p : InInputs(p)' <=> InInputs(p)
    BY <1>1 DEF InInputs
  <2>2. ~InInputs(t)
    BY <1>1 DEF SteersOnce, InInputs
  <2>3. \A x \in wire : x.kind = "steer" => x.turn # t
    BY <1>1 DEF SteersOnce
  <2> HIDE DEF t
  <2> QED BY <1>1, <1>2, <2>1, <2>2, <2>3 DEF SteersOnce, NoRepeat
<1> QED BY <1>3, <1>4, <1>5, <1>6

LEMMA ClientKnown ==
    ASSUME KnownInv, Client
    PROVE  KnownInv'
<1>1. SentInv'
    BY ClientInv DEF KnownInv
<1>2. ASSUME NEW t \in Locals,
             PreflightEndsNotReady(t) \/ SeatRefused(t) \/ StartTimeout(t)
      PROVE  Consumes
    BY <1>2 DEF PreflightEndsNotReady, SeatRefused, StartTimeout, Consumes, channels, history
<1>3. ASSUME NEW r \in replies, StartReply(r) \/ SteerReply(r) PROVE Consumes
    BY <1>3 DEF StartReply, SteerReply, Consumes, history
<1>4. ASSUME SteerDispatch PROVE KnownInv'
  <2>1. CASE MaySendSteer(ctl)
    BY <1>1, <1>4, <2>1, SteerDispatchKnown
  <2>2. CASE ~MaySendSteer(ctl)
    <3>1. Consumes
        BY <1>4, <2>2 DEF SteerDispatch, Consumes
    <3> QED BY <1>1, <3>1, ConsumesKnown
  <2> QED BY <2>1, <2>2
<1>5. SteerTimeout => Consumes
    BY DEF SteerTimeout, Consumes, channels, history
<1>6. ASSUME NEW b \in BOOLEAN, InterruptReply(b) \/ OwnerInteraction(b) PROVE Consumes
    BY <1>6 DEF InterruptReply, OwnerInteraction, Consumes, channels, history
<1>7. ASSUME NEW s \in LookupStates, LookupReply(s) PROVE Consumes
    BY <1>7 DEF LookupReply, Consumes, channels, history
<1> QED BY <1>1, <1>2, <1>3, <1>4, <1>5, <1>6, <1>7, ConsumesKnown, DispatchKnown DEF Client

LEMMA TransportKnown ==
    ASSUME KnownInv, Transport
    PROVE  KnownInv'
<1>1. SentInv'
    BY TransportInv DEF KnownInv
<1>2. CASE LoseTransport \/ Reopen
  <2>1. Consumes
    BY <1>2 DEF LoseTransport, Reopen, Suspend, CutStream, Consumes
  <2> QED BY <1>1, <2>1, ConsumesKnown
<1>3. CASE ReopenFails \/ Gap \/ GapFails
  <2>1. Consumes
    BY <1>3 DEF ReopenFails, Gap, GapFails, CutStream, Consumes, history
  <2> QED BY <1>1, <2>1, ConsumesKnown
<1>4. ASSUME NEW m \in wire, LoseRequest(m) PROVE KnownInv'
  <2>1. Consumes
    BY <1>4 DEF LoseRequest, Consumes, history
  <2> QED BY <1>1, <2>1, ConsumesKnown
<1>5. CASE AnswerHydrate
  <2>1. UNCHANGED <<srv, inputs, wire, replies, notes, sends, steerSent>>
    BY <1>5 DEF AnswerHydrate, history
  <2>2. \A t \in Turns : snap'[t] \in {"active", "interrupting", "done"} => srv[t] # "none"
    BY <1>5 DEF AnswerHydrate, HydrateAnswers
  <2>3. StreamKnows'
    BY <2>1, <2>2 DEF KnownInv, StreamKnows
  <2>4. ServerKnows' /\ StartsKnow' /\ RepliesKnow'
    BY <2>1 DEF KnownInv, ServerKnows, StartsKnow, RepliesKnow
  <2>5. SteersOnce'
    BY <2>1 DEF KnownInv, SteersOnce, NoRepeat, InInputs
  <2> QED BY <1>1, <2>3, <2>4, <2>5 DEF KnownInv
<1>6. CASE Hydrated \/ Ready \/ Observe
  <2>1. Consumes
    BY <1>6 DEF Hydrated, Ready, Observe, Consumes, channels, history
  <2> QED BY <1>1, <2>1, ConsumesKnown
<1> QED BY <1>2, <1>3, <1>4, <1>5, <1>6 DEF Transport
-----------------------------------------------------------------------------
\* Core leaves a turn it knows known, and writes no frame.
Advances == sends' = sends /\ steerSent' = steerSent /\ \A t \in Turns : srv[t] # "none" => srv'[t] # "none"

\* The stream after a step of Core is the stream before it and what it emitted.
LEMMA EmitKnows ==
    ASSUME TypeOK, StreamKnows, SteersOnce, Advances, snap' = snap,
           NEW ns \in Seq(Notes), notes' = Emit(ns),
           \A i \in DOMAIN ns : /\ srv'[ns[i].turn] # "none"
                                /\ ns[i].kind = "dropped" => NoRepeat(ns[i].inputs)
    PROVE  /\ StreamKnows'
           /\ \A i \in DOMAIN notes' : notes'[i].kind = "dropped" => NoRepeat(notes'[i].inputs)
<1>1. notes \in Seq(Notes) /\ \A n \in Notes : n.turn \in Turns
    BY DEF TypeOK, Notes
<1>2. \A i \in DOMAIN notes : /\ srv'[notes[i].turn] # "none"
                              /\ notes[i].kind = "dropped" => NoRepeat(notes[i].inputs)
  <2>1. \A i \in DOMAIN notes : notes[i] \in Notes
    BY <1>1
  <2> QED BY <1>1, <2>1 DEF StreamKnows, SteersOnce, Advances
<1>3. \A i \in DOMAIN notes' : \/ \E j \in DOMAIN notes : notes'[i] = notes[j]
                               \/ \E j \in DOMAIN ns : notes'[i] = ns[j]
  <2>1. CASE notes' = notes
    BY <2>1
  <2>2. CASE notes' = notes \o ns
    <3>1. \A i \in DOMAIN (notes \o ns) :
             \/ i \in DOMAIN notes /\ (notes \o ns)[i] = notes[i]
             \/ i - Len(notes) \in DOMAIN ns /\ (notes \o ns)[i] = ns[i - Len(notes)]
        BY <1>1
    <3> QED BY <2>2, <3>1
  <2> QED BY <2>1, <2>2 DEF Emit
<1>4. \A t \in Turns : snap'[t] \in {"active", "interrupting", "done"} => srv'[t] # "none"
    BY DEF StreamKnows, Advances
<1> QED BY <1>2, <1>3, <1>4 DEF StreamKnows

\* Core says nothing to the client.
LEMMA SilentKnows ==
    ASSUME TypeOK, StreamKnows, SteersOnce, Advances, snap' = snap, notes' = notes
    PROVE  /\ StreamKnows'
           /\ \A i \in DOMAIN notes' : notes'[i].kind = "dropped" => NoRepeat(notes'[i].inputs)
<1>1. notes \in Seq(Notes) /\ \A n \in Notes : n.turn \in Turns
    BY DEF TypeOK, Notes
<1>2. \A i \in DOMAIN notes : notes[i].turn \in Turns
  <2>1. \A i \in DOMAIN notes : notes[i] \in Notes
    BY <1>1
  <2> QED BY <1>1, <2>1
<1> QED BY <1>2 DEF StreamKnows, SteersOnce, Advances

\* What remains of the invariant when the inputs and the steering frames stand still
\* or shrink.
LEMMA SteersRemain ==
    ASSUME SteersOnce, steerSent' = steerSent, wire' \subseteq wire, inputs' \in {inputs, <<>>},
           \A i \in DOMAIN notes' : notes'[i].kind = "dropped" => NoRepeat(notes'[i].inputs)
    PROVE  SteersOnce'
<1>1. NoRepeat(inputs') /\ \A i \in DOMAIN inputs' : inputs'[i] \in steerSent'
    BY DEF SteersOnce, NoRepeat
<1>2. \A p : InInputs(p)' => InInputs(p)
    BY DEF InInputs
<1> QED BY <1>1, <1>2 DEF SteersOnce

\* The shapes of requests and replies.
LEMMA RequestForms ==
    ASSUME NEW m \in Requests
    PROVE  /\ m.kind \in {"start", "interrupt", "steer"} /\ m.turn \in Turns
           /\ m.kind = "start" => m.turn \in Locals /\ m = [kind |-> "start", turn |-> m.turn]
           /\ m.kind = "steer" => m.turn \in Locals /\ m.to \in Turns
BY DEF Requests, Turns

LEMMA ReplyForms ==
    ASSUME NEW r \in Replies
    PROVE  /\ r.kind \in {"start", "steer"} /\ r.turn \in Locals /\ r.turn \in Turns
           /\ r.kind = "start" => r.result \in {"ack", "reject", "busy"}
           /\ r.kind = "start" /\ r.result = "busy" => r.by \in Turns
           /\ r.kind = "steer" => r.result \in {"steered", "reject", "fellback"}
BY DEF Replies, Turns

LEMMA CoreStartKnown ==
    ASSUME KnownInv, SentInv', NEW m \in wire, CoreStart(m)
    PROVE  KnownInv'
<1> USE DEF KnownInv
<1> DEFINE t == m.turn
           ack == [kind |-> "start", turn |-> t, result |-> "ack"]
           rej == [kind |-> "start", turn |-> t, result |-> "reject"]
           busy(f) == [kind |-> "start", turn |-> t, result |-> "busy", by |-> f]
           note == [kind |-> "started", turn |-> t]
<1>1. /\ m \in Requests /\ m.kind = "start" /\ wire' = wire \ {m}
      /\ UNCHANGED <<inputs, snap, sends, steerSent>>
    BY DEF CoreStart, SentInv, TypeOK
<1>2. m = [kind |-> "start", turn |-> t] /\ t \in Locals /\ t \in Turns
    BY <1>1 DEF Requests, Turns
<1>3. sends[t] > 0 /\ srv[t] = "none"
    BY <1>1 DEF StartsKnow
<1>4. \/ /\ srv' = [srv EXCEPT ![t] = "active"]
         /\ replies' = Reply(ack)
         /\ notes' = Emit(<<note>>)
      \/ \E f \in Foreground : replies' = Reply(busy(f)) /\ UNCHANGED <<srv, notes>>
      \/ replies' = Reply(rej) /\ UNCHANGED <<srv, notes>>
    BY DEF CoreStart
<1>5. Advances
    BY <1>1, <1>2, <1>4 DEF Advances, SentInv, TypeOK
<1>6. /\ StreamKnows'
      /\ \A i \in DOMAIN notes' : notes'[i].kind = "dropped" => NoRepeat(notes'[i].inputs)
  <2>1. CASE notes' = notes
    BY <1>1, <1>5, <2>1, SilentKnows DEF SentInv
  <2>2. CASE srv' = [srv EXCEPT ![t] = "active"] /\ notes' = Emit(<<note>>)
    <3>1. note \in Notes /\ note.turn = t /\ note.kind = "started"
        BY <1>2 DEF Notes
    <3> HIDE DEF note
    <3>2. <<note>> \in Seq(Notes) /\ \A i \in DOMAIN <<note>> : <<note>>[i] = note
        BY <3>1
    <3>3. srv'[t] # "none"
        BY <1>2, <2>2 DEF SentInv, TypeOK
    <3> QED BY <1>1, <1>5, <2>2, <3>1, <3>2, <3>3, EmitKnows DEF SentInv
  <2> QED BY <1>4, <2>1, <2>2
<1>7. \A u \in Turns : u # t => srv'[u] = srv[u]
    BY <1>4 DEF SentInv, TypeOK
<1>8. ServerKnows'
    BY <1>1, <1>3, <1>7 DEF ServerKnows, Turns
<1>9. StartsKnow'
  <2>1. \A x \in wire' : x.kind = "start" => x.turn # t
    <3>1. \A x \in wire' : x \in Requests /\ x # m
        BY <1>1 DEF SentInv, TypeOK
    <3>2. \A x \in Requests : x.kind = "start" => x = [kind |-> "start", turn |-> x.turn]
        BY RequestForms
    <3> QED BY <1>2, <3>1, <3>2, Zenon
  <2>2. \A x \in wire' : x \in wire /\ x.turn \in Turns
    BY <1>1 DEF SentInv, TypeOK, Requests, Turns
  <2> QED BY <1>1, <1>7, <2>1, <2>2 DEF StartsKnow
<1>10. RepliesKnow'
  <2>1. m \notin wire' /\ wire' \subseteq wire
    BY <1>1
  <2>2. \A r \in replies : /\ r.turn \in Turns
                           /\ r.kind = "start" => r.turn # t
                           /\ r.kind = "start" /\ r.result = "busy" => r.by \in Turns
    <3>1. \A r \in replies : r \in Replies
        BY DEF SentInv, TypeOK
    <3>2. \A r \in replies : r.kind = "start" => [kind |-> "start", turn |-> r.turn] # m
        BY DEF RepliesKnow
    <3>3. \A r \in replies : r.kind = "start" => r.turn # t
        BY <1>2, <3>2, Zenon
    <3>4. \A r \in Replies : /\ r.turn \in Turns
                             /\ r.kind = "start" /\ r.result = "busy" => r.by \in Turns
        BY ReplyForms
    <3> QED BY <3>1, <3>3, <3>4, Zenon
  <2>3. ASSUME NEW r \in replies', r \in replies
        PROVE  /\ r.kind = "start" =>
                     /\ sends'[r.turn] > 0
                     /\ [kind |-> "start", turn |-> r.turn] \notin wire'
                     /\ r.result = "ack" => srv'[r.turn] # "none"
                     /\ r.result # "ack" => srv'[r.turn] = "none"
                     /\ r.result = "busy" => srv'[r.by] # "none"
               /\ r.kind = "steer" /\ r.result = "fellback" => r.by \in Foreign
    <3> HIDE DEF t
    <3> QED BY <1>1, <1>5, <1>7, <2>1, <2>2, <2>3 DEF RepliesKnow, Advances
  <2>4. ASSUME NEW r \in replies', r \notin replies
        PROVE  /\ r.kind = "start" /\ r.turn = t
               /\ r.result = "ack" => srv'[t] # "none"
               /\ r.result # "ack" => srv' = srv
               /\ r.result = "busy" => r.by \in Foreground
    BY <1>2, <1>4, <2>4 DEF Reply, SentInv, TypeOK
  <2>5. \A f \in Foreground : srv[f] # "none" /\ f \in Turns
    BY DEF Foreground
  <2>6. ASSUME NEW r \in replies', r \notin replies
        PROVE  /\ r.kind = "start"
               /\ sends'[r.turn] > 0
               /\ [kind |-> "start", turn |-> r.turn] \notin wire'
               /\ r.result = "ack" => srv'[r.turn] # "none"
               /\ r.result # "ack" => srv'[r.turn] = "none"
               /\ r.result = "busy" => srv'[r.by] # "none"
    <3>1. /\ r.kind = "start" /\ r.turn = t
          /\ r.result = "ack" => srv'[t] # "none"
          /\ r.result # "ack" => srv' = srv
          /\ r.result = "busy" => r.by \in Foreground
        BY <2>4, <2>6
    <3>2. [kind |-> "start", turn |-> r.turn] = m
        BY <1>2, <3>1
    <3> HIDE DEF t
    <3> QED BY <1>1, <1>3, <1>5, <2>1, <2>5, <3>1, <3>2 DEF Advances
  <2>7. \A r \in replies' : r \in replies \/ r \notin replies
    OBVIOUS
  <2> QED BY <2>3, <2>6, <2>7 DEF RepliesKnow
<1>11. SteersOnce'
    BY <1>1, <1>6, SteersRemain
<1> QED BY <1>6, <1>8, <1>9, <1>10, <1>11

\* A step of Core that answers no start and starts no turn of this client.
LEMMA CoreKeepsKnown ==
    ASSUME KnownInv, Advances, wire' \subseteq wire,
           \A t \in Locals : srv[t] = "none" => srv'[t] = "none",
           \A r \in replies' : \/ r \in replies
                               \/ r.kind = "steer" /\ (r.result = "fellback" => r.by \in Foreign)
    PROVE  ServerKnows' /\ StartsKnow' /\ RepliesKnow'
<1> USE DEF KnownInv
<1>1. ServerKnows'
    BY DEF ServerKnows, Advances
<1>2. StartsKnow'
  <2>1. \A m \in wire : m.kind = "start" => m.turn \in Locals
    BY RequestForms DEF SentInv, TypeOK
  <2> QED BY <2>1 DEF StartsKnow, Advances
<1>3. RepliesKnow'
  <2>1. \A r \in replies : /\ r.turn \in Locals
                           /\ r.kind = "start" /\ r.result = "busy" => r.by \in Turns
    BY ReplyForms DEF SentInv, TypeOK
  <2>2. ASSUME NEW r \in replies', r.kind = "start"
        PROVE  /\ sends'[r.turn] > 0
               /\ [kind |-> "start", turn |-> r.turn] \notin wire'
               /\ r.result = "ack" => srv'[r.turn] # "none"
               /\ r.result # "ack" => srv'[r.turn] = "none"
               /\ r.result = "busy" => srv'[r.by] # "none"
    <3>1. r \in replies
        BY <2>2
    <3> QED BY <2>1, <2>2, <3>1 DEF RepliesKnow, Advances, Turns
  <2>3. ASSUME NEW r \in replies', r.kind = "steer", r.result = "fellback"
        PROVE  r.by \in Foreign
    BY <2>3 DEF RepliesKnow
  <2> QED BY <2>2, <2>3 DEF RepliesKnow
<1> QED BY <1>1, <1>2, <1>3

\* A turn of another client starts.
LEMMA ForeignAdvances ==
    ASSUME KnownInv, NEW f \in Foreign, srv' = [srv EXCEPT ![f] = "active"],
           UNCHANGED <<sends, steerSent, snap>>,
           notes' = Emit(<<[kind |-> "started", turn |-> f]>>)
    PROVE  /\ Advances
           /\ \A t \in Locals : srv[t] = "none" => srv'[t] = "none"
           /\ StreamKnows'
           /\ \A i \in DOMAIN notes' : notes'[i].kind = "dropped" => NoRepeat(notes'[i].inputs)
<1> DEFINE note == [kind |-> "started", turn |-> f]
<1>1. f \in Turns /\ f \notin Locals /\ srv'[f] = "active"
    BY TurnsAssumption DEF Turns, KnownInv, SentInv, TypeOK
<1>2. Advances
    BY <1>1 DEF Advances, KnownInv, SentInv, TypeOK
<1>3. \A t \in Locals : srv[t] = "none" => srv'[t] = "none"
    BY <1>1 DEF KnownInv, SentInv, TypeOK, Turns
<1>4. note \in Notes /\ note.turn = f /\ note.kind = "started"
    BY <1>1 DEF Notes
<1>5. notes' = Emit(<<note>>)
    OBVIOUS
<1> HIDE DEF note
<1>6. <<note>> \in Seq(Notes) /\ \A i \in DOMAIN <<note>> : <<note>>[i] = note
    BY <1>4
<1>7. srv'[f] # "none"
    BY <1>1
<1> QED BY <1>2, <1>3, <1>4, <1>5, <1>6, <1>7, EmitKnows DEF KnownInv, SentInv

LEMMA CoreSteerKnown ==
    ASSUME KnownInv, SentInv', NEW m \in wire, CoreSteer(m)
    PROVE  KnownInv'
<1> USE DEF KnownInv
<1> DEFINE p == m.turn
           yes == [kind |-> "steer", turn |-> p, result |-> "steered"]
           rej == [kind |-> "steer", turn |-> p, result |-> "reject"]
           new(f) == [kind |-> "steer", turn |-> p, result |-> "fellback", by |-> f]
<1>1. /\ m \in Requests /\ m.kind = "steer" /\ wire' = wire \ {m}
      /\ UNCHANGED <<snap, sends, steerSent>>
    BY DEF CoreSteer, SentInv, TypeOK
<1>2. p \in Locals /\ p \in steerSent /\ ~InInputs(p)
    BY <1>1, RequestForms DEF SteersOnce
<1>3. CASE inputs' = Append(inputs, p) /\ replies' = Reply(yes) /\ UNCHANGED <<srv, notes>>
  <2>1. Advances
    BY <1>1, <1>3 DEF Advances
  <2>2. \A r \in replies' : r \in replies \/ (r.kind = "steer" /\ r.result # "fellback")
    BY <1>3 DEF Reply
  <2> HIDE DEF yes, p
  <2>3. ServerKnows' /\ StartsKnow' /\ RepliesKnow'
    BY <1>1, <1>3, <2>1, <2>2, CoreKeepsKnown
  <2>4. /\ StreamKnows'
        /\ \A i \in DOMAIN notes' : notes'[i].kind = "dropped" => NoRepeat(notes'[i].inputs)
    BY <1>1, <1>3, <2>1, SilentKnows DEF SentInv
  <2>5. SteersOnce'
    <3>1. inputs \in Seq(Locals)
        BY DEF SentInv, TypeOK
    <3>2. /\ DOMAIN inputs' = 1..Len(inputs) + 1
          /\ DOMAIN inputs = 1..Len(inputs)
          /\ \A i \in 1..Len(inputs) : inputs'[i] = inputs[i]
          /\ inputs'[Len(inputs) + 1] = p
          /\ Len(inputs) \in Nat
        BY <1>2, <1>3, <3>1
    <3>3. \A q : InInputs(q)' => InInputs(q) \/ q = p
        BY <3>2 DEF InInputs
    <3>4. NoRepeat(inputs)'
        BY <1>2, <3>2 DEF SteersOnce, NoRepeat, InInputs
    <3>5. \A i \in DOMAIN inputs' : inputs'[i] \in steerSent'
        BY <1>1, <1>2, <3>2 DEF SteersOnce
    <3>6. \A x \in wire' : x.kind = "steer" => x.turn # p
        BY <1>1 DEF SteersOnce, p
    <3> QED BY <1>1, <2>4, <3>3, <3>4, <3>5, <3>6 DEF SteersOnce
  <2> QED BY <2>3, <2>4, <2>5
<1>4. ASSUME NEW f \in Foreign, srv' = [srv EXCEPT ![f] = "active"], replies' = Reply(new(f)),
             notes' = Emit(<<[kind |-> "started", turn |-> f]>>), inputs' = inputs
      PROVE  KnownInv'
  <2>1. /\ Advances
        /\ \A t \in Locals : srv[t] = "none" => srv'[t] = "none"
        /\ StreamKnows'
        /\ \A i \in DOMAIN notes' : notes'[i].kind = "dropped" => NoRepeat(notes'[i].inputs)
    BY <1>1, <1>4, ForeignAdvances
  <2>2. \A r \in replies' : r \in replies \/ (r.kind = "steer" /\ r.by = f)
    BY <1>4 DEF Reply
  <2> HIDE DEF new, p
  <2>3. ServerKnows' /\ StartsKnow' /\ RepliesKnow'
    BY <1>1, <2>1, <2>2, CoreKeepsKnown
  <2>4. SteersOnce'
    BY <1>1, <1>4, <2>1, SteersRemain
  <2> QED BY <2>1, <2>3, <2>4
<1>5. CASE replies' = Reply(rej) /\ UNCHANGED <<srv, inputs, notes>>
  <2>1. Advances
    BY <1>1, <1>5 DEF Advances
  <2>2. \A r \in replies' : r \in replies \/ (r.kind = "steer" /\ r.result # "fellback")
    BY <1>5 DEF Reply
  <2> HIDE DEF rej, p
  <2>3. ServerKnows' /\ StartsKnow' /\ RepliesKnow'
    BY <1>1, <1>5, <2>1, <2>2, CoreKeepsKnown
  <2>4. /\ StreamKnows'
        /\ \A i \in DOMAIN notes' : notes'[i].kind = "dropped" => NoRepeat(notes'[i].inputs)
    BY <1>1, <1>5, <2>1, SilentKnows DEF SentInv
  <2>5. SteersOnce'
    BY <1>1, <1>5, <2>4, SteersRemain
  <2> QED BY <2>3, <2>4, <2>5
<1>6. \/ inputs' = Append(inputs, p) /\ replies' = Reply(yes) /\ UNCHANGED <<srv, notes>>
      \/ \E f \in Foreign : /\ srv' = [srv EXCEPT ![f] = "active"] /\ replies' = Reply(new(f))
                            /\ notes' = Emit(<<[kind |-> "started", turn |-> f]>>)
                            /\ inputs' = inputs
      \/ replies' = Reply(rej) /\ UNCHANGED <<srv, inputs, notes>>
    BY DEF CoreSteer
<1> HIDE DEF yes, rej, new, p
<1> QED BY <1>3, <1>4, <1>5, <1>6

LEMMA CoreEndKnown ==
    ASSUME KnownInv, SentInv', NEW t \in Turns, CoreEnd(t)
    PROVE  KnownInv'
<1> USE DEF KnownInv
<1> DEFINE drop == [kind |-> "dropped", turn |-> t, inputs |-> inputs]
           end == [kind |-> "terminal", turn |-> t]
           ns == (IF inputs = <<>> THEN <<>> ELSE <<drop>>) \o <<end>>
<1>1. /\ srv' = [srv EXCEPT ![t] = "done"] /\ srv[t] # "none" /\ inputs' = <<>>
      /\ UNCHANGED <<wire, replies, snap, sends, steerSent>>
      /\ notes' = Emit(ns)
    BY DEF CoreEnd, Foreground
<1>2. Advances /\ srv'[t] # "none" /\ \A u \in Turns : srv[u] = "none" => srv'[u] = "none"
    BY <1>1 DEF Advances, SentInv, TypeOK
<1>3. drop \in Notes /\ end \in Notes
    BY DEF Notes, SentInv, TypeOK
<1>4. /\ drop.turn = t /\ end.turn = t /\ end.kind # "dropped" /\ drop.inputs = inputs
    OBVIOUS
<1> HIDE DEF drop, end
<1>5. ns \in Seq(Notes)
    BY <1>3
<1>6. \A i \in DOMAIN ns : ns[i] \in {drop, end}
    OBVIOUS
<1> HIDE DEF ns
<1>7. NoRepeat(inputs)
    BY DEF SteersOnce
<1>8. \A i \in DOMAIN ns : srv'[ns[i].turn] # "none" /\ (ns[i].kind = "dropped" => NoRepeat(ns[i].inputs))
    BY <1>2, <1>4, <1>6, <1>7
<1>9. /\ StreamKnows'
      /\ \A i \in DOMAIN notes' : notes'[i].kind = "dropped" => NoRepeat(notes'[i].inputs)
    BY <1>1, <1>2, <1>5, <1>8, EmitKnows DEF SentInv
<1>10. ServerKnows' /\ StartsKnow' /\ RepliesKnow'
    BY <1>1, <1>2, CoreKeepsKnown DEF Turns
<1>11. SteersOnce'
    BY <1>1, <1>9, SteersRemain
<1> QED BY <1>9, <1>10, <1>11

LEMMA CoreKnown ==
    ASSUME KnownInv, Core
    PROVE  KnownInv'
<1>1. SentInv'
    BY CoreInv DEF KnownInv
<1>2. ASSUME NEW f \in Foreign, ForeignStart(f) PROVE KnownInv'
  <2>1. UNCHANGED <<wire, replies, inputs, sends, steerSent, snap>>
    BY <1>2 DEF ForeignStart, history
  <2>2. /\ Advances
        /\ \A t \in Locals : srv[t] = "none" => srv'[t] = "none"
        /\ StreamKnows'
        /\ \A i \in DOMAIN notes' : notes'[i].kind = "dropped" => NoRepeat(notes'[i].inputs)
    BY <1>2, <2>1, ForeignAdvances DEF ForeignStart
  <2>3. ServerKnows' /\ StartsKnow' /\ RepliesKnow'
    BY <2>1, <2>2, CoreKeepsKnown
  <2>4. SteersOnce'
    BY <2>1, <2>2, SteersRemain DEF KnownInv
  <2> QED BY <1>1, <2>2, <2>3, <2>4 DEF KnownInv
<1>3. ASSUME NEW m \in wire, CoreInterrupt(m) PROVE KnownInv'
  <2>1. /\ wire' = wire \ {m} /\ UNCHANGED <<replies, notes, inputs, sends, steerSent, snap>>
        /\ srv' = [srv EXCEPT ![m.turn] = IF @ = "active" THEN "interrupting" ELSE @]
    BY <1>3 DEF CoreInterrupt, history
  <2>2. Advances /\ \A t \in Turns : srv[t] = "none" => srv'[t] = "none"
    BY <2>1 DEF Advances, KnownInv, SentInv, TypeOK
  <2>3. /\ StreamKnows'
        /\ \A i \in DOMAIN notes' : notes'[i].kind = "dropped" => NoRepeat(notes'[i].inputs)
    BY <2>1, <2>2, SilentKnows DEF KnownInv, SentInv
  <2>4. ServerKnows' /\ StartsKnow' /\ RepliesKnow'
    BY <2>1, <2>2, CoreKeepsKnown DEF Turns
  <2>5. SteersOnce'
    BY <2>1, <2>3, SteersRemain DEF KnownInv
  <2> QED BY <1>1, <2>3, <2>4, <2>5 DEF KnownInv
<1>4. CASE CoreDrain
  <2>1. UNCHANGED <<srv, wire, replies, notes, sends, steerSent, snap>> /\ inputs' = <<>>
    BY <1>4 DEF CoreDrain, channels
  <2>2. Advances
    BY <2>1 DEF Advances
  <2>3. /\ StreamKnows'
        /\ \A i \in DOMAIN notes' : notes'[i].kind = "dropped" => NoRepeat(notes'[i].inputs)
    BY <2>1, <2>2, SilentKnows DEF KnownInv, SentInv
  <2>4. ServerKnows' /\ StartsKnow' /\ RepliesKnow'
    BY <2>1, <2>2, CoreKeepsKnown
  <2>5. SteersOnce'
    BY <2>1, <2>3, SteersRemain DEF KnownInv
  <2> QED BY <1>1, <2>3, <2>4, <2>5 DEF KnownInv
<1> QED BY <1>1, <1>2, <1>3, <1>4, CoreStartKnown, CoreSteerKnown, CoreEndKnown DEF Core

LEMMA NextKnownInv == KnownInv /\ [Next]_vars => KnownInv'
<1> SUFFICES ASSUME KnownInv, [Next]_vars PROVE KnownInv'
    OBVIOUS
<1>1. CASE Next
    BY <1>1, UserKnown, ClientKnown, TransportKnown, CoreKnown DEF Next
<1>2. CASE UNCHANGED vars
  <2>1. SentInv' /\ Consumes
    BY <1>2, NextSentInv DEF vars, KnownInv, Consumes, channels, history
  <2> QED BY <2>1, ConsumesKnown
<1> QED BY <1>1, <1>2
-----------------------------------------------------------------------------
(* The controller is orderly, and what it may still send nobody has. *)

\* A start that the controller takes as accepted before its acknowledgement is known
\* to Core.
AcceptedKnown == Accepted(ctl) => ctl.startReq \in Turns /\ srv[ctl.startReq] # "none"

StartFrame(p) == \E m \in wire : m.kind = "start" /\ m.turn = p
SteerFrame(p) == \E m \in wire : m.kind = "steer" /\ m.turn = p

\* No copy of the prompt is on its way to the model or has reached it.
Fresh(p) == ~StartFrame(p) /\ ~SteerFrame(p) /\ ~InInputs(p) /\ runs[p] = 0

\* A prompt is in one place: a start frame, a steering frame, an input of Core, or the
\* model.
OnePlace ==
    \A p \in Locals :
        /\ StartFrame(p) => ~SteerFrame(p) /\ ~InInputs(p) /\ runs[p] = 0
        /\ SteerFrame(p) => ~InInputs(p) /\ runs[p] = 0
        /\ InInputs(p) => runs[p] = 0
        /\ runs[p] > 0 => sends[p] > 0 \/ p \in steerSent
        /\ runs[p] <= 1

\* Core refused p as steering, or returned it undelivered.
ComesBack(p) ==
    \/ p \in Returned(notes)
    \/ \E r \in replies : r.kind = "steer" /\ r.result = "reject" /\ r.turn = p

\* Text that was sent as steering is known as such to both sides, and unsent text is
\* marked unsent.
SteersKnown ==
    /\ \A r \in replies : r.kind = "steer" => r.turn \in steerSent
    /\ Returned(notes) \subseteq steerSent
    /\ \A e \in ctl.retained : ~e.sent => e.turn \notin steerSent
    /\ ctl.link # "closed" => steerSent \subseteq ctl.steerAdmitted
    /\ ctl.steerReq # NoTurn => ctl.steerReq \in ctl.steerAdmitted

\* Whatever the controller may start or steer, and held text that comes back, is fresh.
StillFresh ==
    /\ \A p \in Startable(ctl) : Fresh(p)
    /\ \A p \in RetainedTurns(ctl) : ComesBack(p) => Fresh(p)
    /\ ctl.steerReq # NoTurn /\ ctl.steerReq \notin steerSent
       => Fresh(ctl.steerReq) /\ ctl.steerReq \notin Startable(ctl)

TurnInv ==
    /\ KnownInv
    /\ Orderly(ctl)
    /\ AcceptedKnown
    /\ OnePlace
    /\ SteersKnown
    /\ StillFresh

LEMMA InitTurnInv == Init => TurnInv
<1> SUFFICES ASSUME Init PROVE TurnInv
    OBVIOUS
<1>1. KnownInv
    BY InitKnownInv
<1>2. Orderly(ctl) /\ Startable(ctl) = {} /\ ~Accepted(ctl)
  <2>1. ctl = InitController
    BY DEF Init
  <2>2. /\ ctl.q = EmptyQueue /\ ctl.local = NoTurn /\ ctl.dispatching = NoTurn
        /\ ctl.owner = NoOwner /\ ctl.preflight = NoTurn /\ ctl.stage = "none"
        /\ ctl.retained = {} /\ ctl.steerReq = NoTurn /\ ctl.hydrated = NoHydrated
    BY <2>1 DEF InitController
  <2> QED BY <2>2, FreshIsOrderly
<1>3. ctl.retained = {} /\ ctl.steerReq = NoTurn
    BY DEF Init, InitController
<1>4. OnePlace
    BY DEF Init, OnePlace, StartFrame, SteerFrame, InInputs, Turns
<1>5. SteersKnown /\ StillFresh
    BY <1>2, <1>3 DEF Init, SteersKnown, StillFresh, RetainedTurns, Returned
<1> QED BY <1>1, <1>2, <1>4, <1>5 DEF TurnInv, AcceptedKnown

\* Of what could carry a prompt to the model, a step of the client that sends nothing
\* adds none.
LEMMA ConsumesFresh ==
    ASSUME TypeOK, Consumes, runs' = runs
    PROVE  /\ \A p : /\ StartFrame(p)' => StartFrame(p)
                     /\ SteerFrame(p)' => SteerFrame(p)
                     /\ InInputs(p)' <=> InInputs(p)
                     /\ Fresh(p) => Fresh(p)'
                     /\ ComesBack(p)' => ComesBack(p)
           /\ Returned(notes') \subseteq Returned(notes)
<1>1. \A m \in wire' : m \in wire \/ m.kind = "interrupt"
    BY DEF Consumes, Interrupts
<1>2. \A p : (StartFrame(p)' => StartFrame(p)) /\ (SteerFrame(p)' => SteerFrame(p))
    BY <1>1 DEF StartFrame, SteerFrame
<1>3. \A p : InInputs(p)' <=> InInputs(p)
    BY DEF InInputs, Consumes
<1>4. \A p : Fresh(p) => Fresh(p)'
    BY <1>2, <1>3 DEF Fresh
<1>5. Returned(notes') \subseteq Returned(notes)
  <2>1. \A i \in DOMAIN notes' : \E j \in DOMAIN notes : notes'[i] = notes[j]
    BY ConsumesNotes
  <2>2. SUFFICES ASSUME NEW p \in Returned(notes') PROVE p \in Returned(notes)
    OBVIOUS
  <2>3. PICK i \in DOMAIN notes' : /\ notes'[i].kind = "dropped"
                                   /\ \E k \in DOMAIN notes'[i].inputs : p = notes'[i].inputs[k]
    BY DEF Returned
  <2>4. PICK j \in DOMAIN notes : notes'[i] = notes[j]
    BY <2>1
  <2> QED BY <2>3, <2>4 DEF Returned
<1>6. \A p : ComesBack(p)' => ComesBack(p)
    BY <1>5 DEF ComesBack, Consumes
<1> QED BY <1>2, <1>3, <1>4, <1>5, <1>6

\* A handler of an orderly controller, whose newly startable prompts are fresh.
LEMMA ControllerMoves ==
    ASSUME TurnInv, KnownInv', Consumes, runs' = runs, NEW new,
           Orderly(ctl'), Startable(ctl') \subseteq Startable(ctl) \cup new,
           \A p \in new : Fresh(p),
           Holds(ctl, ctl'), ctl'.steerReq \in {ctl.steerReq, NoTurn},
           ctl'.steerReq \in new => ctl'.steerReq \in steerSent \cup {NoTurn},
           AcceptedKnown', ctl.steerAdmitted \subseteq ctl'.steerAdmitted,
           ctl.link = "closed" => ctl'.link = "closed"
    PROVE  TurnInv'
<1> USE DEF TurnInv
<1>1. /\ \A p : /\ StartFrame(p)' => StartFrame(p)
                /\ SteerFrame(p)' => SteerFrame(p)
                /\ InInputs(p)' <=> InInputs(p)
                /\ Fresh(p) => Fresh(p)'
                /\ ComesBack(p)' => ComesBack(p)
      /\ Returned(notes') \subseteq Returned(notes)
    BY ConsumesFresh DEF KnownInv, SentInv
<1>2. OnePlace'
    BY <1>1 DEF OnePlace, Consumes
<1>3. SteersKnown'
  <2>1. \A e \in ctl'.retained : ~e.sent => e.turn \notin steerSent
    BY DEF Holds, SteersKnown
  <2> QED BY <1>1, <2>1 DEF SteersKnown, Consumes
<1>4. StillFresh'
  <2>1. \A p \in Startable(ctl') : Fresh(p)'
    BY <1>1 DEF StillFresh
  <2>2. \A p \in RetainedTurns(ctl') : p \in RetainedTurns(ctl)
    BY HoldsTurns
  <2>3. \A p \in RetainedTurns(ctl') : ComesBack(p)' => Fresh(p)'
    BY <1>1, <2>2 DEF StillFresh
  <2>4. ASSUME ctl'.steerReq # NoTurn, ctl'.steerReq \notin steerSent'
        PROVE  Fresh(ctl.steerReq)' /\ ctl'.steerReq \notin Startable(ctl')
    <3>1. ctl'.steerReq = ctl.steerReq /\ steerSent' = steerSent
        BY <2>4 DEF Consumes
    <3>2. Fresh(ctl.steerReq) /\ ctl.steerReq \notin Startable(ctl)
        BY <2>4, <3>1 DEF StillFresh
    <3>3. ctl'.steerReq \notin Startable(ctl')
        BY <2>4, <3>1, <3>2
    <3>4. Fresh(ctl.steerReq)'
      <4>1. PICK q : q = ctl.steerReq
        OBVIOUS
      <4>2. q = ctl'.steerReq /\ Fresh(q)'
        BY <1>1, <3>1, <3>2, <4>1
      <4> QED BY <4>2 DEF Fresh, StartFrame, SteerFrame, InInputs
    <3> QED BY <3>3, <3>4
  <2> QED BY <2>1, <2>3, <2>4 DEF StillFresh
<1> QED BY <1>2, <1>3, <1>4

\* The same for a handler that keeps and orders the controller.
LEMMA OrderedMoves ==
    ASSUME TurnInv, KnownInv', Consumes, runs' = runs,
           Orders(ctl, ctl'), Keeps(ctl, ctl')
    PROVE  TurnInv'
<1>1. AcceptedKnown'
    BY DEF TurnInv, AcceptedKnown, Orders, Consumes
<1>2. PICK new : new = {}
    OBVIOUS
<1>3. /\ Orderly(ctl') /\ Startable(ctl') \subseteq Startable(ctl) \cup new
      /\ Holds(ctl, ctl') /\ ctl'.steerReq \in {ctl.steerReq, NoTurn}
    BY <1>2 DEF Orders
<1>4. ctl.steerAdmitted \subseteq ctl'.steerAdmitted /\ ctl'.link = ctl.link
    BY DEF Keeps
<1> QED BY <1>1, <1>2, <1>3, <1>4, ControllerMoves

\* A prompt the controller has neither attempted nor admitted as steering is fresh.
LEMMA NewIsFresh ==
    ASSUME TurnInv, NEW t \in Locals, ctl.link # "closed",
           t \notin ctl.attempted, t \notin ctl.steerAdmitted
    PROVE  Fresh(t) /\ t \notin steerSent
<1> USE DEF TurnInv
<1>1. t \in Unsent(ctl)
    BY DEF Unsent, Turns
<1>2. sends[t] = 0
    BY <1>1, UnsentUnknown
<1>3. t \notin steerSent
    BY DEF SteersKnown
<1>4. ~StartFrame(t)
  <2>1. \A m \in wire : m.kind = "start" => sends[m.turn] > 0
    BY DEF KnownInv, StartsKnow
  <2>2. ~(sends[t] > 0)
    BY <1>2
  <2> QED BY <2>1, <2>2, Zenon DEF StartFrame
<1>5. ~SteerFrame(t) /\ ~InInputs(t)
    BY <1>3 DEF KnownInv, SteersOnce, SteerFrame, InInputs
<1>6. runs[t] = 0
  <2>1. runs[t] \in Nat
    BY DEF KnownInv, SentInv, TypeOK, Turns
  <2> QED BY <1>2, <1>3, <2>1 DEF OnePlace
<1> QED BY <1>3, <1>4, <1>5, <1>6 DEF Fresh

LEMMA AdmitTurn ==
    ASSUME TurnInv, KnownInv', NEW t \in Locals, Admit(t)
    PROVE  TurnInv'
<1> USE DEF TurnInv
<1>1. MayEnqueue(ctl, t) /\ ctl' = EnqueueTurn(ctl, t) /\ ctl.link = "ready"
    BY DEF Admit, MayEnqueue
<1>2. t \notin ctl.attempted /\ t \notin ctl.steerAdmitted
    BY <1>1 DEF MayEnqueue
<1>3. OrdersWith(ctl, ctl', {t}) /\ Keeps(ctl, ctl')
    BY <1>1, EnqueueTurnOrders, EnqueueTurnKeeps DEF KnownInv, SentInv, Turns
<1>4. Consumes /\ runs' = runs
    BY DEF Admit, Consumes, channels
<1>5. Fresh(t)
    BY <1>1, <1>2, NewIsFresh
<1>6. AcceptedKnown'
    BY <1>3, <1>4 DEF AcceptedKnown, OrdersWith, Consumes
<1>7. PICK new : new = {t}
    OBVIOUS
<1>8. /\ Orderly(ctl') /\ Startable(ctl') \subseteq Startable(ctl) \cup new
      /\ Holds(ctl, ctl') /\ ctl'.steerReq \in {ctl.steerReq, NoTurn}
    BY <1>3, <1>7 DEF OrdersWith
<1>9. ctl'.steerReq \in new => ctl'.steerReq \in steerSent \cup {NoTurn}
    BY <1>2, <1>7, <1>8 DEF SteersKnown
<1>10. ctl.steerAdmitted \subseteq ctl'.steerAdmitted /\ ctl'.link = ctl.link
    BY <1>3 DEF Keeps
<1> QED BY <1>4, <1>5, <1>6, <1>7, <1>8, <1>9, <1>10, ControllerMoves

LEMMA SubmitTurn ==
    ASSUME TurnInv, KnownInv', NEW t \in Steerable, Submit(t)
    PROVE  TurnInv'
<1> USE DEF TurnInv
<1>1. /\ t \in Locals /\ CanSteerText(ctl) /\ ctl.link = "ready" /\ ctl' = SubmitSteer(ctl, t)
      /\ t \notin ctl.attempted /\ t \notin ctl.steerAdmitted
    BY SystemAssumption DEF Submit, CanSteerText
<1>2. /\ Orderly(ctl') /\ Startable(ctl') = Startable(ctl) /\ Accepted(ctl') = Accepted(ctl)
      /\ \A e \in ctl'.retained : e \in ctl.retained \/ (e.turn = t /\ ~e.sent)
      /\ ctl'.startReq = ctl.startReq /\ ctl'.link = ctl.link /\ ctl'.q = ctl.q
      /\ ctl'.steerReq = t
    BY <1>1, SubmitSteerOrders DEF KnownInv, SentInv
<1>3. ctl'.steerAdmitted = ctl.steerAdmitted \cup {t}
    BY <1>1 DEF SubmitSteer, KnownInv, SentInv, WellFormed, Controllers
<1>4. Consumes /\ runs' = runs
    BY DEF Submit, Consumes, channels, history
<1>5. Fresh(t) /\ t \notin steerSent
    BY <1>1, NewIsFresh
<1>6. /\ \A p : /\ StartFrame(p)' => StartFrame(p)
                /\ SteerFrame(p)' => SteerFrame(p)
                /\ InInputs(p)' <=> InInputs(p)
                /\ Fresh(p) => Fresh(p)'
                /\ ComesBack(p)' => ComesBack(p)
      /\ Returned(notes') \subseteq Returned(notes)
    BY <1>4, ConsumesFresh DEF KnownInv, SentInv
<1>7. t \notin Startable(ctl)
  <2>1. t \notin QueuedIds(ctl.q) \ ctl.attempted
    BY <1>1 DEF CanSteerText, QueuedIds, Active, Ids
  <2>2. ctl.preflight # t
    BY <1>1, TurnsAssumption DEF Orderly, Leased
  <2> QED BY <2>1, <2>2 DEF Startable
<1>8. AcceptedKnown'
    BY <1>2, <1>4 DEF AcceptedKnown, Consumes
<1>9. OnePlace'
    BY <1>4, <1>6 DEF OnePlace, Consumes
<1>10. SteersKnown'
    BY <1>2, <1>3, <1>4, <1>5, <1>6 DEF SteersKnown, Consumes
<1>11. StillFresh'
  <2>1. \A p \in Startable(ctl') : Fresh(p)'
    BY <1>2, <1>6 DEF StillFresh
  <2>2. \A p \in RetainedTurns(ctl') : p \in RetainedTurns(ctl) \/ p = t
    BY <1>2 DEF RetainedTurns
  <2>3. \A p \in RetainedTurns(ctl') : ComesBack(p)' => Fresh(p)'
    BY <1>5, <1>6, <2>2 DEF StillFresh
  <2>4. Fresh(ctl.steerReq)'
    BY <1>2, <1>5, <1>6 DEF Fresh, StartFrame, SteerFrame, InInputs
  <2> QED BY <1>2, <1>7, <2>1, <2>3, <2>4 DEF StillFresh
<1> QED BY <1>2, <1>8, <1>9, <1>10, <1>11

\* A step after which the controller holds nothing and cannot be asked for anything.
LEMMA RetireTurn ==
    ASSUME TurnInv, KnownInv', Retire
    PROVE  TurnInv'
<1> USE DEF TurnInv
<1>1. Consumes /\ runs' = runs
    BY DEF Retire, CutStream, Consumes
<1>2. /\ \A p : /\ StartFrame(p)' => StartFrame(p)
                /\ SteerFrame(p)' => SteerFrame(p)
                /\ InInputs(p)' <=> InInputs(p)
                /\ Fresh(p) => Fresh(p)'
                /\ ComesBack(p)' => ComesBack(p)
      /\ Returned(notes') \subseteq Returned(notes)
    BY <1>1, ConsumesFresh DEF KnownInv, SentInv
<1>3. /\ ctl'.q = EmptyQueue /\ ctl'.local = NoTurn /\ ctl'.dispatching = NoTurn
      /\ ctl'.owner = NoOwner /\ ctl'.preflight = NoTurn /\ ctl'.stage = "none"
      /\ ctl'.retained = {} /\ ctl'.steerReq = NoTurn /\ ctl'.hydrated = NoHydrated
      /\ ctl'.link = "closed"
    BY DEF Retire, Reset, InitController
<1>4. Orderly(ctl') /\ Startable(ctl') = {} /\ ~Accepted(ctl')
    BY <1>3, FreshIsOrderly
<1>5. OnePlace'
    BY <1>1, <1>2 DEF OnePlace, Consumes
<1>6. SteersKnown' /\ StillFresh'
    BY <1>1, <1>2, <1>3, <1>4 DEF SteersKnown, StillFresh, RetainedTurns, Consumes
<1> QED BY <1>4, <1>5, <1>6 DEF AcceptedKnown

LEMMA UserTurn ==
    ASSUME TurnInv, User
    PROVE  TurnInv'
<1> USE DEF TurnInv
<1>1. KnownInv' /\ WellFormed(ctl) /\ Orderly(ctl)
    BY UserKnown DEF KnownInv, SentInv
<1>2. ASSUME NEW t \in Locals, Cancel(t) PROVE TurnInv'
  <2>1. Consumes /\ runs' = runs
    BY <1>2 DEF Cancel, Consumes, channels
  <2>2. Orders(ctl, ctl') /\ Keeps(ctl, ctl')
    BY <1>1, <1>2, CancelQueuedPromptOrders, CancelQueuedPromptKeeps DEF Cancel
  <2> QED BY <1>1, <2>1, <2>2, OrderedMoves
<1>3. CASE Stop \/ SendPendingNow
  <2>1. Active(ctl) \in Turns
    BY <1>3, ActiveType DEF Stop, SendPendingNow, MayInterrupt, KnownInv, SentInv, TypeOK
  <2>2. [kind |-> "interrupt", turn |-> Active(ctl)] \in Interrupts
    BY <2>1 DEF Interrupts
  <2>3. Consumes /\ runs' = runs
    BY <1>3, <2>2 DEF Stop, SendPendingNow, SendInterrupt, Consumes, history
  <2>4. \E b \in BOOLEAN : ctl' = Interrupt(ctl, b)
    BY <1>3 DEF Stop, SendPendingNow, SendInterrupt
  <2>5. Orders(ctl, ctl') /\ Keeps(ctl, ctl')
    BY <1>1, <2>4, InterruptOrders, InterruptKeeps
  <2> QED BY <1>1, <2>3, <2>5, OrderedMoves
<1>4. CASE RetryRecovery
  <2>1. Consumes /\ runs' = runs
    BY <1>4 DEF RetryRecovery, Consumes, channels, history
  <2>2. Orders(ctl, ctl') /\ Keeps(ctl, ctl')
    BY <1>1, <1>4, RetryTurnRecoveryOrders, RetryTurnRecoveryKeeps DEF RetryRecovery
  <2> QED BY <1>1, <2>1, <2>2, OrderedMoves
<1>5. CASE Continue
  <2>1. Consumes /\ runs' = runs
    BY <1>5 DEF Continue, Consumes, channels
  <2>2. Orders(ctl, ctl') /\ Keeps(ctl, ctl')
    BY <1>1, <1>5, ContinueWithoutTurnOrders, ContinueWithoutTurnKeeps
       DEF Continue, MayContinueWithoutTurn
  <2> QED BY <1>1, <2>1, <2>2, OrderedMoves
<1>6. CASE RetrySteer
  <2>1. Consumes /\ runs' = runs
    BY <1>6 DEF RetrySteer, Consumes, channels, history
  <2>2. Orders(ctl, ctl') /\ Keeps(ctl, ctl')
    BY <1>1, <1>6, RetrySteerDeliveryOrders, RetrySteerDeliveryKeeps DEF RetrySteer
  <2> QED BY <1>1, <2>1, <2>2, OrderedMoves
<1>7. CASE SetSteeringEnabled
  <2>1. Consumes /\ runs' = runs
    BY <1>7 DEF SetSteeringEnabled, Consumes, channels, history
  <2>2. ctl' \in Controllers
    BY <1>1, <1>7 DEF SetSteeringEnabled, WellFormed, Controllers
  <2>3. Keeps(ctl, ctl') /\ SameLease(ctl, ctl')
    BY <1>1, <1>7, <2>2 DEF SetSteeringEnabled, Keeps, WellFormed, Unsent, Controllers,
                            SameLease, OwnerFades, Holds
  <2>4. Orders(ctl, ctl')
    BY <1>1, <2>3, SameLeaseOrders
  <2> QED BY <1>1, <2>1, <2>3, <2>4, OrderedMoves
<1> QED BY <1>1, <1>2, <1>3, <1>4, <1>5, <1>6, <1>7, AdmitTurn, SubmitTurn, RetireTurn DEF User
-----------------------------------------------------------------------------
\* A turn that Core knows is not one the controller could still send.
LEMMA KnownIsSure ==
    ASSUME KnownInv, NEW t \in Turns, srv[t] # "none", ctl.link # "closed"
    PROVE  Sure(ctl, t)
BY UnsentUnknown DEF Sure

\* The only step that writes a start frame: the prompt it carries was fresh and is no
\* longer startable.
LEMMA DispatchTurn ==
    ASSUME TurnInv, KnownInv', NEW t \in Locals, Dispatch(t)
    PROVE  TurnInv'
<1> USE DEF TurnInv
<1>1. /\ ctl.startReq = t /\ ctl.stage = "preflight" /\ ctl' = MarkSent(ctl, t)
      /\ wire' = wire \cup {[kind |-> "start", turn |-> t]}
      /\ UNCHANGED <<srv, inputs, replies, notes, runs, steerSent>>
      /\ sends' = [sends EXCEPT ![t] = @ + 1]
    BY DEF Dispatch, InPreflight
<1>2. t \in Turns /\ t # NoTurn
    BY TurnsAssumption DEF Turns
<1>3. /\ Orders(ctl, ctl') /\ t \notin Startable(ctl') /\ ctl'.q = ctl.q
      /\ ctl'.retained = ctl.retained /\ ctl'.link = ctl.link /\ ~Accepted(ctl')
    BY <1>1, <1>2, MarkSentOrders DEF KnownInv, SentInv
<1>4. ctl.steerAdmitted \subseteq ctl'.steerAdmitted
    BY <1>1, <1>2, MarkSentKeeps DEF Keeps, KnownInv, SentInv
<1>5. ctl.preflight = t /\ ctl.local = t /\ t \in ctl.attempted
    BY <1>1, <1>2 DEF Orderly, Leased
<1>6. t \in Startable(ctl) /\ t \notin RetainedTurns(ctl)
    BY <1>2, <1>5 DEF Startable, Orderly, Fifo
<1>7. Fresh(t)
    BY <1>6 DEF StillFresh
<1>8. \A p : /\ StartFrame(p)' => StartFrame(p) \/ p = t
             /\ SteerFrame(p)' => SteerFrame(p)
             /\ InInputs(p)' <=> InInputs(p)
             /\ ComesBack(p)' <=> ComesBack(p)
  <2>1. \A m \in wire' : m \in wire \/ (m.kind = "start" /\ m.turn = t)
    BY <1>1
  <2> QED BY <1>1, <2>1 DEF StartFrame, SteerFrame, InInputs, ComesBack
<1>9. \A p : p # t /\ Fresh(p) => Fresh(p)'
    BY <1>1, <1>8 DEF Fresh
<1>10. OnePlace'
  <2>1. \A p \in Locals : sends[p] > 0 => sends'[p] > 0
    BY <1>1 DEF KnownInv, SentInv, TypeOK, Turns
  <2> QED BY <1>1, <1>7, <1>8, <2>1 DEF OnePlace, Fresh
<1>11. SteersKnown'
    BY <1>1, <1>3, <1>4 DEF SteersKnown, Orders
<1>12. StillFresh'
  <2>1. \A p \in Startable(ctl') : Fresh(p)'
    BY <1>3, <1>9 DEF StillFresh, Orders
  <2>2. \A p \in RetainedTurns(ctl') : ComesBack(p)' => Fresh(p)'
    BY <1>3, <1>6, <1>8, <1>9 DEF StillFresh, RetainedTurns
  <2>3. ASSUME ctl'.steerReq # NoTurn, ctl'.steerReq \notin steerSent'
        PROVE  Fresh(ctl.steerReq)' /\ ctl'.steerReq \notin Startable(ctl')
    <3>1. ctl'.steerReq = ctl.steerReq /\ steerSent' = steerSent
        BY <1>1, <1>3, <2>3 DEF Orders
    <3>2. Fresh(ctl.steerReq) /\ ctl.steerReq \notin Startable(ctl)
        BY <2>3, <3>1 DEF StillFresh
    <3>3. PICK q : q = ctl.steerReq
        OBVIOUS
    <3>4. q = ctl'.steerReq /\ Fresh(q)'
        BY <1>6, <1>9, <3>1, <3>2, <3>3
    <3> QED BY <1>3, <3>1, <3>2, <3>4 DEF Orders, Fresh, StartFrame, SteerFrame, InInputs
  <2> QED BY <2>1, <2>2, <2>3 DEF StillFresh
<1> QED BY <1>3, <1>10, <1>11, <1>12 DEF Orders, AcceptedKnown

\* The only step that writes a steering frame.
LEMMA SteerDispatchTurn ==
    ASSUME TurnInv, KnownInv', SteerDispatch, MaySendSteer(ctl)
    PROVE  TurnInv'
<1> USE DEF TurnInv
<1>1. PICK t : t = ctl.steerReq
    OBVIOUS
<1>2. /\ t # NoTurn /\ t \notin steerSent /\ ctl' = UpdateSteer(ctl, t, "sent")
      /\ wire' = wire \cup {[kind |-> "steer", turn |-> t, to |-> ctl.steerOwner]}
      /\ steerSent' = steerSent \cup {t}
      /\ UNCHANGED <<srv, inputs, replies, notes, runs, sends>>
    BY <1>1 DEF SteerDispatch
<1>3. /\ Orderly(ctl') /\ Startable(ctl') = Startable(ctl) /\ Accepted(ctl') = Accepted(ctl)
      /\ ctl'.startReq = ctl.startReq /\ ctl'.link = ctl.link /\ ctl'.q = ctl.q
      /\ ctl'.steerReq = ctl.steerReq /\ Sending(ctl, ctl', t)
    BY <1>2, UpdateSteerOrders DEF KnownInv, SentInv
<1>4. ctl.steerAdmitted \subseteq ctl'.steerAdmitted
    BY <1>2, UpdateSteerKeeps DEF Keeps, KnownInv, SentInv
<1>5. Fresh(t) /\ t \notin Startable(ctl) /\ ~ComesBack(t)
    BY <1>1, <1>2 DEF StillFresh, SteersKnown, ComesBack
<1>6. \A p : /\ StartFrame(p)' => StartFrame(p)
             /\ SteerFrame(p)' => SteerFrame(p) \/ p = t
             /\ InInputs(p)' <=> InInputs(p)
             /\ ComesBack(p)' <=> ComesBack(p)
  <2>1. \A m \in wire' : m \in wire \/ (m.kind = "steer" /\ m.turn = t)
    BY <1>2
  <2> QED BY <1>2, <2>1 DEF StartFrame, SteerFrame, InInputs, ComesBack
<1>7. \A p : p # t /\ Fresh(p) => Fresh(p)'
    BY <1>2, <1>6 DEF Fresh
<1>8. OnePlace'
    BY <1>2, <1>5, <1>6 DEF OnePlace, Fresh
<1>9. SteersKnown'
  <2>1. \A e \in ctl'.retained : ~e.sent => e.turn \notin steerSent'
    BY <1>2, <1>3 DEF Sending, SteersKnown
  <2> QED BY <1>1, <1>2, <1>3, <1>4, <2>1 DEF SteersKnown
<1>10. StillFresh'
  <2>1. \A p \in Startable(ctl') : Fresh(p)'
    BY <1>3, <1>5, <1>7 DEF StillFresh
  <2>2. \A p \in RetainedTurns(ctl') : p \in RetainedTurns(ctl)
    BY <1>3 DEF Sending, RetainedTurns
  <2>3. \A p \in RetainedTurns(ctl') : ComesBack(p)' => Fresh(p)'
    BY <1>5, <1>6, <1>7, <2>2 DEF StillFresh
  <2> QED BY <1>1, <1>2, <1>3, <2>1, <2>3 DEF StillFresh
<1> QED BY <1>2, <1>3, <1>8, <1>9, <1>10 DEF AcceptedKnown

\* A steer that is known not to have been admitted goes back to the queue.
LEMMA SteerNotAdmittedTurn ==
    ASSUME TurnInv, KnownInv', Consumes, runs' = runs,
           ctl.steerReq # NoTurn, ctl' = SteerNotAdmitted(ctl),
           ctl.steerReq \in RetainedTurns(ctl) => Fresh(ctl.steerReq)
    PROVE  TurnInv'
<1> USE DEF TurnInv
<1>1. PICK new : new = {ctl.steerReq} \cap RetainedTurns(ctl)
    OBVIOUS
<1>2. OrdersWith(ctl, ctl', new) /\ Keeps(ctl, ctl') /\ ctl'.steerReq = NoTurn
    BY <1>1, SteerEndsOrder, SteerEndsKeep, SteerNotAdmittedEnds DEF KnownInv, SentInv
<1>3. /\ Orderly(ctl') /\ Startable(ctl') \subseteq Startable(ctl) \cup new
      /\ Holds(ctl, ctl') /\ ctl'.steerReq \in {ctl.steerReq, NoTurn}
    BY <1>2 DEF OrdersWith
<1>4. AcceptedKnown'
    BY <1>2 DEF AcceptedKnown, OrdersWith, Consumes
<1>5. ctl.steerAdmitted \subseteq ctl'.steerAdmitted /\ ctl'.link = ctl.link
    BY <1>2 DEF Keeps
<1>6. \A p \in new : Fresh(p)
    BY <1>1
<1> QED BY <1>2, <1>3, <1>4, <1>5, <1>6, ControllerMoves

LEMMA StartReplyTurn ==
    ASSUME TurnInv, KnownInv', NEW r \in replies, StartReply(r)
    PROVE  TurnInv'
<1> USE DEF TurnInv
<1>1. r \in Replies /\ r.kind = "start" /\ WellFormed(ctl) /\ Orderly(ctl)
    BY DEF StartReply, KnownInv, SentInv, TypeOK
<1>2. r.turn \in Turns /\ (r.result = "busy" => r.by \in Turns)
    BY <1>1, ReplyForms
<1>3. Consumes /\ runs' = runs
    BY DEF StartReply, Consumes, history
<1>4. \/ ctl' = ctl
      \/ OnWire(r.turn) /\ ctl' = StartAcked(ctl, r.turn)
      \/ /\ OnWire(r.turn) /\ r.result = "busy" /\ StartCurrent(ctl, r.turn)
         /\ ctl' = StartCollided(ctl, r.turn, r.by)
      \/ ctl' = StartRejected(ctl, r.turn)
    BY DEF StartReply
<1>5. Orders(ctl, ctl') /\ Keeps(ctl, ctl')
  <2>1. CASE ctl' = ctl
    BY <1>1, <2>1, OrdersReflexive, KeepsReflexive
  <2>2. CASE OnWire(r.turn) /\ ctl' = StartAcked(ctl, r.turn)
    BY <1>1, <1>2, <2>2, StartAckedOrders, StartAckedKeeps DEF OnWire
  <2>3. CASE /\ OnWire(r.turn) /\ r.result = "busy" /\ StartCurrent(ctl, r.turn)
             /\ ctl' = StartCollided(ctl, r.turn, r.by)
    <3>1. srv[r.turn] = "none" /\ srv[r.by] # "none"
        BY <1>1, <2>3 DEF KnownInv, RepliesKnow
    <3>2. ctl.local = r.turn
        BY <2>3, <3>1 DEF AcceptedKnown, Accepted, OnWire
    <3>3. Active(ctl) = r.turn /\ ctl.link # "closed"
        BY <2>3 DEF StartCurrent, Linked
    <3>4. Sure(ctl, r.by)
        BY <1>2, <2>3, <3>1, <3>3, KnownIsSure
    <3> QED BY <1>1, <1>2, <2>3, <3>2, <3>3, <3>4, StartCollidedOrders, StartCollidedKeeps
  <2>4. CASE ctl' = StartRejected(ctl, r.turn)
    BY <1>1, <1>2, <2>4, StartRejectedOrders, StartRefusedKeeps
  <2> QED BY <1>4, <2>1, <2>2, <2>3, <2>4
<1> QED BY <1>3, <1>5, OrderedMoves

LEMMA SteerReplyTurn ==
    ASSUME TurnInv, KnownInv', NEW r \in replies, SteerReply(r)
    PROVE  TurnInv'
<1> USE DEF TurnInv
<1>1. r \in Replies /\ r.kind = "steer" /\ WellFormed(ctl) /\ Orderly(ctl)
    BY DEF SteerReply, KnownInv, SentInv, TypeOK
<1>2. /\ r.turn # NoTurn /\ r.result \in {"steered", "reject", "fellback"}
      /\ r.result = "fellback" => r.by \in Foreign
    BY <1>1, ReplyForms, TurnsAssumption DEF KnownInv, RepliesKnow
<1>3. Consumes /\ runs' = runs
    BY DEF SteerReply, Consumes, history
<1>4. CASE ctl' = ctl
  <2>1. Orders(ctl, ctl') /\ Keeps(ctl, ctl')
    BY <1>1, <1>4, OrdersReflexive, KeepsReflexive
  <2> QED BY <1>3, <2>1, OrderedMoves
<1>5. CASE ctl.steerReq = r.turn /\ r.result = "steered"
  <2>1. Orders(ctl, ctl') /\ Keeps(ctl, ctl')
    BY <1>1, <1>2, <1>5, SteerEndsOrder, SteerEndsKeep DEF SteerReply
  <2> QED BY <1>3, <2>1, OrderedMoves
<1>6. CASE ctl.steerReq = r.turn /\ r.result = "fellback"
  <2>1. ctl' = SteerFellBack(ctl, r.by) /\ r.by \in Foreign /\ r.by \in Turns
    BY <1>2, <1>6 DEF SteerReply, Turns
  <2>2. Orders(ctl, ctl') /\ Keeps(ctl, ctl')
    BY <1>1, <1>2, <1>6, <2>1, SteerFellBackOrders, SteerFellBackKeeps
  <2> QED BY <1>3, <2>2, OrderedMoves
<1>7. CASE ctl.steerReq = r.turn /\ r.result = "reject"
  <2>1. ctl' = SteerNotAdmitted(ctl)
    BY <1>7 DEF SteerReply
  <2>2. ctl.steerReq \in RetainedTurns(ctl) => Fresh(ctl.steerReq)
    BY <1>1, <1>7 DEF StillFresh, ComesBack
  <2> QED BY <1>2, <1>3, <1>7, <2>1, <2>2, SteerNotAdmittedTurn
<1> QED BY <1>2, <1>4, <1>5, <1>6, <1>7 DEF SteerReply

LEMMA ClientTurn ==
    ASSUME TurnInv, Client
    PROVE  TurnInv'
<1> USE DEF TurnInv
<1>1. KnownInv' /\ WellFormed(ctl) /\ Orderly(ctl)
    BY ClientKnown DEF KnownInv, SentInv
<1>2. ASSUME NEW t \in Locals, PreflightEndsNotReady(t) \/ SeatRefused(t) \/ StartTimeout(t)
      PROVE  TurnInv'
  <2>1. Consumes /\ runs' = runs
    BY <1>2 DEF PreflightEndsNotReady, SeatRefused, StartTimeout, Consumes, channels, history
  <2>2. t \in Turns
    BY DEF Turns
  <2>3. CASE PreflightEndsNotReady(t)
    <3>1. Orders(ctl, ctl') /\ Keeps(ctl, ctl')
        BY <1>1, <2>2, <2>3, PreflightNotReadyOrders, PreflightNotReadyKeeps
           DEF PreflightEndsNotReady, InPreflight, StartCurrent
    <3> QED BY <1>1, <2>1, <3>1, OrderedMoves
  <2>4. CASE SeatRefused(t)
    <3>1. Orders(ctl, ctl') /\ Keeps(ctl, ctl')
        BY <1>1, <2>2, <2>4, StartRefusedOrders, StartRefusedKeeps DEF SeatRefused, StartCurrent
    <3> QED BY <1>1, <2>1, <3>1, OrderedMoves
  <2>5. CASE StartTimeout(t)
    <3>1. Orders(ctl, ctl') /\ Keeps(ctl, ctl')
        BY <1>1, <2>2, <2>5, StartUnconfirmedOrders, StartUnconfirmedKeeps DEF StartTimeout
    <3> QED BY <1>1, <2>1, <3>1, OrderedMoves
  <2> QED BY <1>2, <2>3, <2>4, <2>5
<1>3. CASE SteerDispatch
  <2>1. CASE MaySendSteer(ctl)
    BY <1>1, <1>3, <2>1, SteerDispatchTurn
  <2>2. CASE ~MaySendSteer(ctl)
    <3>1. Consumes /\ runs' = runs
        BY <1>3, <2>2 DEF SteerDispatch, Consumes
    <3>2. ctl.steerReq # NoTurn /\ ctl' = SteerNotAdmitted(ctl) /\ Fresh(ctl.steerReq)
        BY <1>3, <2>2 DEF SteerDispatch, StillFresh
    <3> QED BY <1>1, <3>1, <3>2, SteerNotAdmittedTurn
  <2> QED BY <2>1, <2>2
<1>4. CASE SteerTimeout
  <2>1. Consumes /\ runs' = runs
    BY <1>4 DEF SteerTimeout, Consumes, channels, history
  <2>2. ctl.steerReq # NoTurn
    BY <1>4, TurnsAssumption DEF SteerTimeout, KnownInv, SentInv, TypeOK
  <2>3. Orders(ctl, ctl') /\ Keeps(ctl, ctl')
    BY <1>1, <1>4, <2>2, SteerEndsOrder, SteerEndsKeep DEF SteerTimeout
  <2> QED BY <1>1, <2>1, <2>3, OrderedMoves
<1>5. ASSUME NEW b \in BOOLEAN, InterruptReply(b) \/ OwnerInteraction(b) PROVE TurnInv'
  <2>1. Consumes /\ runs' = runs
    BY <1>5 DEF InterruptReply, OwnerInteraction, Consumes, channels, history
  <2>2. Orders(ctl, ctl') /\ Keeps(ctl, ctl')
    <3>1. CASE InterruptReply(b)
        BY <1>1, <3>1, InterruptOrders, InterruptKeeps DEF InterruptReply
    <3>2. CASE OwnerInteraction(b)
        BY <1>1, <3>2, SetAcceptedOwnerInteractionOrders, SetAcceptedOwnerInteractionKeeps
           DEF OwnerInteraction
    <3> QED BY <1>5, <3>1, <3>2
  <2> QED BY <1>1, <2>1, <2>2, OrderedMoves
<1>6. ASSUME NEW s \in LookupStates, LookupReply(s) PROVE TurnInv'
  <2>1. Consumes /\ runs' = runs
    BY <1>6 DEF LookupReply, Consumes, channels, history
  <2>2. ctl.lookup \in Turns
    BY <1>1, <1>6 DEF LookupReply, WellFormed, Controllers, OptTurn
  <2>3. Orders(ctl, ctl') /\ Keeps(ctl, ctl')
    BY <1>1, <1>6, <2>2, LookupReturnedOrders, LookupReturnedKeeps DEF LookupReply
  <2> QED BY <1>1, <2>1, <2>3, OrderedMoves
<1> QED BY <1>1, <1>2, <1>3, <1>4, <1>5, <1>6, DispatchTurn, StartReplyTurn, SteerReplyTurn
        DEF Client
-----------------------------------------------------------------------------
\* The controller is relinked and then handles what the new link allows.
LEMMA RelinkedMoves ==
    ASSUME TurnInv, KnownInv', Consumes, runs' = runs, ctl.link # "closed",
           NEW l \in Links,
           \/ l \in {"faulted", "deaf", "recovering", "draining", "ready"}
           \/ ctl.stage = "none" /\ ctl.local = NoTurn,
           LET d == [ctl EXCEPT !.link = l] IN Orderly(d) => Orders(d, ctl') /\ Keeps(d, ctl')
    PROVE  TurnInv'
<1> USE DEF TurnInv
<1> DEFINE d == [ctl EXCEPT !.link = l]
<1>1. Orders(ctl, d)
    BY RelinkOrders DEF KnownInv, SentInv
<1>2. d.steerAdmitted = ctl.steerAdmitted
    BY DEF KnownInv, SentInv, WellFormed, Controllers
<1>3. Orders(d, ctl') /\ Keeps(d, ctl')
    BY <1>1 DEF Orders
<1> HIDE DEF d
<1>4. Orders(ctl, ctl')
    BY <1>1, <1>3, OrdersTransitive
<1>5. AcceptedKnown'
    BY <1>4 DEF AcceptedKnown, Orders, Consumes
<1>6. PICK new : new = {}
    OBVIOUS
<1>7. /\ Orderly(ctl') /\ Startable(ctl') \subseteq Startable(ctl) \cup new
      /\ Holds(ctl, ctl') /\ ctl'.steerReq \in {ctl.steerReq, NoTurn}
    BY <1>4, <1>6 DEF Orders
<1>8. ctl.steerAdmitted \subseteq ctl'.steerAdmitted
    BY <1>2, <1>3 DEF Keeps
<1> QED BY <1>5, <1>6, <1>7, <1>8, ControllerMoves

LEMMA SuspendTurn ==
    ASSUME TurnInv, KnownInv', Consumes, runs' = runs, NEW l \in Links, Suspend(l),
           ctl.link # "closed"
    PROVE  TurnInv'
<1> USE DEF TurnInv
<1> DEFINE d == SuspendTransport(ctl)
           lookup == IF l = "down" THEN NoTurn ELSE d.lookup
           e == [d EXCEPT !.lookup = lookup]
<1>1. WellFormed(ctl) /\ Orderly(ctl)
    BY DEF KnownInv, SentInv
<1>2. PICK new : new = TurnsOf(UnsentSteers(ctl))
    OBVIOUS
<1>3. /\ OrdersWith(ctl, d, new)
      /\ d.stage = "none" /\ d.local = NoTurn /\ d.retained = {} /\ d.steerReq = NoTurn
    BY <1>1, <1>2, SuspendTransportOrders
<1>4. Keeps(ctl, d) /\ WellFormed(d)
    BY <1>1, SuspendTransportKeeps DEF Keeps
<1>5. ctl' = [d EXCEPT !.link = l, !.lookup = lookup]
    BY DEF Suspend
<1> HIDE DEF d
<1>6. lookup \in OptTurn
    BY <1>4, NullTypes DEF WellFormed, Controllers
<1> HIDE DEF lookup
<1>7. e \in Controllers
    BY <1>4, <1>6 DEF WellFormed, Controllers
<1>8. /\ WellFormed(e) /\ SameLease(d, e) /\ e.stage = "none" /\ e.local = NoTurn
      /\ e.steerAdmitted = d.steerAdmitted /\ e.steerReq = NoTurn
    BY <1>3, <1>4, <1>7 DEF WellFormed, Controllers, SameLease, OwnerFades, Holds
<1>9. Orders(d, e)
    BY <1>3, <1>8, SameLeaseOrders DEF OrdersWith
<1>10. ctl' = [e EXCEPT !.link = l]
    BY <1>4, <1>5 DEF WellFormed, Controllers
<1>11. Orders(e, ctl') /\ ctl'.steerAdmitted = e.steerAdmitted /\ ctl'.steerReq = NoTurn
  <2> HIDE DEF e
  <2> QED BY <1>8, <1>9, <1>10, RelinkOrders DEF Orders, WellFormed, Controllers
<1> HIDE DEF e
<1>12. OrdersWith(ctl, ctl', new)
    BY <1>3, <1>9, <1>11, OrdersWithThen
<1>13. ctl.steerAdmitted \subseteq ctl'.steerAdmitted
    BY <1>4, <1>8, <1>11 DEF Keeps
<1>14. \A p \in new : Fresh(p)
  <2>1. SUFFICES ASSUME NEW p \in new PROVE Fresh(p)
    OBVIOUS
  <2>2. p = ctl.steerReq /\ \E x \in ctl.retained : x.turn = p /\ ~x.sent
    BY <1>2 DEF TurnsOf, UnsentSteers
  <2>3. p \notin steerSent
    BY <2>2 DEF SteersKnown
  <2>4. p # NoTurn
    <3>1. p \in RetainedTurns(ctl)
        BY <2>2 DEF RetainedTurns
    <3> QED BY <1>1, <3>1, TurnsAssumption DEF Orderly, Fifo
  <2> QED BY <2>2, <2>3, <2>4 DEF StillFresh
<1>15. AcceptedKnown'
    BY <1>12 DEF AcceptedKnown, OrdersWith, Consumes
<1>16. /\ Orderly(ctl') /\ Startable(ctl') \subseteq Startable(ctl) \cup new
       /\ Holds(ctl, ctl') /\ ctl'.steerReq \in {ctl.steerReq, NoTurn}
    BY <1>12 DEF OrdersWith
<1> QED BY <1>11, <1>13, <1>14, <1>15, <1>16, ControllerMoves

LEMMA ObserveTurn ==
    ASSUME TurnInv, KnownInv', Observe
    PROVE  TurnInv'
<1> USE DEF TurnInv
<1>1. PICK n : n = Head(notes)
    OBVIOUS
<1>2. WellFormed(ctl) /\ Orderly(ctl) /\ ctl.link # "closed" /\ notes \in Seq(Notes) /\ notes # <<>>
    BY DEF Observe, KnownInv, SentInv, TypeOK
<1>3. n \in Notes /\ n = notes[1] /\ 1 \in DOMAIN notes
    BY <1>1, <1>2
<1>4. /\ n.turn \in Turns
      /\ n.kind \notin {"started", "terminal"} => n.kind = "dropped" /\ n.inputs \in Seq(Locals)
    BY <1>3 DEF Notes
<1>5. srv[n.turn] # "none"
    BY <1>3 DEF KnownInv, StreamKnows
<1>6. Sure(ctl, n.turn)
    BY <1>2, <1>4, <1>5, KnownIsSure
<1>7. Consumes /\ runs' = runs
    BY DEF Observe, Consumes, history
<1>8. CASE ctl' = ctl
  <2>1. Orders(ctl, ctl') /\ Keeps(ctl, ctl')
    BY <1>2, <1>8, OrdersReflexive, KeepsReflexive
  <2> QED BY <1>7, <2>1, OrderedMoves
<1>9. CASE ctl' \in {ObserveTurnStarted(ctl, n.turn), ObserveTerminal(ctl, n.turn)}
  <2>1. Observes(ctl, ctl', n.turn) /\ Keeps(ctl, ctl')
    BY <1>2, <1>4, <1>6, <1>9, ObserveTurnStartedOrders, ObserveTerminalOrders,
       ObserveTurnStartedKeeps, ObserveTerminalKeeps
  <2>2. AcceptedKnown'
    BY <1>4, <1>5, <1>7, <2>1 DEF AcceptedKnown, Observes, Consumes
  <2>3. PICK new : new = {}
    OBVIOUS
  <2>4. /\ Orderly(ctl') /\ Startable(ctl') \subseteq Startable(ctl) \cup new
        /\ Holds(ctl, ctl') /\ ctl'.steerReq \in {ctl.steerReq, NoTurn}
    BY <2>1, <2>3 DEF Observes
  <2>5. ctl.steerAdmitted \subseteq ctl'.steerAdmitted /\ ctl'.link = ctl.link
    BY <2>1 DEF Keeps
  <2> QED BY <1>7, <2>2, <2>3, <2>4, <2>5, ControllerMoves
<1>10. CASE n.kind = "dropped" /\ ctl' = ObserveSteerDropped(ctl, n.turn, n.inputs)
  <2>1. PICK given : given = n.inputs
    OBVIOUS
  <2>2. given \in Seq(Turns) /\ NoRepeat(given)
    <3>1. \A s \in Seq(Locals) : s \in Seq(Turns)
        BY DEF Turns
    <3> QED BY <1>3, <1>4, <1>10, <2>1, <3>1 DEF KnownInv, SteersOnce
  <2>3. PICK new : new = TurnsOf(given) \cap RetainedTurns(ctl)
    OBVIOUS
  <2>4. /\ Orderly(ctl') /\ Holds(ctl, ctl') /\ ctl'.steerReq \in {ctl.steerReq, NoTurn}
        /\ Startable(ctl') \subseteq Startable(ctl) \cup new
        /\ Accepted(ctl') => ctl'.startReq = n.turn
                             \/ (Accepted(ctl) /\ ctl'.startReq = ctl.startReq)
    BY <1>2, <1>6, <1>10, <2>1, <2>2, <2>3, ObserveSteerDroppedOrders
  <2>5. Keeps(ctl, ctl')
    BY <1>2, <1>4, <1>10, <2>1, <2>2, ObserveSteerDroppedKeeps
  <2>6. AcceptedKnown'
    BY <1>4, <1>5, <1>7, <2>4 DEF AcceptedKnown, Consumes
  <2>7. \A p \in new : p \in Returned(notes) /\ p \in RetainedTurns(ctl)
    BY <1>3, <1>10, <2>1, <2>3 DEF TurnsOf, Returned
  <2>8. \A p \in new : Fresh(p) /\ p \in steerSent
    BY <2>7 DEF StillFresh, ComesBack, SteersKnown
  <2>9. ctl.steerAdmitted \subseteq ctl'.steerAdmitted /\ ctl'.link = ctl.link
    BY <2>5 DEF Keeps
  <2> QED BY <1>7, <2>4, <2>6, <2>8, <2>9, ControllerMoves
<1> QED BY <1>1, <1>4, <1>8, <1>9, <1>10 DEF Observe

LEMMA TransportTurn ==
    ASSUME TurnInv, Transport
    PROVE  TurnInv'
<1> USE DEF TurnInv
<1>1. KnownInv' /\ WellFormed(ctl) /\ Orderly(ctl)
    BY TransportKnown DEF KnownInv, SentInv
<1>2. CASE LoseTransport \/ Reopen
  <2>1. Consumes /\ runs' = runs
    BY <1>2 DEF LoseTransport, Reopen, Suspend, CutStream, Consumes
  <2>2. (\E l \in Links : Suspend(l)) /\ ctl.link # "closed"
    BY <1>2 DEF LoseTransport, Reopen, Links
  <2> QED BY <1>1, <2>1, <2>2, SuspendTurn
<1>3. CASE ReopenFails \/ Gap \/ GapFails
  <2>1. Consumes /\ runs' = runs
    BY <1>3 DEF ReopenFails, Gap, GapFails, CutStream, Consumes, history
  <2>2. PICK l \in Links : /\ ctl' = [ctl EXCEPT !.link = l] /\ ctl.link # "closed"
                           /\ \/ l \in {"faulted", "deaf", "recovering", "draining", "ready"}
                              \/ ctl.link = "opening"
    BY <1>3 DEF ReopenFails, Gap, GapFails, Links
  <2>3. ctl.link = "opening" => ctl.stage = "none" /\ ctl.local = NoTurn
    BY <1>1 DEF Orderly, Leased, Linked
  <2>4. WellFormed([ctl EXCEPT !.link = l])
    BY <1>1, RelinkKeeps
  <2>5. Keeps(ctl', ctl') /\ (Orderly(ctl') => Orders(ctl', ctl'))
    BY <2>2, <2>4, KeepsReflexive, OrdersReflexive
  <2> QED BY <1>1, <2>1, <2>2, <2>3, <2>5, RelinkedMoves
<1>4. ASSUME NEW m \in wire, LoseRequest(m) PROVE TurnInv'
  <2>1. Consumes /\ runs' = runs /\ ctl' = ctl
    BY <1>4 DEF LoseRequest, Consumes, history
  <2>2. Orders(ctl, ctl') /\ Keeps(ctl, ctl')
    BY <1>1, <2>1, OrdersReflexive, KeepsReflexive
  <2> QED BY <1>1, <2>1, <2>2, OrderedMoves
<1>5. CASE AnswerHydrate
  <2>1. UNCHANGED <<ctl, srv, inputs, wire, replies, notes, sends, runs, steerSent>>
    BY <1>5 DEF AnswerHydrate, history
  <2>2. AcceptedKnown' /\ SteersKnown'
    BY <2>1 DEF AcceptedKnown, SteersKnown
  <2>3. OnePlace'
    BY <2>1 DEF OnePlace, StartFrame, SteerFrame, InInputs
  <2>4. StillFresh'
    BY <2>1 DEF StillFresh, Fresh, ComesBack, StartFrame, SteerFrame, InInputs
  <2> QED BY <1>1, <2>1, <2>2, <2>3, <2>4
<1>6. CASE Hydrated
  <2> DEFINE d == [ctl EXCEPT !.link = "draining"]
  <2>1. Consumes /\ runs' = runs
    BY <1>6 DEF Hydrated, Consumes, history
  <2>2. WellFormed(d) /\ Unsent(d) = Unsent(ctl) /\ d.link = "draining" /\ d.local = ctl.local
    <3>1. WellFormed(d) /\ Unsent(d) = Unsent(ctl)
        BY <1>1, RelinkKeeps DEF Links
    <3>2. d.link = "draining" /\ d.local = ctl.local
        BY <1>1, RelinkSame DEF WellFormed
    <3> QED BY <3>1, <3>2
  <2>3. PICK b \in BOOLEAN : /\ b = (ctl.link = "recovering")
                             /\ ctl' = ReconcileFromHydrate(d, snap, b)
    BY <1>6 DEF Hydrated
  <2> HIDE DEF d
  <2>4. ctl.link # "closed" /\ (b \/ d.local = NoTurn)
    BY <1>1, <1>6, <2>2, <2>3 DEF Hydrated, Orderly, Leased, Linked
  <2>5. \A t \in ServerForeground(snap) : Sure(d, t)
    <3>1. \A t \in ServerForeground(snap) : t \in Turns /\ srv[t] # "none"
        BY DEF ServerForeground, KnownInv, StreamKnows
    <3>2. \A t \in ServerForeground(snap) : Sure(ctl, t)
        BY <2>4, <3>1, KnownIsSure
    <3> QED BY <2>2, <3>2 DEF Sure
  <2>6. Linked(d)
    BY <2>2 DEF Linked
  <2>7. Orderly(d) => Orders(d, ctl') /\ Keeps(d, ctl')
    <3>1. Keeps(d, ctl')
        BY <2>2, <2>3, ReconcileFromHydrateKeeps DEF KnownInv, SentInv, TypeOK
    <3> QED BY <2>2, <2>3, <2>4, <2>5, <2>6, <3>1, ReconcileFromHydrateOrders
  <2>8. "draining" \in Links
    BY DEF Links
  <2> QED BY <1>1, <2>1, <2>4, <2>7, <2>8, RelinkedMoves DEF d
<1>7. CASE Ready
  <2> DEFINE d == [ctl EXCEPT !.link = "ready"]
  <2>1. Consumes /\ runs' = runs
    BY <1>7 DEF Ready, Consumes, channels, history
  <2>2. WellFormed(d)
    BY <1>1, RelinkKeeps DEF Links
  <2>3. ctl' = StartTurn(d, Active(d)) /\ ctl.link # "closed"
    BY <1>7 DEF Ready, ResumePendingTurn
  <2> HIDE DEF d
  <2>4. Orderly(d) => Orders(d, ctl') /\ Keeps(d, ctl')
    BY <2>2, <2>3, StartTurnOrders, StartTurnKeeps
  <2>5. "ready" \in Links
    BY DEF Links
  <2> QED BY <1>1, <2>1, <2>3, <2>4, <2>5, RelinkedMoves DEF d
<1> QED BY <1>1, <1>2, <1>3, <1>4, <1>5, <1>6, <1>7, ObserveTurn DEF Transport
-----------------------------------------------------------------------------
\* A step of Core leaves the controller alone.
LEMMA CoreMoves ==
    ASSUME TurnInv, KnownInv', ctl' = ctl, Advances, OnePlace',
           \A p \in Locals : Fresh(p) => Fresh(p)',
           \A r \in replies' : r.kind = "steer" => r.turn \in steerSent,
           Returned(notes') \subseteq steerSent,
           \A p \in Locals : ComesBack(p)' => ComesBack(p) \/ Fresh(p)'
    PROVE  TurnInv'
<1> USE DEF TurnInv
<1>1. AcceptedKnown'
    BY DEF AcceptedKnown, Advances
<1>2. SteersKnown'
    BY DEF SteersKnown, Advances
<1>3. Startable(ctl) \subseteq Locals /\ RetainedTurns(ctl) \subseteq Locals
    BY DEF Startable, QueuedIds, Orderly, Fifo, OptLocal, Active
<1>4. ctl.steerReq \in Locals \cup {NoTurn}
    BY DEF KnownInv, SentInv, TypeOK, Controllers, OptLocal
<1>5. StillFresh'
  <2>1. \A p \in Startable(ctl') : Fresh(p)'
    BY <1>3 DEF StillFresh
  <2>2. \A p \in RetainedTurns(ctl') : ComesBack(p)' => Fresh(p)'
    BY <1>3 DEF StillFresh
  <2>3. ASSUME ctl'.steerReq # NoTurn, ctl'.steerReq \notin steerSent'
        PROVE  Fresh(ctl.steerReq)' /\ ctl'.steerReq \notin Startable(ctl')
    <3>1. ctl'.steerReq = ctl.steerReq /\ steerSent' = steerSent
        BY DEF Advances
    <3>2. Fresh(ctl.steerReq) /\ ctl.steerReq \notin Startable(ctl)
        BY <2>3, <3>1 DEF StillFresh
    <3>3. PICK q : q = ctl.steerReq
        OBVIOUS
    <3>4. q = ctl'.steerReq /\ Fresh(q)'
        BY <1>4, <2>3, <3>1, <3>2, <3>3
    <3> QED BY <3>2, <3>4 DEF Fresh, StartFrame, SteerFrame, InInputs
  <2> QED BY <2>1, <2>2, <2>3 DEF StillFresh
<1> QED BY <1>1, <1>2, <1>5

\* The steering inputs that an event returns are those of a "dropped" event.
LEMMA EmitReturned ==
    ASSUME TypeOK, NEW ns \in Seq(Notes), NEW S,
           \A i \in DOMAIN ns : ns[i].kind = "dropped" => TurnsOf(ns[i].inputs) \subseteq S
    PROVE  Returned(Emit(ns)) \subseteq Returned(notes) \cup S
<1>1. notes \in Seq(Notes)
    BY DEF TypeOK
<1>2. SUFFICES ASSUME NEW p \in Returned(Emit(ns)) PROVE p \in Returned(notes) \cup S
    OBVIOUS
<1>3. PICK e : e = Emit(ns)
    OBVIOUS
<1>4. PICK i \in DOMAIN e : e[i].kind = "dropped" /\ \E k \in DOMAIN e[i].inputs : p = e[i].inputs[k]
    BY <1>3 DEF Returned
<1>5. (\E j \in DOMAIN notes : e[i] = notes[j]) \/ (\E j \in DOMAIN ns : e[i] = ns[j])
  <2>1. CASE e = notes
    BY <2>1
  <2>2. CASE e = notes \o ns
    <3>1. \A x \in DOMAIN (notes \o ns) :
             \/ x \in DOMAIN notes /\ (notes \o ns)[x] = notes[x]
             \/ x - Len(notes) \in DOMAIN ns /\ (notes \o ns)[x] = ns[x - Len(notes)]
        BY <1>1
    <3> QED BY <2>2, <3>1
  <2> QED BY <1>3, <2>1, <2>2 DEF Emit
<1>6. CASE \E j \in DOMAIN notes : e[i] = notes[j]
    BY <1>4, <1>6 DEF Returned
<1>7. CASE \E j \in DOMAIN ns : e[i] = ns[j]
    BY <1>4, <1>7 DEF TurnsOf
<1> QED BY <1>5, <1>6, <1>7

LEMMA StartedReturned ==
    ASSUME TypeOK, NEW t \in Turns
    PROVE  Returned(Emit(<<[kind |-> "started", turn |-> t]>>)) \subseteq Returned(notes)
<1> DEFINE note == [kind |-> "started", turn |-> t]
<1>1. note \in Notes /\ note.kind # "dropped"
    BY DEF Notes
<1> HIDE DEF note
<1>2. <<note>> \in Seq(Notes) /\ \A i \in DOMAIN <<note>> : <<note>>[i] = note
    BY <1>1
<1>3. PICK S : S = {}
    OBVIOUS
<1>4. Returned(Emit(<<note>>)) \subseteq Returned(notes) \cup S
    BY <1>1, <1>2, EmitReturned
<1> QED BY <1>3, <1>4 DEF note

LEMMA CoreStartTurn ==
    ASSUME TurnInv, KnownInv', NEW m \in wire, CoreStart(m)
    PROVE  TurnInv'
<1> USE DEF TurnInv
<1>1. PICK t : t = m.turn
    OBVIOUS
<1>2. /\ m \in Requests /\ m.kind = "start" /\ wire' = wire \ {m} /\ ctl' = ctl
      /\ UNCHANGED <<inputs, sends, steerSent>>
    BY DEF CoreStart, KnownInv, SentInv, TypeOK
<1>3. m = [kind |-> "start", turn |-> t] /\ t \in Locals /\ t \in Turns
    BY <1>1, <1>2, RequestForms
<1>4. StartFrame(t) /\ sends[t] > 0
    BY <1>1, <1>2 DEF StartFrame, KnownInv, StartsKnow
<1>5. /\ Advances
      /\ runs' = runs \/ runs' = [runs EXCEPT ![t] = @ + 1]
      /\ \A r \in replies' : r \in replies \/ r.kind = "start"
      /\ notes' = notes \/ notes' = Emit(<<[kind |-> "started", turn |-> t]>>)
  <2>1. srv' = srv \/ srv' = [srv EXCEPT ![t] = "active"]
    BY <1>1 DEF CoreStart
  <2>2. Advances
    BY <1>2, <2>1 DEF Advances, KnownInv, SentInv, TypeOK
  <2> QED BY <1>1, <2>2 DEF CoreStart, Reply
<1>6. Returned(notes') \subseteq Returned(notes)
    BY <1>3, <1>5, StartedReturned DEF KnownInv, SentInv
<1>7. ~StartFrame(t)'
  <2>1. \A x \in wire' : x \in Requests /\ x # m
    BY <1>2 DEF KnownInv, SentInv, TypeOK
  <2>2. \A x \in Requests : x.kind = "start" => x = [kind |-> "start", turn |-> x.turn]
    BY RequestForms
  <2> QED BY <1>3, <2>1, <2>2, Zenon DEF StartFrame
<1>8. \A p : /\ StartFrame(p)' => StartFrame(p) /\ p # t
             /\ SteerFrame(p)' => SteerFrame(p)
             /\ InInputs(p)' <=> InInputs(p)
             /\ ComesBack(p)' => ComesBack(p)
    BY <1>2, <1>5, <1>6, <1>7 DEF StartFrame, SteerFrame, InInputs, ComesBack
<1>9. /\ runs[t] = 0 /\ runs'[t] \in {0, 1}
      /\ \A p \in Locals : p # t => runs'[p] = runs[p]
    BY <1>3, <1>4, <1>5 DEF OnePlace, KnownInv, SentInv, TypeOK, Turns
<1>10. OnePlace'
    BY <1>2, <1>4, <1>8, <1>9 DEF OnePlace
<1>11. \A p \in Locals : Fresh(p) => Fresh(p)'
    BY <1>4, <1>8, <1>9 DEF Fresh
<1>12. \A r \in replies' : r.kind = "steer" => r.turn \in steerSent
    BY <1>5 DEF SteersKnown
<1>13. Returned(notes') \subseteq steerSent
    BY <1>6 DEF SteersKnown
<1> QED BY <1>2, <1>5, <1>8, <1>10, <1>11, <1>12, <1>13, CoreMoves

LEMMA CoreSteerTurn ==
    ASSUME TurnInv, KnownInv', NEW m \in wire, CoreSteer(m)
    PROVE  TurnInv'
<1> USE DEF TurnInv
<1>1. PICK t : t = m.turn
    OBVIOUS
<1>2. /\ m \in Requests /\ m.kind = "steer" /\ wire' = wire \ {m} /\ ctl' = ctl
      /\ UNCHANGED <<sends, steerSent>>
    BY DEF CoreSteer, KnownInv, SentInv, TypeOK
<1>3. t \in Locals /\ t \in Turns /\ SteerFrame(t) /\ t \in steerSent
    BY <1>1, <1>2, RequestForms DEF SteerFrame, KnownInv, SteersOnce
<1>4. ~StartFrame(t) /\ ~InInputs(t) /\ runs[t] = 0
    BY <1>3 DEF OnePlace
<1>5. ~SteerFrame(t)'
    BY <1>1, <1>2 DEF SteerFrame, KnownInv, SteersOnce
<1>6. /\ inputs' = inputs \/ (inputs' = Append(inputs, t) /\ runs' = runs)
      /\ runs' = runs \/ runs' = [runs EXCEPT ![t] = @ + 1]
      /\ \A r \in replies' : \/ r \in replies
                             \/ /\ r.kind = "steer" /\ r.turn = t
                                /\ r.result = "reject" => inputs' = inputs /\ runs' = runs
      /\ notes' = notes \/ \E f \in Turns : notes' = Emit(<<[kind |-> "started", turn |-> f]>>)
      /\ srv' = srv \/ \E f \in Turns : srv' = [srv EXCEPT ![f] = "active"]
  <2> DEFINE yes == [kind |-> "steer", turn |-> t, result |-> "steered"]
             rej == [kind |-> "steer", turn |-> t, result |-> "reject"]
             fell(f) == [kind |-> "steer", turn |-> t, result |-> "fellback", by |-> f]
  <2>1. CASE inputs' = Append(inputs, t) /\ replies' = Reply(yes) /\ UNCHANGED <<srv, runs, notes>>
    <3>1. \A r \in replies' : r \in replies \/ (r.kind = "steer" /\ r.turn = t /\ r.result # "reject")
        BY <2>1 DEF Reply
    <3> HIDE DEF yes
    <3> QED BY <2>1, <3>1
  <2>2. ASSUME NEW f \in Foreign, srv' = [srv EXCEPT ![f] = "active"], replies' = Reply(fell(f)),
               notes' = Emit(<<[kind |-> "started", turn |-> f]>>), inputs' = inputs,
               runs' = [runs EXCEPT ![t] = @ + 1]
        PROVE  /\ inputs' = inputs \/ (inputs' = Append(inputs, t) /\ runs' = runs)
               /\ runs' = runs \/ runs' = [runs EXCEPT ![t] = @ + 1]
               /\ \A r \in replies' : \/ r \in replies
                                      \/ /\ r.kind = "steer" /\ r.turn = t
                                         /\ r.result = "reject" => inputs' = inputs /\ runs' = runs
               /\ notes' = notes \/ \E g \in Turns : notes' = Emit(<<[kind |-> "started", turn |-> g]>>)
               /\ srv' = srv \/ \E g \in Turns : srv' = [srv EXCEPT ![g] = "active"]
    <3>1. \A r \in replies' : r \in replies \/ (r.kind = "steer" /\ r.turn = t /\ r.result # "reject")
        BY <2>2 DEF Reply
    <3>2. f \in Turns
        BY DEF Turns
    <3> HIDE DEF fell
    <3> QED BY <2>2, <3>1, <3>2
  <2>3. CASE replies' = Reply(rej) /\ UNCHANGED <<srv, inputs, runs, notes>>
    <3>1. \A r \in replies' : r \in replies \/ (r.kind = "steer" /\ r.turn = t)
        BY <2>3 DEF Reply
    <3> HIDE DEF rej
    <3> QED BY <2>3, <3>1
  <2>4. \/ inputs' = Append(inputs, t) /\ replies' = Reply(yes) /\ UNCHANGED <<srv, runs, notes>>
        \/ \E f \in Foreign : /\ srv' = [srv EXCEPT ![f] = "active"] /\ replies' = Reply(fell(f))
                              /\ notes' = Emit(<<[kind |-> "started", turn |-> f]>>)
                              /\ inputs' = inputs /\ runs' = [runs EXCEPT ![t] = @ + 1]
        \/ replies' = Reply(rej) /\ UNCHANGED <<srv, inputs, runs, notes>>
    BY <1>1 DEF CoreSteer
  <2> HIDE DEF yes, rej, fell
  <2> QED BY <2>1, <2>2, <2>3, <2>4
<1>7. Advances
    BY <1>2, <1>6 DEF Advances, KnownInv, SentInv, TypeOK
<1>8. Returned(notes') \subseteq Returned(notes)
    BY <1>6, StartedReturned DEF KnownInv, SentInv
<1>9. \A p : InInputs(p)' => InInputs(p) \/ (p = t /\ runs' = runs)
  <2>1. inputs \in Seq(Locals)
    BY DEF KnownInv, SentInv, TypeOK
  <2>2. CASE inputs' = inputs
    BY <2>2 DEF InInputs
  <2>3. CASE inputs' = Append(inputs, t) /\ runs' = runs
    <3>1. /\ DOMAIN inputs' = 1..Len(inputs) + 1
          /\ DOMAIN inputs = 1..Len(inputs)
          /\ \A i \in 1..Len(inputs) : inputs'[i] = inputs[i]
          /\ inputs'[Len(inputs) + 1] = t
          /\ Len(inputs) \in Nat
        BY <1>3, <2>1, <2>3
    <3> QED BY <2>3, <3>1 DEF InInputs
  <2> QED BY <1>6, <2>2, <2>3
<1>10. \A p : /\ StartFrame(p)' => StartFrame(p)
              /\ SteerFrame(p)' => SteerFrame(p) /\ p # t
    BY <1>2, <1>5 DEF StartFrame, SteerFrame
<1>11. /\ runs'[t] \in {0, 1} /\ (runs' = runs => runs'[t] = 0)
       /\ \A p \in Locals : p # t => runs'[p] = runs[p]
    BY <1>3, <1>4, <1>6 DEF KnownInv, SentInv, TypeOK, Turns
<1>12. OnePlace'
  <2>1. SUFFICES ASSUME NEW p \in Locals
                 PROVE  /\ StartFrame(p)' => ~SteerFrame(p)' /\ ~InInputs(p)' /\ runs'[p] = 0
                        /\ SteerFrame(p)' => ~InInputs(p)' /\ runs'[p] = 0
                        /\ InInputs(p)' => runs'[p] = 0
                        /\ runs'[p] > 0 => sends'[p] > 0 \/ p \in steerSent'
                        /\ runs'[p] <= 1
    BY DEF OnePlace
  <2>2. CASE p = t
    BY <1>2, <1>3, <1>4, <1>5, <1>9, <1>10, <1>11, <2>2
  <2>3. CASE p # t
    BY <1>2, <1>9, <1>10, <1>11, <2>3 DEF OnePlace
  <2> QED BY <2>2, <2>3
<1>13. \A p \in Locals : Fresh(p) => Fresh(p)'
    BY <1>3, <1>9, <1>10, <1>11 DEF Fresh
<1>14. \A r \in replies' : r.kind = "steer" => r.turn \in steerSent
    BY <1>3, <1>6 DEF SteersKnown
<1>15. Returned(notes') \subseteq steerSent
    BY <1>8 DEF SteersKnown
<1>16. ASSUME NEW p \in Locals, ComesBack(p)', ~ComesBack(p) PROVE Fresh(p)'
  <2>1. p \notin Returned(notes')
    BY <1>8, <1>16 DEF ComesBack
  <2>2. PICK r \in replies' : r.kind = "steer" /\ r.result = "reject" /\ r.turn = p
    BY <1>16, <2>1 DEF ComesBack
  <2>3. r \notin replies
    BY <1>16, <2>2 DEF ComesBack
  <2>4. p = t /\ inputs' = inputs /\ runs' = runs
    BY <1>6, <2>2, <2>3
  <2>5. ~InInputs(t)'
    BY <1>4, <2>4 DEF InInputs
  <2> QED BY <1>4, <1>5, <1>10, <1>11, <2>4, <2>5 DEF Fresh
<1> QED BY <1>2, <1>7, <1>12, <1>13, <1>14, <1>15, <1>16, CoreMoves

LEMMA CoreDrainTurn ==
    ASSUME TurnInv, KnownInv', CoreDrain
    PROVE  TurnInv'
<1> USE DEF TurnInv
<1>1. /\ UNCHANGED <<ctl, srv, wire, replies, notes, sends, steerSent>> /\ inputs' = <<>>
      /\ runs' = [t \in Turns |-> IF InInputs(t) THEN runs[t] + 1 ELSE runs[t]]
    BY DEF CoreDrain, InInputs, channels
<1>2. Advances
    BY <1>1 DEF Advances
<1>3. \A p : /\ StartFrame(p)' <=> StartFrame(p)
             /\ SteerFrame(p)' <=> SteerFrame(p)
             /\ ~InInputs(p)'
             /\ ComesBack(p)' <=> ComesBack(p)
    BY <1>1 DEF StartFrame, SteerFrame, InInputs, ComesBack
<1>4. \A p \in Locals : runs'[p] = IF InInputs(p) THEN runs[p] + 1 ELSE runs[p]
    BY <1>1 DEF Turns
<1>5. \A p \in Locals : InInputs(p) => p \in steerSent
    BY DEF KnownInv, SteersOnce, InInputs
<1>6. OnePlace'
    BY <1>1, <1>3, <1>4, <1>5 DEF OnePlace
<1>7. \A p \in Locals : Fresh(p) => Fresh(p)'
    BY <1>3, <1>4 DEF Fresh
<1>8. /\ \A r \in replies' : r.kind = "steer" => r.turn \in steerSent
      /\ Returned(notes') \subseteq steerSent
    BY <1>1 DEF SteersKnown
<1> QED BY <1>1, <1>2, <1>3, <1>6, <1>7, <1>8, CoreMoves

\* Undrained inputs come back, and nothing else of them is left.
LEMMA CoreEndTurn ==
    ASSUME TurnInv, KnownInv', NEW t \in Turns, CoreEnd(t)
    PROVE  TurnInv'
<1> USE DEF TurnInv
<1> DEFINE drop == [kind |-> "dropped", turn |-> t, inputs |-> inputs]
           end == [kind |-> "terminal", turn |-> t]
           ns == (IF inputs = <<>> THEN <<>> ELSE <<drop>>) \o <<end>>
<1>1. /\ UNCHANGED <<ctl, wire, replies, sends, runs, steerSent>> /\ inputs' = <<>>
      /\ srv' = [srv EXCEPT ![t] = "done"] /\ notes' = Emit(ns)
    BY DEF CoreEnd
<1>2. Advances
    BY <1>1 DEF Advances, KnownInv, SentInv, TypeOK
<1>3. drop \in Notes /\ end \in Notes
    BY DEF Notes, KnownInv, SentInv, TypeOK
<1>4. drop.inputs = inputs /\ end.kind # "dropped"
    OBVIOUS
<1> HIDE DEF drop, end
<1>5. ns \in Seq(Notes) /\ \A i \in DOMAIN ns : ns[i] \in {drop, end}
    BY <1>3
<1> HIDE DEF ns
<1>6. PICK S : S = TurnsOf(inputs)
    OBVIOUS
<1>7. \A i \in DOMAIN ns : ns[i].kind = "dropped" => TurnsOf(ns[i].inputs) \subseteq S
    BY <1>4, <1>5, <1>6
<1>8. Returned(notes') \subseteq Returned(notes) \cup S
    BY <1>1, <1>5, <1>7, EmitReturned DEF KnownInv, SentInv
<1>9. \A p \in S : InInputs(p) /\ p \in steerSent
    BY <1>6 DEF TurnsOf, InInputs, KnownInv, SteersOnce
<1>10. \A p : /\ StartFrame(p)' <=> StartFrame(p)
              /\ SteerFrame(p)' <=> SteerFrame(p)
              /\ ~InInputs(p)'
    BY <1>1 DEF StartFrame, SteerFrame, InInputs
<1>11. OnePlace'
    BY <1>1, <1>10 DEF OnePlace
<1>12. \A p \in Locals : Fresh(p) => Fresh(p)'
    BY <1>1, <1>10 DEF Fresh
<1>13. \A p \in Locals : p \in S => Fresh(p)'
    BY <1>1, <1>9, <1>10 DEF OnePlace, Fresh
<1>14. \A p \in Locals : ComesBack(p)' => ComesBack(p) \/ Fresh(p)'
    BY <1>1, <1>8, <1>13 DEF ComesBack
<1>15. /\ \A r \in replies' : r.kind = "steer" => r.turn \in steerSent
       /\ Returned(notes') \subseteq steerSent
    BY <1>1, <1>8, <1>9 DEF SteersKnown
<1> QED BY <1>1, <1>2, <1>11, <1>12, <1>14, <1>15, CoreMoves

LEMMA CoreTurn ==
    ASSUME TurnInv, Core
    PROVE  TurnInv'
<1> USE DEF TurnInv
<1>1. KnownInv'
    BY CoreKnown
<1>2. ASSUME UNCHANGED <<ctl, inputs, replies, sends, runs, steerSent>>, wire' \subseteq wire,
             Advances, Returned(notes') \subseteq Returned(notes)
      PROVE  TurnInv'
  <2>1. \A p : /\ StartFrame(p)' => StartFrame(p)
               /\ SteerFrame(p)' => SteerFrame(p)
               /\ InInputs(p)' <=> InInputs(p)
               /\ ComesBack(p)' => ComesBack(p)
    BY <1>2 DEF StartFrame, SteerFrame, InInputs, ComesBack
  <2>2. OnePlace'
    BY <1>2, <2>1 DEF OnePlace
  <2>3. \A p \in Locals : Fresh(p) => Fresh(p)'
    BY <1>2, <2>1 DEF Fresh
  <2>4. /\ \A r \in replies' : r.kind = "steer" => r.turn \in steerSent
        /\ Returned(notes') \subseteq steerSent
    BY <1>2 DEF SteersKnown
  <2> QED BY <1>1, <1>2, <2>1, <2>2, <2>3, <2>4, CoreMoves
<1>3. ASSUME NEW f \in Foreign, ForeignStart(f) PROVE TurnInv'
  <2>1. f \in Turns
    BY DEF Turns
  <2>2. /\ UNCHANGED <<ctl, inputs, wire, replies, sends, runs, steerSent>>
        /\ srv' = [srv EXCEPT ![f] = "active"]
        /\ notes' = Emit(<<[kind |-> "started", turn |-> f]>>)
    BY <1>3 DEF ForeignStart, history
  <2>3. Advances
    BY <2>2 DEF Advances, KnownInv, SentInv, TypeOK
  <2>4. Returned(notes') \subseteq Returned(notes)
    BY <2>1, <2>2, StartedReturned DEF KnownInv, SentInv
  <2> QED BY <1>2, <2>2, <2>3, <2>4
<1>4. ASSUME NEW m \in wire, CoreInterrupt(m) PROVE TurnInv'
  <2>1. /\ UNCHANGED <<ctl, inputs, replies, notes, sends, runs, steerSent>> /\ wire' = wire \ {m}
        /\ srv' = [srv EXCEPT ![m.turn] = IF @ = "active" THEN "interrupting" ELSE @]
    BY <1>4 DEF CoreInterrupt, history
  <2>2. Advances
    BY <2>1 DEF Advances, KnownInv, SentInv, TypeOK
  <2> QED BY <1>2, <2>1, <2>2
<1> QED BY <1>1, <1>3, <1>4, CoreStartTurn, CoreSteerTurn, CoreDrainTurn, CoreEndTurn DEF Core

LEMMA NextTurnInv == TurnInv /\ [Next]_vars => TurnInv'
<1> SUFFICES ASSUME TurnInv, [Next]_vars PROVE TurnInv'
    OBVIOUS
<1>1. CASE Next
    BY <1>1, UserTurn, ClientTurn, TransportTurn, CoreTurn DEF Next
<1>2. CASE UNCHANGED vars
  <2>1. KnownInv' /\ Consumes /\ runs' = runs /\ ctl' = ctl
    BY <1>2, NextKnownInv DEF TurnInv, vars, Consumes, channels, history
  <2>2. Orders(ctl, ctl') /\ Keeps(ctl, ctl')
    BY <2>1, OrdersReflexive, KeepsReflexive DEF TurnInv, KnownInv, SentInv
  <2> QED BY <2>1, <2>2, OrderedMoves
<1> QED BY <1>1, <1>2
-----------------------------------------------------------------------------
\* The lease, the dispatching id, the accepted owner and the queue of the controller
\* agree in every reachable state, for any number of turns and any interleaving of
\* handlers, replies, events, losses and recoveries.
THEOREM LeaseAgrees == Spec => []LeaseIsActive
<1>1. TurnInv => LeaseIsActive
    BY DEF TurnInv, Orderly, Leased, LeaseIsActive
<1> QED BY <1>1, InitTurnInv, NextTurnInv, PTL DEF Spec

\* No prompt waits in the FIFO behind an attempted id: whatever restageSteers, hydrate,
\* collisions and suspends put there, startTurn will not refuse it when its turn comes.
THEOREM WaitingNeverAttempted == Spec => []WaitingIsStartable
<1>1. TurnInv => WaitingIsStartable
    BY DEF TurnInv, Orderly, Fifo, WaitingIsStartable
<1> QED BY <1>1, InitTurnInv, NextTurnInv, PTL DEF Spec

\* The model sees the text of a prompt at most once, whether it was started, steered,
\* handed back, rejected, queued again after a suspend, or all of these in turn.
THEOREM RunAtMostOnce == Spec => []NeverRunTwice
<1>1. TurnInv => NeverRunTwice
    BY DEF TurnInv, OnePlace, NeverRunTwice
<1> QED BY <1>1, InitTurnInv, NextTurnInv, PTL DEF Spec

-----------------------------------------------------------------------------
(* No prompt is lost.                                                      *)

KnownTurns == {x \in Turns : srv[x] # "none"}
DoneTurns == {x \in Turns : srv[x] = "done"}

\* A hydrate is in flight that will be answered after everything in the stream.
Unanswered == ctl.link = "recovering" /\ snap = NoSnap

Returns(n, p) == n.kind = "dropped" /\ \E k \in DOMAIN n.inputs : n.inputs[k] = p

\* The stream still returns steering text that was sent to x.
Owed(x) == \E i \in DOMAIN notes : /\ notes[i].turn = x
                                   /\ \E p \in handedBack : Returns(notes[i], p)

QuietTurns == {x \in DoneTurns : \A i \in DOMAIN notes : notes[i].turn # x}
OldTurns == {x \in DoneTurns : Unanswered \/ \A i \in DOMAIN notes : notes[i].turn = x => i <= buffered}
UnowedTurns == {x \in DoneTurns : ~Owed(x)}
Precedes == {xy \in DoneTurns \X KnownTurns :
               \A i, j \in DOMAIN notes : notes[i].turn = xy[1] /\ notes[j].turn = xy[2] => i < j}
DeadTurns == {x \in Locals : srv[x] = "none" /\ x \notin Unsent(ctl) /\ ~StartFrame(x)}

\* What Core and the stream say of the turns, as ViewOf (TurnControllerProofs) wants it.
View == [known |-> KnownTurns, done |-> DoneTurns, quiet |-> QuietTurns, old |-> OldTurns,
         unowed |-> UnowedTurns, before |-> Precedes, dead |-> DeadTurns]

\* Core gave every prompt that it started to the model, and runs one turn at a time.
CoreRuns ==
    /\ \A t \in Locals : srv[t] # "none" => runs[t] > 0
    /\ \A x, y \in Foreground : x = y

\* Only turns that ended return text, and a terminal is the last event of its turn.
StreamEnds ==
    \A i \in DOMAIN notes :
        /\ notes[i].kind # "started" => srv[notes[i].turn] = "done"
        /\ notes[i].kind = "terminal" => \A j \in DOMAIN notes : j > i => notes[j].turn # notes[i].turn

\* The hydrate reply in flight is an answer to a hydrate that the record waits for.
SnapTells ==
    snap # NoSnap =>
        /\ ctl.link \in {"opening", "recovering"}
        /\ \A t \in Turns : snap[t] # "none" /\ (snap[t] = "done" => srv[t] = "done")
        /\ \A x, y \in ServerForeground(snap) : x = y

Drained == ctl.link = "ready" => buffered = 0

\* Text on its way to Core was not returned, Core returns text once, and text that it
\* refused or started as a turn of its own it does not return.
ReturnedOnce ==
    /\ handedBack \subseteq steerSent
    /\ \A p \in Locals : SteerFrame(p) \/ InInputs(p) => p \notin handedBack /\ p \notin Returned(notes)
    /\ \A i, j \in DOMAIN notes : \A p \in Locals :
          Returns(notes[i], p) /\ Returns(notes[j], p) => i = j
    /\ \A r \in replies : r.kind = "steer" /\ r.result # "steered" =>
          /\ ~SteerFrame(r.turn) /\ ~InInputs(r.turn) /\ r.turn \notin Returned(notes)
          /\ r.result = "fellback" => runs[r.turn] > 0 /\ srv[r.by] # "none"

CoreInvariant == CoreRuns /\ StreamEnds /\ SnapTells /\ Drained /\ ReturnedOnce

KeptFor(p, x) == \E e \in ctl.retained : e.turn = p /\ e.owner = x /\ e.sent

\* Text that Core holds or returns over this stream is retained for the turn it went to.
Cared ==
    /\ \A m \in wire : m.kind = "steer" /\ m.turn \notin orphaned /\ srv[m.to] # "done"
                       => KeptFor(m.turn, m.to)
    /\ \A i \in DOMAIN inputs : inputs[i] \notin orphaned
                                => \E x \in Foreground : KeptFor(inputs[i], x)
    /\ \A i \in DOMAIN notes : \A p \in handedBack :
          Returns(notes[i], p) => KeptFor(p, notes[i].turn)

\* Retained text that Core handed back is still to be returned by the stream.
KeptIsReturned ==
    \A e \in ctl.retained : e.turn \in handedBack =>
        \E i \in DOMAIN notes : notes[i].turn = e.owner /\ Returns(notes[i], e.turn)

\* The steer in flight is retained until it is sent, and only sent text is marked so.
Aimed ==
    /\ \A e \in ctl.retained : e.sent => e.turn \in steerSent
    /\ ctl.steerReq # NoTurn /\ ctl.steerReq \notin steerSent
       => \E e \in ctl.retained : e.turn = ctl.steerReq /\ e.owner = ctl.steerOwner

\* A steer that Core started as the turn f: every turn that text is retained for ended
\* before f.
FellBackLast ==
    \A r \in replies : r.kind = "steer" /\ r.result = "fellback" /\ r.turn = ctl.steerReq =>
        \A x \in SteerOwners(ctl) : x # r.by /\ x \in DoneTurns /\ <<x, r.by>> \in Precedes

\* What the hydrate reply in flight says of the turns that text is retained for.
SnapSteers ==
    snap # NoSnap => \A x \in SteerOwners(ctl) :
        /\ snap[x] \in {"done", "absent"} => x \in OldTurns
        /\ snap[x] = "absent" => x \in QuietTurns

\* A retired record holds nothing, and nothing that was sent can come back to it.
Shut ==
    /\ ctl.q = EmptyQueue /\ ctl.retained = {} /\ ctl.steerReq = NoTurn
    /\ ctl.interruptReq = NoTurn /\ ctl.lookup = NoTurn /\ ctl.recovery = NoRecovery
    /\ ctl.startReq = NoTurn /\ ctl.stage = "none" /\ ctl.owner = NoOwner
    /\ ~ctl.steerUnknown /\ ctl.steerAdmitted = {}
    /\ replies = {} /\ notes = <<>>

Watched ==
    /\ Tended(ctl, View)
    /\ Cared
    /\ KeptIsReturned
    /\ Aimed
    /\ FellBackLast
    /\ SnapSteers

LostInv ==
    /\ TurnInv
    /\ CoreInvariant
    /\ IF ctl.link = "closed" THEN Shut ELSE Watched
    /\ NoPromptLost

-----------------------------------------------------------------------------
(* The view only grows *)

LEMMA ViewExtends ==
    ASSUME KnownTurns \subseteq KnownTurns', DoneTurns \subseteq DoneTurns',
           QuietTurns \subseteq QuietTurns', OldTurns \subseteq OldTurns',
           UnowedTurns \subseteq UnowedTurns', Precedes \subseteq Precedes',
           DeadTurns \subseteq DeadTurns'
    PROVE  Extends(View', View)
BY DEF Extends, View

\* Core never learns of a turn whose start was refused.
LEMMA DeadStay ==
    ASSUME \A x \in DeadTurns : srv'[x] = "none",
           Unsent(ctl') \subseteq Unsent(ctl),
           \A p \in Locals : StartFrame(p)' => StartFrame(p) \/ p \in Unsent(ctl)
    PROVE  DeadTurns \subseteq DeadTurns'
<1> SUFFICES ASSUME NEW x \in DeadTurns PROVE x \in DeadTurns'
    OBVIOUS
<1>1. x \in Locals /\ srv'[x] = "none" /\ x \notin Unsent(ctl') /\ ~StartFrame(x)'
    BY DEF DeadTurns
<1> QED BY <1>1 DEF DeadTurns, StartFrame

\* A step that leaves the stream alone.
LEMMA SameStreamExtends ==
    ASSUME KnownTurns' = KnownTurns, DoneTurns' = DoneTurns, UNCHANGED <<notes, buffered, handedBack>>,
           Unanswered => Unanswered', DeadTurns \subseteq DeadTurns'
    PROVE  Extends(View', View)
<1>1. KnownTurns' = KnownTurns /\ DoneTurns' = DoneTurns
    OBVIOUS
<1>2. QuietTurns' = QuietTurns /\ OldTurns \subseteq OldTurns'
    BY <1>1 DEF QuietTurns, OldTurns
<1>3. UnowedTurns' = UnowedTurns
    BY <1>1 DEF UnowedTurns, Owed
<1>4. Precedes' = Precedes
    BY <1>1 DEF Precedes
<1> QED BY <1>1, <1>2, <1>3, <1>4, ViewExtends

\* Without a stream there is nothing left to hear.
LEMMA CutExtends ==
    ASSUME srv' = srv, notes' = <<>>, DeadTurns \subseteq DeadTurns'
    PROVE  /\ Extends(View', View)
           /\ QuietTurns' = DoneTurns' /\ OldTurns' = DoneTurns' /\ UnowedTurns' = DoneTurns'
<1>1. KnownTurns' = KnownTurns /\ DoneTurns' = DoneTurns /\ DOMAIN notes' = {}
    BY DEF KnownTurns, DoneTurns
<1>2. QuietTurns' = DoneTurns' /\ OldTurns' = DoneTurns'
    BY <1>1 DEF QuietTurns, OldTurns
<1>3. UnowedTurns' = DoneTurns'
    BY <1>1 DEF UnowedTurns, Owed
<1>4. Precedes' = DoneTurns' \X KnownTurns'
    BY <1>1 DEF Precedes
<1>5. /\ QuietTurns \subseteq DoneTurns /\ OldTurns \subseteq DoneTurns
      /\ UnowedTurns \subseteq DoneTurns /\ Precedes \subseteq DoneTurns \X KnownTurns
    BY DEF QuietTurns, OldTurns, UnowedTurns, Precedes
<1> QED BY <1>1, <1>2, <1>3, <1>4, <1>5, ViewExtends

\* One event is consumed.
LEMMA TailExtends ==
    ASSUME TypeOK, srv' = srv, notes # <<>>, notes' = Tail(notes), handedBack' = handedBack,
           buffered' = IF buffered = 0 THEN 0 ELSE buffered - 1, ctl.link # "recovering",
           DeadTurns \subseteq DeadTurns'
    PROVE  Extends(View', View)
<1>1. KnownTurns' = KnownTurns /\ DoneTurns' = DoneTurns
    BY DEF KnownTurns, DoneTurns
<1>2. /\ notes \in Seq(Notes) /\ buffered \in Nat /\ Len(notes) \in Nat
      /\ DOMAIN notes = 1..Len(notes) /\ DOMAIN notes' = 1..(Len(notes) - 1)
    BY DEF TypeOK
<1>3. \A i \in DOMAIN notes' : i + 1 \in DOMAIN notes /\ notes'[i] = notes[i + 1]
    BY <1>2
<1>4. QuietTurns \subseteq QuietTurns'
    BY <1>1, <1>3 DEF QuietTurns
<1>5. OldTurns \subseteq OldTurns'
  <2> SUFFICES ASSUME NEW x \in OldTurns, NEW i \in DOMAIN notes', notes'[i].turn = x
               PROVE  i <= buffered'
    BY <1>1 DEF OldTurns
  <2>1. i + 1 <= buffered
    BY <1>3 DEF OldTurns, Unanswered
  <2> QED BY <1>2, <2>1
<1>6. UnowedTurns \subseteq UnowedTurns'
    BY <1>1, <1>3 DEF UnowedTurns, Owed
<1>7. Precedes \subseteq Precedes'
  <2> SUFFICES ASSUME NEW xy \in Precedes, NEW i \in DOMAIN notes', NEW j \in DOMAIN notes',
                      notes'[i].turn = xy[1], notes'[j].turn = xy[2]
               PROVE  i < j
    BY <1>1 DEF Precedes
  <2>1. i + 1 < j + 1
    BY <1>3 DEF Precedes
  <2> QED BY <1>2, <2>1
<1> QED BY <1>1, <1>4, <1>5, <1>6, <1>7, ViewExtends

\* The stream after a step of Core.
LEMMA EmitAt ==
    ASSUME TypeOK, NEW ns \in Seq(Notes)
    PROVE  LET all == Emit(ns)
           IN  /\ \A i \in DOMAIN notes : i \in DOMAIN all /\ all[i] = notes[i] /\ i \in Nat
               /\ \A i \in DOMAIN all :
                     \/ i \in DOMAIN notes
                     \/ /\ Heard /\ i \in Nat /\ \A j \in DOMAIN notes : j < i
                        /\ i - Len(notes) \in DOMAIN ns /\ all[i] = ns[i - Len(notes)]
<1>1. /\ notes \in Seq(Notes) /\ Len(notes) \in Nat /\ DOMAIN notes = 1..Len(notes)
      /\ Len(ns) \in Nat /\ DOMAIN ns = 1..Len(ns)
    BY DEF TypeOK
<1>2. CASE ~Heard
    BY <1>1, <1>2 DEF Emit
<1>3. CASE Heard
  <2> DEFINE all == notes \o ns
  <2>1. /\ DOMAIN all = 1..(Len(notes) + Len(ns))
        /\ \A i \in 1..(Len(notes) + Len(ns)) :
              all[i] = IF i <= Len(notes) THEN notes[i] ELSE ns[i - Len(notes)]
    BY <1>1
  <2>2. Emit(ns) = all
    BY <1>3 DEF Emit
  <2> HIDE DEF all
  <2>3. \A i \in DOMAIN notes : i \in DOMAIN all /\ all[i] = notes[i] /\ i \in Nat
    BY <1>1, <2>1
  <2>4. \A i \in DOMAIN all : i \notin DOMAIN notes =>
           /\ i \in Nat /\ \A j \in DOMAIN notes : j < i
           /\ i - Len(notes) \in DOMAIN ns /\ all[i] = ns[i - Len(notes)]
    BY <1>1, <2>1
  <2> QED BY <1>3, <2>2, <2>3, <2>4
<1> QED BY <1>2, <1>3

\* Core says nothing more of a turn that ended.
LEMMA EmitExtends ==
    ASSUME TypeOK, ctl' = ctl, snap' = snap, buffered' = buffered,
           KnownTurns \subseteq KnownTurns', DoneTurns \subseteq DoneTurns',
           NEW ns \in Seq(Notes), notes' = Emit(ns),
           \A i \in DOMAIN ns : ns[i].turn \notin DoneTurns,
           \A i \in DOMAIN notes, p \in handedBack' : Returns(notes[i], p) => p \in handedBack,
           DeadTurns \subseteq DeadTurns'
    PROVE  Extends(View', View)
<1>1. /\ \A i \in DOMAIN notes : i \in DOMAIN notes' /\ notes'[i] = notes[i] /\ i \in Nat
      /\ \A i \in DOMAIN notes' :
            \/ i \in DOMAIN notes
            \/ i \in Nat /\ notes'[i].turn \notin DoneTurns /\ \A j \in DOMAIN notes : j < i
    BY EmitAt
<1>2. \A i \in DOMAIN notes' : notes'[i].turn \in DoneTurns => i \in DOMAIN notes /\ notes'[i] = notes[i]
    BY <1>1
<1>3. QuietTurns \subseteq QuietTurns'
    BY <1>2 DEF QuietTurns
<1>4. OldTurns \subseteq OldTurns'
    BY <1>2 DEF OldTurns, Unanswered
<1>5. UnowedTurns \subseteq UnowedTurns'
    BY <1>2 DEF UnowedTurns, Owed
<1>6. Precedes \subseteq Precedes'
  <2> SUFFICES ASSUME NEW xy \in Precedes, NEW i \in DOMAIN notes', NEW j \in DOMAIN notes',
                      notes'[i].turn = xy[1], notes'[j].turn = xy[2]
               PROVE  i < j
    BY DEF Precedes
  <2>1. i \in DOMAIN notes /\ notes'[i] = notes[i]
    BY <1>2 DEF Precedes
  <2> QED BY <1>1, <2>1 DEF Precedes
<1> QED BY <1>3, <1>4, <1>5, <1>6, ViewExtends

\* The view is one that the handlers can rely on.
LEMMA ViewHolds ==
    ASSUME KnownInv, ctl.link # "closed", NEW v, NEW c,
           v.known = KnownTurns, v.done = DoneTurns,
           v.quiet \subseteq v.old, v.quiet \subseteq v.unowed,
           v.old \subseteq v.done, v.unowed \subseteq v.done,
           v.before \subseteq v.done \X v.known,
           c.link = "ready" => v.old \subseteq v.quiet, Unsent(c) \subseteq Unsent(ctl)
    PROVE  ViewOf(c, v)
<1>1. \A t \in KnownTurns : Sure(ctl, t)
    BY KnownIsSure DEF KnownTurns
<1>2. \A t \in KnownTurns : Sure(c, t)
    BY <1>1 DEF Sure
<1>3. DoneTurns \subseteq KnownTurns /\ KnownTurns \subseteq Turns
    BY DEF DoneTurns, KnownTurns
<1>4. \A x, y : <<x, y>> \in v.before => y \in v.known
    OBVIOUS
<1> QED BY <1>2, <1>3, <1>4 DEF ViewOf

LEMMA ViewNext ==
    ASSUME KnownInv, ctl.link # "closed", srv' = srv, NEW c, Unsent(c) \subseteq Unsent(ctl),
           c.link = "ready" => OldTurns' \subseteq QuietTurns'
    PROVE  ViewOf(c, View')
<1>1. KnownTurns' = KnownTurns /\ DoneTurns' = DoneTurns
    BY DEF KnownTurns, DoneTurns
<1>2. /\ QuietTurns' \subseteq OldTurns' /\ OldTurns' \subseteq DoneTurns'
      /\ UnowedTurns' \subseteq DoneTurns' /\ Precedes' \subseteq DoneTurns' \X KnownTurns'
    BY DEF QuietTurns, OldTurns, UnowedTurns, Precedes
<1>3. QuietTurns' \subseteq UnowedTurns'
    BY DEF QuietTurns, UnowedTurns, Owed
<1>4. /\ View'.known = KnownTurns' /\ View'.done = DoneTurns' /\ View'.quiet = QuietTurns'
      /\ View'.old = OldTurns' /\ View'.unowed = UnowedTurns' /\ View'.before = Precedes'
    BY DEF View
<1> QED BY <1>1, <1>2, <1>3, <1>4, ViewHolds

-----------------------------------------------------------------------------
(* What Core and the stream promise *)

LEMMA ReturnedIs ==
    ASSUME NEW ns, NEW p
    PROVE  p \in Returned(ns) <=> \E i \in DOMAIN ns : Returns(ns[i], p)
BY DEF Returned, Returns

\* The events that a step of the client leaves keep their order.
LEMMA ConsumesAt ==
    ASSUME TypeOK, Consumes
    PROVE  \E s \in {0, 1} : \A i \in DOMAIN notes' :
               i \in Nat /\ i + s \in DOMAIN notes /\ notes'[i] = notes[i + s]
<1>1. notes \in Seq(Notes) /\ Len(notes) \in Nat /\ DOMAIN notes = 1..Len(notes)
    BY DEF TypeOK
<1>2. CASE notes' = notes
  <2>1. \A i \in DOMAIN notes' : i \in Nat /\ i + 0 \in DOMAIN notes /\ notes'[i] = notes[i + 0]
    BY <1>1, <1>2
  <2> QED BY <2>1
<1>3. CASE notes' = <<>>
  <2>1. DOMAIN notes' = {}
    BY <1>3
  <2> QED BY <2>1
<1>4. CASE notes # <<>> /\ notes' = Tail(notes)
  <2>1. DOMAIN notes' = 1..(Len(notes) - 1)
    BY <1>1, <1>4
  <2>2. \A i \in DOMAIN notes' : i \in Nat /\ i + 1 \in DOMAIN notes /\ notes'[i] = notes[i + 1]
    BY <1>1, <1>4, <2>1
  <2> QED BY <2>2
<1> QED BY <1>2, <1>3, <1>4 DEF Consumes

LEMMA ConsumesCore ==
    ASSUME TypeOK, CoreInvariant, Consumes, runs' = runs, handedBack' \subseteq handedBack,
           snap' # NoSnap => ctl'.link \in {"opening", "recovering"}, Drained'
    PROVE  CoreInvariant'
<1> USE DEF CoreInvariant
<1>1. /\ \A p : /\ SteerFrame(p)' => SteerFrame(p)
                /\ InInputs(p)' <=> InInputs(p)
      /\ Returned(notes') \subseteq Returned(notes)
    BY ConsumesFresh
<1>2. PICK s \in {0, 1} : \A i \in DOMAIN notes' :
          i \in Nat /\ i + s \in DOMAIN notes /\ notes'[i] = notes[i + s]
    BY ConsumesAt
<1>3. CoreRuns'
    BY DEF CoreRuns, Consumes, Foreground
<1>4. StreamEnds'
  <2> SUFFICES ASSUME NEW i \in DOMAIN notes'
               PROVE  /\ notes'[i].kind # "started" => srv'[notes'[i].turn] = "done"
                      /\ notes'[i].kind = "terminal" =>
                           \A j \in DOMAIN notes' : j > i => notes'[j].turn # notes'[i].turn
    BY DEF StreamEnds
  <2>1. i + s \in DOMAIN notes /\ notes'[i] = notes[i + s] /\ srv' = srv
    BY <1>2 DEF Consumes
  <2>2. ASSUME NEW j \in DOMAIN notes', j > i
        PROVE  j + s \in DOMAIN notes /\ notes'[j] = notes[j + s] /\ j + s > i + s
    BY <1>2, <2>2
  <2> QED BY <2>1, <2>2 DEF StreamEnds
<1>5. SnapTells'
    BY DEF SnapTells, Consumes
<1>6. ReturnedOnce'
  <2>1. handedBack' \subseteq steerSent'
    BY DEF ReturnedOnce, Consumes
  <2>2. \A p \in Locals : SteerFrame(p)' \/ InInputs(p)' => p \notin handedBack' /\ p \notin Returned(notes')
    BY <1>1 DEF ReturnedOnce
  <2>3. ASSUME NEW i \in DOMAIN notes', NEW j \in DOMAIN notes', NEW p \in Locals,
               Returns(notes'[i], p), Returns(notes'[j], p)
        PROVE  i = j
    <3>1. i + s = j + s /\ i \in Nat /\ j \in Nat
        BY <1>2, <2>3 DEF ReturnedOnce
    <3> QED BY <3>1
  <2>4. ASSUME NEW r \in replies', r.kind = "steer", r.result # "steered"
        PROVE  /\ ~SteerFrame(r.turn)' /\ ~InInputs(r.turn)' /\ r.turn \notin Returned(notes')
               /\ r.result = "fellback" => runs'[r.turn] > 0 /\ srv'[r.by] # "none"
    <3>1. r \in replies /\ srv' = srv
        BY DEF Consumes
    <3> QED BY <1>1, <2>4, <3>1 DEF ReturnedOnce
  <2>5. \A r \in replies' : r.kind = "steer" /\ r.result # "steered" =>
          /\ ~SteerFrame(r.turn)' /\ ~InInputs(r.turn)' /\ r.turn \notin Returned(notes')
          /\ r.result = "fellback" => runs'[r.turn] > 0 /\ srv'[r.by] # "none"
    BY <2>4
  <2>6. \A i, j \in DOMAIN notes' : \A p \in Locals :
          Returns(notes'[i], p) /\ Returns(notes'[j], p) => i = j
    BY <2>3
  <2> QED BY <2>1, <2>2, <2>5, <2>6 DEF ReturnedOnce, SteerFrame, InInputs
<1> QED BY <1>3, <1>4, <1>5, <1>6

\* Core adds to the stream: of turns that had not ended, and nothing after a terminal.
LEMMA EmitEnds ==
    ASSUME TypeOK, StreamEnds, SnapTells, Drained, ctl' = ctl, snap' = snap, buffered' = buffered,
           DoneTurns \subseteq DoneTurns', NEW ns \in Seq(Notes), notes' = Emit(ns),
           \A i \in DOMAIN ns :
              /\ ns[i].turn \in Turns \ DoneTurns
              /\ ns[i].kind # "started" => srv'[ns[i].turn] = "done"
              /\ ns[i].kind = "terminal" => \A j \in DOMAIN ns : ~(j > i)
    PROVE  StreamEnds' /\ SnapTells' /\ Drained'
<1>1. /\ \A i \in DOMAIN notes : i \in DOMAIN notes' /\ notes'[i] = notes[i] /\ i \in Nat
      /\ \A i \in DOMAIN notes' :
            \/ i \in DOMAIN notes
            \/ /\ i \in Nat /\ \A j \in DOMAIN notes : j < i
               /\ i - Len(notes) \in DOMAIN ns /\ notes'[i] = ns[i - Len(notes)]
    BY EmitAt
<1>2. /\ \A i \in DOMAIN notes : notes[i].turn \in Turns /\ Len(notes) \in Nat
      /\ \A i \in DOMAIN ns : i \in Nat
    BY DEF TypeOK, Notes
<1>3. StreamEnds'
  <2> SUFFICES ASSUME NEW i \in DOMAIN notes'
               PROVE  /\ notes'[i].kind # "started" => srv'[notes'[i].turn] = "done"
                      /\ notes'[i].kind = "terminal" =>
                           \A j \in DOMAIN notes' : j > i => notes'[j].turn # notes'[i].turn
    BY DEF StreamEnds
  <2>1. CASE i \in DOMAIN notes
    <3>1. notes'[i] = notes[i] /\ (notes[i].kind # "started" => notes[i].turn \in DoneTurns)
        BY <1>1, <1>2, <2>1 DEF StreamEnds, DoneTurns
    <3>2. \A x \in DoneTurns : srv'[x] = "done"
        BY DEF DoneTurns
    <3>3. ASSUME NEW j \in DOMAIN notes', j > i, notes[i].kind = "terminal"
          PROVE  notes'[j].turn # notes[i].turn
        BY <1>1, <2>1, <3>1, <3>3 DEF StreamEnds
    <3> QED BY <3>1, <3>2, <3>3
  <2>2. CASE i \notin DOMAIN notes
    <3>1. ASSUME NEW j \in DOMAIN notes', j > i, notes'[i].kind = "terminal" PROVE FALSE
      <4>1. j \notin DOMAIN notes /\ j \in Nat /\ i \in Nat
        BY <1>1, <2>2, <3>1
      <4>2. /\ i - Len(notes) \in DOMAIN ns /\ notes'[i] = ns[i - Len(notes)]
            /\ j - Len(notes) \in DOMAIN ns
        BY <1>1, <2>2, <4>1
      <4>3. j - Len(notes) > i - Len(notes)
        BY <3>1, <4>1 DEF TypeOK
      <4> QED BY <3>1, <4>2, <4>3
    <3> QED BY <1>1, <2>2, <3>1
  <2> QED BY <2>1, <2>2
<1>4. SnapTells'
    BY DEF SnapTells, DoneTurns
<1> QED BY <1>3, <1>4 DEF Drained

\* Text moves towards the model, and no event returns it.
LEMMA CoreReturns ==
    ASSUME ReturnedOnce, handedBack' = handedBack, steerSent' = steerSent,
           \A p : SteerFrame(p)' => SteerFrame(p),
           \A p : InInputs(p)' => InInputs(p) \/ SteerFrame(p),
           \A i \in DOMAIN notes' : \A p :
              Returns(notes'[i], p) => i \in DOMAIN notes /\ Returns(notes[i], p),
           replies' \subseteq Replies,
           \A r \in replies' : r.kind = "steer" /\ r.result # "steered" =>
              /\ ~SteerFrame(r.turn)' /\ ~InInputs(r.turn)' /\ r.turn \notin Returned(notes)
              /\ r.result = "fellback" => runs'[r.turn] > 0 /\ srv'[r.by] # "none"
    PROVE  ReturnedOnce'
<1>1. \A p : p \in Returned(notes') => p \in Returned(notes)
    BY ReturnedIs
<1>2. \A p \in Locals : SteerFrame(p)' \/ InInputs(p)' => p \notin handedBack' /\ p \notin Returned(notes')
    BY <1>1 DEF ReturnedOnce
<1>3. \A i, j \in DOMAIN notes' : \A p \in Locals :
          Returns(notes'[i], p) /\ Returns(notes'[j], p) => i = j
    BY DEF ReturnedOnce
<1>4. handedBack' \subseteq steerSent'
    BY DEF ReturnedOnce
<1> QED BY <1>1, <1>2, <1>3, <1>4 DEF ReturnedOnce, SteerFrame, InInputs

LEMMA StartedEmits ==
    ASSUME TypeOK, NEW t \in Turns, notes' = Emit(<<[kind |-> "started", turn |-> t]>>)
    PROVE  \A i \in DOMAIN notes' : \A p :
               Returns(notes'[i], p) => i \in DOMAIN notes /\ Returns(notes[i], p)
<1> DEFINE ns == <<[kind |-> "started", turn |-> t]>>
<1>1. ns \in Seq(Notes) /\ \A i \in DOMAIN ns : ns[i].kind = "started"
    BY DEF Notes
<1> HIDE DEF ns
<1>2. \A i \in DOMAIN notes' : (i \in DOMAIN notes /\ notes'[i] = notes[i]) \/ notes'[i].kind = "started"
    BY <1>1, EmitAt DEF ns
<1> QED BY <1>2 DEF Returns

\* A turn starts in Core.
LEMMA StartedEnds ==
    ASSUME TypeOK, CoreInvariant, NEW t \in Turns, srv[t] = "none", Foreground = {},
           srv' = [srv EXCEPT ![t] = "active"], UNCHANGED <<ctl, snap, buffered>>,
           notes' = Emit(<<[kind |-> "started", turn |-> t]>>),
           \A p \in Locals : runs[p] > 0 => runs'[p] > 0,
           t \in Locals => runs'[t] > 0
    PROVE  CoreRuns' /\ StreamEnds' /\ SnapTells' /\ Drained'
<1> DEFINE ns == <<[kind |-> "started", turn |-> t]>>
<1>1. /\ ns \in Seq(Notes)
      /\ \A i \in DOMAIN ns : ns[i].kind = "started" /\ ns[i].turn = t
    BY DEF Notes
<1>2. DoneTurns \subseteq DoneTurns' /\ t \notin DoneTurns
    BY DEF DoneTurns, TypeOK
<1> HIDE DEF ns
<1>3. StreamEnds' /\ SnapTells' /\ Drained'
  <2>1. notes' = Emit(ns)
    BY DEF ns
  <2>2. \A i \in DOMAIN ns :
              /\ ns[i].turn \in Turns \ DoneTurns
              /\ ns[i].kind # "started" => srv'[ns[i].turn] = "done"
              /\ ns[i].kind = "terminal" => \A j \in DOMAIN ns : ~(j > i)
    BY <1>1, <1>2
  <2>3. ctl' = ctl /\ snap' = snap /\ buffered' = buffered
    OBVIOUS
  <2> QED BY <1>1, <1>2, <2>1, <2>2, <2>3, EmitEnds DEF CoreInvariant
<1>4. CoreRuns'
  <2>1. \A x \in Foreground' : x = t
    BY DEF Foreground, TypeOK
  <2>2. \A x \in Locals : srv'[x] # "none" => srv[x] # "none" \/ x = t
    BY DEF TypeOK, Turns
  <2> QED BY <2>1, <2>2 DEF CoreInvariant, CoreRuns
<1> QED BY <1>3, <1>4

-----------------------------------------------------------------------------
(* Steps of Core *)

\* Core moves without ending a turn.
LEMMA CoreMoved ==
    ASSUME LostInv, TurnInv', CoreInvariant', Extends(View', View), ctl' = ctl,
           UNCHANGED <<snap, steerSent, orphaned, handedBack, gone, admitted>>, wire' \subseteq wire,
           DoneTurns \subseteq DoneTurns', Foreground \subseteq Foreground',
           \A p \in Locals : runs[p] > 0 => runs'[p] > 0,
           \A p : InInputs(p)' => \/ InInputs(p)
                                  \/ \E m \in wire : m.kind = "steer" /\ m.turn = p /\ m.to \in Foreground,
           \A i \in DOMAIN notes : i \in DOMAIN notes' /\ notes'[i] = notes[i],
           \A i \in DOMAIN notes' : \A p :
              Returns(notes'[i], p) => i \in DOMAIN notes /\ Returns(notes[i], p),
           \A r \in replies' : \/ r \in replies
                               \/ ~(r.kind = "steer" /\ r.result = "fellback")
                               \/ \A x \in SteerOwners(ctl) :
                                     x # r.by /\ x \in DoneTurns' /\ <<x, r.by>> \in Precedes',
           ctl.link = "closed" => UNCHANGED <<replies, notes>>
    PROVE  LostInv'
<1>1. \A p : p \in Returned(notes) => p \in Returned(notes')
    BY ReturnedIs
<1>2. NoPromptLost'
  <2> SUFFICES ASSUME NEW p \in Locals \ Reviews,
                      p \in {admitted[i] : i \in DOMAIN admitted} \cup ctl.steerAdmitted
               PROVE  \/ runs'[p] > 0
                      \/ p \in QueuedIds(ctl.q) \cup RetainedTurns(ctl) \cup ctl.composer \cup gone
                      \/ p \in steerSent /\ p \notin handedBack \ Returned(notes')
    BY DEF NoPromptLost
  <2> QED BY <1>1 DEF LostInv, NoPromptLost
<1>3. CASE ctl.link = "closed"
  <2>1. Shut'
    BY <1>3 DEF LostInv, Shut
  <2> QED BY <1>2, <1>3, <2>1 DEF LostInv
<1>4. CASE ctl.link # "closed"
  <2> USE DEF Watched
  <2>0. Watched
    BY <1>4 DEF LostInv
  <2>1. Tended(ctl, View')
    BY <2>0, ExtendsTended
  <2>2. \A p, x : KeptFor(p, x)' = KeptFor(p, x)
    BY DEF KeptFor
  <2>3. Cared'
    <3>1. ASSUME NEW m \in wire', m.kind = "steer", m.turn \notin orphaned, srv'[m.to] # "done"
          PROVE  KeptFor(m.turn, m.to)
      <4>1. m \in wire /\ m.to \in Turns
        BY <3>1, RequestForms DEF LostInv, TurnInv, KnownInv, SentInv, TypeOK
      <4>2. srv[m.to] # "done"
        BY <3>1, <4>1 DEF DoneTurns
      <4> QED BY <2>0, <3>1, <4>1, <4>2 DEF Cared
    <3>2. ASSUME NEW i \in DOMAIN inputs', inputs'[i] \notin orphaned
          PROVE  \E x \in Foreground' : KeptFor(inputs'[i], x)
      <4>1. PICK p : p = inputs'[i]
        OBVIOUS
      <4>2. CASE InInputs(p)
        BY <2>0, <3>2, <4>1, <4>2 DEF Cared, InInputs
      <4>3. ASSUME NEW m \in wire, m.kind = "steer", m.turn = p, m.to \in Foreground
            PROVE  \E x \in Foreground' : KeptFor(p, x)
        <5>1. srv[m.to] # "done" /\ m.to \in Foreground'
            BY <4>3 DEF Foreground
        <5> QED BY <2>0, <3>2, <4>1, <4>3, <5>1 DEF Cared
      <4>4. InInputs(p)'
        BY <4>1 DEF InInputs
      <4> QED BY <4>1, <4>2, <4>3, <4>4
    <3>3. ASSUME NEW i \in DOMAIN notes', NEW p \in handedBack, Returns(notes'[i], p)
          PROVE  KeptFor(p, notes'[i].turn)
        BY <2>0, <3>3 DEF Cared
    <3> QED BY <2>2, <3>1, <3>2, <3>3 DEF Cared, KeptFor
  <2>4. KeptIsReturned'
    BY <2>0 DEF KeptIsReturned
  <2>5. Aimed'
    BY <2>0 DEF Aimed
  <2>6. /\ DoneTurns \subseteq DoneTurns' /\ Precedes \subseteq Precedes'
        /\ OldTurns \subseteq OldTurns' /\ QuietTurns \subseteq QuietTurns'
    BY DEF Extends, View
  <2>7. FellBackLast'
    BY <2>0, <2>6 DEF FellBackLast
  <2>8. SnapSteers'
    BY <2>0, <2>6 DEF SnapSteers
  <2>9. Watched'
    BY <2>1, <2>3, <2>4, <2>5, <2>7, <2>8
  <2> QED BY <1>2, <1>4, <2>9 DEF LostInv
<1> QED BY <1>3, <1>4

LEMMA CoreSilent ==
    ASSUME LostInv, TurnInv', ctl' = ctl,
           UNCHANGED <<notes, snap, buffered, steerSent, orphaned, handedBack, gone, admitted>>,
           wire' \subseteq wire, KnownTurns' = KnownTurns, DoneTurns' = DoneTurns,
           Foreground' = Foreground, \A p \in Locals : runs[p] > 0 => runs'[p] > 0,
           \A p : InInputs(p)' => \/ InInputs(p)
                                  \/ \E m \in wire : m.kind = "steer" /\ m.turn = p /\ m.to \in Foreground,
           \A r \in replies' :
              \/ r \in replies /\ (r.kind = "steer" /\ r.result # "steered" => ~InInputs(r.turn)')
              \/ r.kind = "start" \/ r.result = "steered"
              \/ /\ r.kind = "steer" /\ r.result = "reject"
                 /\ ~SteerFrame(r.turn)' /\ ~InInputs(r.turn)' /\ r.turn \notin Returned(notes),
           ctl.link = "closed" => replies' = replies
    PROVE  LostInv'
<1> USE DEF LostInv, TurnInv, KnownInv, SentInv, CoreInvariant
<1>1. CoreRuns'
    BY DEF CoreRuns, KnownTurns, Turns
<1>2. StreamEnds'
  <2>1. \A i \in DOMAIN notes : notes[i].turn \in Turns
    BY DEF TypeOK, Notes
  <2> QED BY <2>1 DEF StreamEnds, DoneTurns
<1>3. SnapTells' /\ Drained'
    BY DEF SnapTells, Drained, DoneTurns
<1>4. \A p : SteerFrame(p)' => SteerFrame(p)
    BY DEF SteerFrame
<1>5. \A p : InInputs(p)' => InInputs(p) \/ SteerFrame(p)
    BY DEF SteerFrame
<1>6. replies' \subseteq Replies
    BY DEF TypeOK
<1>7. ReturnedOnce'
  <2>1. ASSUME NEW r \in replies', r.kind = "steer", r.result # "steered"
        PROVE  /\ ~SteerFrame(r.turn)' /\ ~InInputs(r.turn)' /\ r.turn \notin Returned(notes)
               /\ r.result = "fellback" => runs'[r.turn] > 0 /\ srv'[r.by] # "none"
    <3>1. CASE r \in replies
      <4>1. /\ ~SteerFrame(r.turn)' /\ r.turn \notin Returned(notes) /\ ~InInputs(r.turn)'
            /\ r.result = "fellback" => runs[r.turn] > 0 /\ srv[r.by] # "none"
        BY <1>4, <2>1, <3>1 DEF ReturnedOnce
      <4>2. r.turn \in Locals /\ (r.result = "fellback" => r.by \in Turns)
        BY <2>1, <3>1, ReplyForms DEF TypeOK, RepliesKnow, Turns
      <4> QED BY <4>1, <4>2 DEF KnownTurns
    <3> QED BY <2>1, <3>1
  <2>2. \A i \in DOMAIN notes' : \A p :
            Returns(notes'[i], p) => i \in DOMAIN notes /\ Returns(notes[i], p)
    OBVIOUS
  <2>3. \A r \in replies' : r.kind = "steer" /\ r.result # "steered" =>
              /\ ~SteerFrame(r.turn)' /\ ~InInputs(r.turn)' /\ r.turn \notin Returned(notes)
              /\ r.result = "fellback" => runs'[r.turn] > 0 /\ srv'[r.by] # "none"
    BY <2>1
  <2> QED BY <1>4, <1>5, <1>6, <2>2, <2>3, CoreReturns
<1>8. CoreInvariant'
    BY <1>1, <1>2, <1>3, <1>7
<1>9. Extends(View', View)
  <2>1. DeadTurns \subseteq DeadTurns'
    <3>1. \A x \in DeadTurns : srv'[x] = "none"
        BY DEF DeadTurns, KnownTurns, Turns
    <3>2. \A p \in Locals : StartFrame(p)' => StartFrame(p) \/ p \in Unsent(ctl)
        BY DEF StartFrame
    <3> QED BY <3>1, <3>2, DeadStay
  <2> QED BY <2>1, SameStreamExtends DEF Unanswered
<1>10. \A r \in replies' : r \in replies \/ ~(r.kind = "steer" /\ r.result = "fellback")
    OBVIOUS
<1>11. ctl.link = "closed" => UNCHANGED <<replies, notes>>
    OBVIOUS
<1>12. \A i \in DOMAIN notes' : \A p :
            Returns(notes'[i], p) => i \in DOMAIN notes /\ Returns(notes[i], p)
    OBVIOUS
<1> HIDE DEF LostInv, TurnInv, KnownInv, SentInv, CoreInvariant
<1> QED BY <1>8, <1>9, <1>10, <1>11, <1>12, CoreMoved

LEMMA CoreStarted ==
    ASSUME LostInv, TurnInv', NEW t \in Turns, srv[t] = "none", Foreground = {},
           srv' = [srv EXCEPT ![t] = "active"],
           UNCHANGED <<ctl, inputs, snap, buffered, steerSent, orphaned, handedBack, gone, admitted>>,
           notes' = Emit(<<[kind |-> "started", turn |-> t]>>), wire' \subseteq wire,
           \A p \in Locals : runs[p] > 0 => runs'[p] > 0,
           t \in Locals => runs'[t] > 0 /\ StartFrame(t),
           \A r \in replies' :
              \/ r \in replies \/ r.kind = "start"
              \/ /\ r.result = "fellback" /\ r.by = t /\ runs'[r.turn] > 0
                 /\ ~SteerFrame(r.turn)' /\ ~InInputs(r.turn) /\ r.turn \notin Returned(notes),
           ctl.link = "closed" => replies' = replies
    PROVE  LostInv'
<1> DEFINE ns == <<[kind |-> "started", turn |-> t]>>
<1>0. /\ TypeOK /\ TypeOK' /\ StreamKnows /\ CoreInvariant /\ RepliesKnow
      /\ ctl.link # "closed" => Watched
      /\ ctl.link = "closed" => Shut
    BY DEF LostInv, TurnInv, KnownInv, SentInv
<1>1. CoreRuns' /\ StreamEnds' /\ SnapTells' /\ Drained'
    BY <1>0, StartedEnds
<1>2. /\ ns \in Seq(Notes)
      /\ \A i \in DOMAIN ns : ns[i].kind = "started" /\ ns[i].turn = t
    BY DEF Notes
<1>3. /\ KnownTurns' = KnownTurns \cup {t} /\ t \notin KnownTurns
      /\ DoneTurns \subseteq DoneTurns' /\ t \notin DoneTurns
    BY <1>0 DEF KnownTurns, DoneTurns, TypeOK
<1>4. \A i \in DOMAIN notes' : \A p :
          Returns(notes'[i], p) => i \in DOMAIN notes /\ Returns(notes[i], p)
    BY <1>0, StartedEmits
<1>5. /\ \A p : SteerFrame(p)' => SteerFrame(p)
      /\ \A p : InInputs(p)' <=> InInputs(p)
    BY DEF SteerFrame, InInputs
<1>6. ReturnedOnce'
  <2>1. ASSUME NEW r \in replies', r.kind = "steer", r.result # "steered"
        PROVE  /\ ~SteerFrame(r.turn)' /\ ~InInputs(r.turn)' /\ r.turn \notin Returned(notes)
               /\ r.result = "fellback" => runs'[r.turn] > 0 /\ srv'[r.by] # "none"
    <3>1. CASE r \in replies
      <4>1. /\ ~SteerFrame(r.turn)' /\ ~InInputs(r.turn)' /\ r.turn \notin Returned(notes)
            /\ r.result = "fellback" => runs[r.turn] > 0 /\ srv[r.by] # "none"
        BY <1>0, <1>5, <2>1, <3>1 DEF CoreInvariant, ReturnedOnce
      <4>2. r.turn \in Locals /\ (r.result = "fellback" => r.by \in Turns)
        BY <1>0, <2>1, <3>1, ReplyForms DEF TypeOK, RepliesKnow, Turns
      <4> QED BY <1>3, <4>1, <4>2 DEF KnownTurns
    <3>2. CASE r \notin replies
      <4>1. srv'[t] # "none"
        BY <1>0 DEF TypeOK
      <4> QED BY <1>5, <2>1, <3>2, <4>1
    <3> QED BY <3>1, <3>2
  <2>2. \A r \in replies' : r.kind = "steer" /\ r.result # "steered" =>
              /\ ~SteerFrame(r.turn)' /\ ~InInputs(r.turn)' /\ r.turn \notin Returned(notes)
              /\ r.result = "fellback" => runs'[r.turn] > 0 /\ srv'[r.by] # "none"
    BY <2>1
  <2>3. replies' \subseteq Replies
    BY <1>0 DEF TypeOK
  <2> QED BY <1>0, <1>4, <1>5, <2>2, <2>3, CoreReturns DEF CoreInvariant
<1>7. CoreInvariant'
    BY <1>1, <1>6 DEF CoreInvariant
<1>8. Extends(View', View)
  <2>1. DeadTurns \subseteq DeadTurns'
    <3>1. \A x \in DeadTurns : srv'[x] = "none"
        BY <1>0 DEF DeadTurns, Turns, TypeOK
    <3>2. \A p \in Locals : StartFrame(p)' => StartFrame(p) \/ p \in Unsent(ctl)
        BY DEF StartFrame
    <3> QED BY <3>1, <3>2, DeadStay
  <2>2. \A i \in DOMAIN ns : ns[i].turn \notin DoneTurns
    BY <1>2, <1>3
  <2>3. notes' = Emit(ns)
    OBVIOUS
  <2> HIDE DEF ns
  <2> QED BY <1>0, <1>2, <1>3, <2>1, <2>2, <2>3, EmitExtends
<1>9. /\ \A i \in DOMAIN notes : i \in DOMAIN notes' /\ notes'[i] = notes[i]
      /\ \A i \in DOMAIN notes' : \/ i \in DOMAIN notes
                                  \/ notes'[i].turn = t /\ \A j \in DOMAIN notes : j < i
  <2>1. notes' = Emit(ns)
    OBVIOUS
  <2> HIDE DEF ns
  <2>2. /\ \A i \in DOMAIN notes : i \in DOMAIN notes' /\ notes'[i] = notes[i]
        /\ \A i \in DOMAIN notes' :
              \/ i \in DOMAIN notes
              \/ /\ \A j \in DOMAIN notes : j < i
                 /\ i - Len(notes) \in DOMAIN ns /\ notes'[i] = ns[i - Len(notes)]
    BY <1>0, <1>2, <2>1, EmitAt
  <2> QED BY <1>2, <2>2, Zenon
<1> HIDE DEF ns
<1>10. ASSUME NEW r \in replies', r \notin replies, r.kind = "steer", r.result = "fellback",
              NEW x \in SteerOwners(ctl)
       PROVE  x # r.by /\ x \in DoneTurns' /\ <<x, r.by>> \in Precedes'
  <2>1. r.by = t
    BY <1>10
  <2>2. ctl.link # "closed"
    BY <1>0, <1>10
  <2>3. x \in KnownTurns
    BY <1>0, <2>2 DEF Watched, Tended, Tends, View
  <2>4. x # t /\ x \in DoneTurns
    BY <1>0, <1>3, <2>3 DEF KnownTurns, DoneTurns, Foreground, TypeOK
  <2>5. ASSUME NEW i \in DOMAIN notes', NEW j \in DOMAIN notes', notes'[i].turn = x, notes'[j].turn = t
        PROVE  i < j
    <3>1. i \in DOMAIN notes
        BY <1>9, <2>4, <2>5
    <3>2. j \notin DOMAIN notes
        BY <1>0, <1>9, <2>5 DEF StreamKnows
    <3> QED BY <1>9, <3>1, <3>2
  <2> QED BY <1>3, <2>1, <2>4, <2>5 DEF Precedes
<1>11. Foreground \subseteq Foreground'
    OBVIOUS
<1>12. ctl.link = "closed" => UNCHANGED <<replies, notes>>
    BY DEF Emit, Heard
<1>13. UNCHANGED <<snap, steerSent, orphaned, handedBack, gone, admitted>> /\ ctl' = ctl
    OBVIOUS
<1>14. \A r \in replies' : \/ r \in replies
                           \/ ~(r.kind = "steer" /\ r.result = "fellback")
                           \/ \A x \in SteerOwners(ctl) :
                                 x # r.by /\ x \in DoneTurns' /\ <<x, r.by>> \in Precedes'
    BY <1>10
<1> QED BY <1>3, <1>4, <1>5, <1>7, <1>8, <1>9, <1>11, <1>12, <1>13, <1>14, CoreMoved

LEMMA ReplyAdds ==
    ASSUME NEW r
    PROVE  /\ \A x \in Reply(r) : x \in replies \/ x = r
           /\ ctl.link = "closed" => Reply(r) = replies
BY DEF Reply, Linked

LEMMA CoreStartLost ==
    ASSUME LostInv, TurnInv', NEW m \in wire, CoreStart(m)
    PROVE  LostInv'
<1>1. PICK t : t = m.turn
    OBVIOUS
<1>2. /\ m \in Requests /\ m.kind = "start" /\ wire' = wire \ {m}
      /\ UNCHANGED <<ctl, inputs, snap, buffered, steerSent, orphaned, handedBack, gone, admitted>>
      /\ TypeOK /\ StartsKnow
    BY DEF CoreStart, LostInv, TurnInv, KnownInv, SentInv, TypeOK, bounds
<1>3. /\ t \in Locals /\ t \in Turns /\ srv[t] = "none" /\ StartFrame(t) /\ wire' \subseteq wire
    BY <1>1, <1>2, RequestForms DEF StartFrame, StartsKnow
<1>4. /\ \A r \in replies' : r \in replies \/ r.kind = "start"
      /\ ctl.link = "closed" => replies' = replies
  <2>1. \A r \in replies' : r \in replies \/ r.kind = "start"
    BY DEF CoreStart, Reply
  <2>2. ctl.link = "closed" => replies' = replies
    BY DEF CoreStart, Reply, Linked
  <2> QED BY <2>1, <2>2
<1>5. CASE /\ Foreground = {} /\ srv' = [srv EXCEPT ![t] = "active"]
           /\ runs' = [runs EXCEPT ![t] = @ + 1]
           /\ notes' = Emit(<<[kind |-> "started", turn |-> t]>>)
  <2>1. runs'[t] > 0 /\ \A p \in Locals : runs[p] > 0 => runs'[p] > 0
    BY <1>2, <1>3, <1>5 DEF TypeOK, Turns
  <2> QED BY <1>2, <1>3, <1>4, <1>5, <2>1, CoreStarted
<1>6. CASE UNCHANGED <<srv, runs, notes>>
  <2>1. KnownTurns' = KnownTurns /\ DoneTurns' = DoneTurns /\ Foreground' = Foreground
    BY <1>6 DEF KnownTurns, DoneTurns, Foreground
  <2>2. \A p : InInputs(p)' <=> InInputs(p)
    BY <1>2 DEF InInputs
  <2>3. \A r \in replies : r.kind = "steer" /\ r.result # "steered" => ~InInputs(r.turn)'
    BY <2>2 DEF LostInv, CoreInvariant, ReturnedOnce
  <2>4. UNCHANGED <<notes, snap, buffered, steerSent, orphaned, handedBack, gone, admitted>>
    BY <1>2, <1>6
  <2>5. \A r \in replies' :
              \/ r \in replies /\ (r.kind = "steer" /\ r.result # "steered" => ~InInputs(r.turn)')
              \/ r.kind = "start"
    BY <1>4, <2>3
  <2> QED BY <1>2, <1>3, <1>4, <1>6, <2>1, <2>2, <2>4, <2>5, CoreSilent
<1> QED BY <1>1, <1>5, <1>6 DEF CoreStart

LEMMA ForeignStartLost ==
    ASSUME LostInv, TurnInv', NEW f \in Foreign, ForeignStart(f)
    PROVE  LostInv'
<1>1. f \in Turns /\ f \notin Locals
    BY TurnsAssumption DEF Turns
<1>2. /\ Foreground = {} /\ srv[f] = "none" /\ srv' = [srv EXCEPT ![f] = "active"]
      /\ notes' = Emit(<<[kind |-> "started", turn |-> f]>>)
      /\ UNCHANGED <<ctl, inputs, snap, buffered, steerSent, orphaned, handedBack, gone, admitted>>
      /\ wire' \subseteq wire /\ runs' = runs /\ replies' = replies
    BY DEF ForeignStart, history
<1> QED BY <1>1, <1>2, CoreStarted

LEMMA CoreInterruptLost ==
    ASSUME LostInv, TurnInv', NEW m \in wire, CoreInterrupt(m)
    PROVE  LostInv'
<1>1. /\ srv' = [srv EXCEPT ![m.turn] = IF @ = "active" THEN "interrupting" ELSE @]
      /\ wire' \subseteq wire /\ runs' = runs /\ replies' = replies /\ inputs' = inputs
      /\ UNCHANGED <<notes, snap, buffered, steerSent, orphaned, handedBack, gone, admitted>>
      /\ ctl' = ctl /\ TypeOK
    BY DEF CoreInterrupt, history, LostInv, TurnInv, KnownInv, SentInv
<1>2. KnownTurns' = KnownTurns /\ DoneTurns' = DoneTurns /\ Foreground' = Foreground
    BY <1>1 DEF KnownTurns, DoneTurns, Foreground, TypeOK
<1>3. \A p : InInputs(p)' <=> InInputs(p)
    BY <1>1 DEF InInputs
<1>4. \A r \in replies' :
         r \in replies /\ (r.kind = "steer" /\ r.result # "steered" => ~InInputs(r.turn)')
    BY <1>1, <1>3 DEF LostInv, CoreInvariant, ReturnedOnce
<1> QED BY <1>1, <1>2, <1>3, <1>4, CoreSilent

LEMMA CoreDrainLost ==
    ASSUME LostInv, TurnInv', CoreDrain
    PROVE  LostInv'
<1>1. /\ UNCHANGED <<notes, snap, buffered, steerSent, orphaned, handedBack, gone, admitted>>
      /\ ctl' = ctl /\ TypeOK /\ wire' \subseteq wire /\ replies' = replies /\ srv' = srv
      /\ inputs' = <<>>
    BY DEF CoreDrain, channels, LostInv, TurnInv, KnownInv, SentInv
<1>2. KnownTurns' = KnownTurns /\ DoneTurns' = DoneTurns /\ Foreground' = Foreground
    BY <1>1 DEF KnownTurns, DoneTurns, Foreground
<1>3. \A p : ~InInputs(p)'
    BY <1>1 DEF InInputs
<1>4. \A p \in Locals : runs[p] > 0 => runs'[p] > 0
    BY <1>1 DEF CoreDrain, TypeOK, Turns
<1>5. \A r \in replies' :
         r \in replies /\ (r.kind = "steer" /\ r.result # "steered" => ~InInputs(r.turn)')
    BY <1>1, <1>3
<1> QED BY <1>1, <1>2, <1>3, <1>4, <1>5, CoreSilent

LEMMA CoreSteerLost ==
    ASSUME LostInv, TurnInv', NEW m \in wire, CoreSteer(m)
    PROVE  LostInv'
<1>1. PICK p : p = m.turn
    OBVIOUS
<1>2. /\ m \in Requests /\ m.kind = "steer" /\ wire' = wire \ {m}
      /\ UNCHANGED <<ctl, snap, buffered, steerSent, orphaned, handedBack, gone, admitted>>
      /\ TypeOK /\ SteersOnce /\ ReturnedOnce /\ wire' \subseteq wire
    BY DEF CoreSteer, LostInv, TurnInv, KnownInv, SentInv, TypeOK, bounds, CoreInvariant
<1>3. p \in Locals /\ SteerFrame(p) /\ ~InInputs(p) /\ p \notin Returned(notes)
    BY <1>1, <1>2, RequestForms DEF SteerFrame, SteersOnce, ReturnedOnce
<1>4. ~SteerFrame(p)'
    BY <1>1, <1>2 DEF SteerFrame, SteersOnce
<1> DEFINE yes == [kind |-> "steer", turn |-> p, result |-> "steered"]
           rej == [kind |-> "steer", turn |-> p, result |-> "reject"]
           fell(f) == [kind |-> "steer", turn |-> p, result |-> "fellback", by |-> f]
<1>5. \/ m.to \in Foreground /\ inputs' = Append(inputs, p) /\ replies' = Reply(yes) /\ UNCHANGED <<srv, runs, notes>>
      \/ \E f \in Foreign : /\ srv[f] = "none" /\ srv' = [srv EXCEPT ![f] = "active"]
                            /\ Foreground = {} /\ replies' = Reply(fell(f))
                            /\ notes' = Emit(<<[kind |-> "started", turn |-> f]>>)
                            /\ inputs' = inputs /\ runs' = [runs EXCEPT ![p] = @ + 1]
      \/ replies' = Reply(rej) /\ UNCHANGED <<srv, inputs, runs, notes>>
    BY <1>1 DEF CoreSteer
<1>6. \A r \in replies : r.kind = "steer" /\ r.result # "steered" => ~InInputs(r.turn) /\ r.turn # p
    BY <1>2, <1>3 DEF ReturnedOnce
<1>7. CASE m.to \in Foreground /\ inputs' = Append(inputs, p) /\ replies' = Reply(yes) /\ UNCHANGED <<srv, runs, notes>>
  <2>1. KnownTurns' = KnownTurns /\ DoneTurns' = DoneTurns /\ Foreground' = Foreground
    BY <1>7 DEF KnownTurns, DoneTurns, Foreground
  <2>2. \A x : InInputs(x)' => InInputs(x) \/ x = p
    <3>1. inputs \in Seq(Locals)
        BY <1>2 DEF TypeOK
    <3>2. /\ DOMAIN inputs' = 1..(Len(inputs) + 1) /\ DOMAIN inputs = 1..Len(inputs)
          /\ \A i \in 1..(Len(inputs) + 1) : inputs'[i] = IF i <= Len(inputs) THEN inputs[i] ELSE p
        BY <1>3, <1>7, <3>1
    <3>3. Len(inputs) \in Nat
        BY <3>1
    <3> QED BY <3>2, <3>3 DEF InInputs
  <2>3. \A x : InInputs(x)' => \/ InInputs(x)
                               \/ \E n \in wire : n.kind = "steer" /\ n.turn = x /\ n.to \in Foreground
    BY <1>1, <1>2, <1>7, <2>2
  <2>4. \A r \in replies' :
              \/ r \in replies /\ (r.kind = "steer" /\ r.result # "steered" => ~InInputs(r.turn)')
              \/ r.result = "steered"
    BY <1>6, <1>7, <2>2, ReplyAdds
  <2>5. UNCHANGED <<notes, snap, buffered, steerSent, orphaned, handedBack, gone, admitted>>
        /\ ctl' = ctl
    BY <1>2, <1>7
  <2>6. ctl.link = "closed" => replies' = replies
    BY <1>7, ReplyAdds
  <2> HIDE DEF yes
  <2> QED BY <1>2, <1>7, <2>1, <2>3, <2>4, <2>5, <2>6, CoreSilent
<1>8. ASSUME NEW f \in Foreign, srv[f] = "none", srv' = [srv EXCEPT ![f] = "active"],
             Foreground = {}, replies' = Reply(fell(f)),
             notes' = Emit(<<[kind |-> "started", turn |-> f]>>),
             inputs' = inputs, runs' = [runs EXCEPT ![p] = @ + 1]
      PROVE  LostInv'
  <2>1. f \in Turns /\ f \notin Locals
    BY TurnsAssumption DEF Turns
  <2>2. runs'[p] > 0 /\ \A x \in Locals : runs[x] > 0 => runs'[x] > 0
    BY <1>2, <1>3, <1>8 DEF TypeOK, Turns
  <2>3. \A r \in replies' :
              \/ r \in replies
              \/ /\ r.result = "fellback" /\ r.by = f /\ runs'[r.turn] > 0
                 /\ ~SteerFrame(r.turn)' /\ ~InInputs(r.turn) /\ r.turn \notin Returned(notes)
    <3>1. \A r \in replies' : r \in replies \/ (r.result = "fellback" /\ r.by = f /\ r.turn = p)
        BY <1>8, ReplyAdds
    <3> QED BY <1>3, <1>4, <2>2, <3>1 DEF SteerFrame, InInputs
  <2>4. ctl.link = "closed" => replies' = replies
    BY <1>8, ReplyAdds
  <2>5. UNCHANGED <<ctl, inputs, snap, buffered, steerSent, orphaned, handedBack, gone, admitted>>
    BY <1>2, <1>8
  <2> HIDE DEF fell
  <2> QED BY <1>2, <1>8, <2>1, <2>2, <2>3, <2>4, <2>5, CoreStarted
<1>9. CASE replies' = Reply(rej) /\ UNCHANGED <<srv, inputs, runs, notes>>
  <2>1. KnownTurns' = KnownTurns /\ DoneTurns' = DoneTurns /\ Foreground' = Foreground
    BY <1>9 DEF KnownTurns, DoneTurns, Foreground
  <2>2. \A x : InInputs(x)' <=> InInputs(x)
    BY <1>9 DEF InInputs
  <2>3. \A r \in replies' :
              \/ r \in replies /\ (r.kind = "steer" /\ r.result # "steered" => ~InInputs(r.turn)')
              \/ /\ r.kind = "steer" /\ r.result = "reject"
                 /\ ~SteerFrame(r.turn)' /\ ~InInputs(r.turn)' /\ r.turn \notin Returned(notes)
    <3>1. \A r \in replies' : r \in replies \/ (r.kind = "steer" /\ r.result = "reject" /\ r.turn = p)
        BY <1>9, ReplyAdds
    <3> QED BY <1>3, <1>4, <1>6, <2>2, <3>1 DEF SteerFrame, InInputs
  <2>4. ctl.link = "closed" => replies' = replies
    BY <1>9, ReplyAdds
  <2>5. UNCHANGED <<notes, snap, buffered, steerSent, orphaned, handedBack, gone, admitted>>
        /\ ctl' = ctl
    BY <1>2, <1>9
  <2> HIDE DEF rej
  <2> QED BY <1>2, <1>9, <2>1, <2>2, <2>3, <2>4, <2>5, CoreSilent
<1> HIDE DEF yes, rej, fell
<1> QED BY <1>5, <1>7, <1>8, <1>9

\* What CoreEnd says: at most one event that returns the inputs, then the terminal.
LEMMA EndsSay ==
    ASSUME TypeOK, NEW t \in Turns, NEW ns,
           ns = (IF inputs = <<>> THEN <<>>
                 ELSE <<[kind |-> "dropped", turn |-> t, inputs |-> inputs]>>)
                \o <<[kind |-> "terminal", turn |-> t]>>
    PROVE  /\ ns \in Seq(Notes)
           /\ \A i \in DOMAIN ns : /\ ns[i].turn = t /\ i \in Nat
                                   /\ ns[i].kind \in {"dropped", "terminal"}
                                   /\ ns[i].kind = "dropped" => i = 1
                                   /\ ns[i].kind = "terminal" => \A j \in DOMAIN ns : ~(j > i)
                                   /\ \A p : Returns(ns[i], p) => InInputs(p)
           /\ \A p : InInputs(p) => 1 \in DOMAIN ns /\ Returns(ns[1], p)
<1> DEFINE drop == [kind |-> "dropped", turn |-> t, inputs |-> inputs]
           end == [kind |-> "terminal", turn |-> t]
<1>1. drop \in Notes /\ end \in Notes
    BY DEF Notes, TypeOK
<1>2. /\ drop.turn = t /\ drop.kind = "dropped" /\ end.turn = t /\ end.kind = "terminal"
      /\ \A p : ~Returns(end, p) /\ (Returns(drop, p) <=> InInputs(p))
    BY DEF Returns, InInputs
<1>3. ns = (IF inputs = <<>> THEN <<>> ELSE <<drop>>) \o <<end>>
    OBVIOUS
<1> HIDE DEF drop, end
<1>4. CASE inputs = <<>>
  <2>1. ns = <<end>>
    BY <1>1, <1>3, <1>4
  <2>2. \A p : ~InInputs(p)
    BY <1>4 DEF InInputs
  <2> QED BY <1>1, <1>2, <2>1, <2>2
<1>5. CASE inputs # <<>>
  <2>1. ns = <<drop, end>>
    BY <1>1, <1>3, <1>5
  <2>2. ns \in Seq(Notes) /\ Len(ns) = 2 /\ ns[1] = drop /\ ns[2] = end
    BY <1>1, <2>1
  <2>3. DOMAIN ns = {1, 2}
    BY <2>2
  <2> QED BY <1>2, <2>2, <2>3
<1> QED BY <1>4, <1>5

LEMMA CoreEndLost ==
    ASSUME LostInv, TurnInv', NEW t \in Turns, CoreEnd(t)
    PROVE  LostInv'
<1>1. PICK ns : ns = (IF inputs = <<>> THEN <<>>
                      ELSE <<[kind |-> "dropped", turn |-> t, inputs |-> inputs]>>)
                     \o <<[kind |-> "terminal", turn |-> t]>>
    OBVIOUS
<1>2. PICK new : new = {inputs[i] : i \in {k \in DOMAIN inputs : Heard /\ inputs[k] \notin orphaned}}
    OBVIOUS
<1>3. /\ TypeOK /\ CoreInvariant /\ SteersOnce /\ Orderly(ctl) /\ NoPromptLost
      /\ ctl.link # "closed" => Watched
      /\ ctl.link = "closed" => Shut
    BY DEF LostInv, TurnInv, KnownInv, SentInv
<1>4. /\ t \in Foreground /\ srv' = [srv EXCEPT ![t] = "done"] /\ inputs' = <<>>
      /\ handedBack' = handedBack \cup new /\ notes' = Emit(ns)
      /\ UNCHANGED <<ctl, wire, replies, snap, buffered, runs, admitted, gone, steerSent, orphaned>>
    BY <1>1, <1>2 DEF CoreEnd
<1>5. /\ ns \in Seq(Notes)
      /\ \A i \in DOMAIN ns : /\ ns[i].turn = t /\ i \in Nat
                              /\ ns[i].kind \in {"dropped", "terminal"}
                              /\ ns[i].kind = "dropped" => i = 1
                              /\ ns[i].kind = "terminal" => \A j \in DOMAIN ns : ~(j > i)
                              /\ \A p : Returns(ns[i], p) => InInputs(p)
      /\ \A p : InInputs(p) => 1 \in DOMAIN ns /\ Returns(ns[1], p)
    BY <1>1, <1>3, EndsSay
<1>6. /\ DoneTurns' = DoneTurns \cup {t} /\ t \notin DoneTurns /\ KnownTurns' = KnownTurns
      /\ Foreground' \subseteq Foreground /\ srv[t] # "none"
    BY <1>3, <1>4 DEF DoneTurns, KnownTurns, Foreground, TypeOK
<1>7. /\ \A p \in new : InInputs(p) /\ Heard /\ p \notin orphaned
      /\ \A p : InInputs(p) => p \in Locals /\ p \notin handedBack /\ p \notin Returned(notes)
                               /\ p \in steerSent
      /\ \A p : SteerFrame(p) => p \in Locals /\ ~InInputs(p)
  <2>1. \A i \in DOMAIN inputs : inputs[i] \in Locals
    BY <1>3 DEF TypeOK
  <2>2. \A p : InInputs(p) => p \in Locals /\ p \in steerSent
    BY <1>3, <2>1 DEF InInputs, SteersOnce
  <2>3. \A p : SteerFrame(p) => p \in Locals
    BY <1>3, RequestForms DEF SteerFrame, TypeOK
  <2> QED BY <1>2, <1>3, <2>2, <2>3 DEF InInputs, CoreInvariant, ReturnedOnce, SteersOnce, SteerFrame
<1>8. /\ \A i \in DOMAIN notes : i \in DOMAIN notes' /\ notes'[i] = notes[i] /\ i \in Nat
      /\ \A i \in DOMAIN notes' :
            \/ i \in DOMAIN notes
            \/ /\ Heard /\ i \in Nat /\ \A j \in DOMAIN notes : j < i
               /\ i - Len(notes) \in DOMAIN ns /\ notes'[i] = ns[i - Len(notes)]
    BY <1>3, <1>4, <1>5, EmitAt
<1>9. \A i \in DOMAIN notes' : i \notin DOMAIN notes =>
         /\ notes'[i].turn = t /\ \A p : Returns(notes'[i], p) => InInputs(p)
  <2> SUFFICES ASSUME NEW i \in DOMAIN notes', i \notin DOMAIN notes
               PROVE  notes'[i].turn = t /\ \A p : Returns(notes'[i], p) => InInputs(p)
    OBVIOUS
  <2>1. PICK k \in DOMAIN ns : notes'[i] = ns[k]
    BY <1>8
  <2>2. ns[k].turn = t /\ \A p : Returns(ns[k], p) => InInputs(p)
    BY <1>5
  <2> QED BY <2>1, <2>2
<1>10. \A i, j \in DOMAIN notes' :
          i \notin DOMAIN notes /\ j \notin DOMAIN notes
          /\ notes'[i].kind = "dropped" /\ notes'[j].kind = "dropped" => i = j
  <2> SUFFICES ASSUME NEW i \in DOMAIN notes', NEW j \in DOMAIN notes', i \notin DOMAIN notes,
                      j \notin DOMAIN notes, notes'[i].kind = "dropped", notes'[j].kind = "dropped"
               PROVE  i = j
    OBVIOUS
  <2>1. i - Len(notes) = 1 /\ j - Len(notes) = 1 /\ i \in Nat /\ j \in Nat
    BY <1>5, <1>8
  <2>2. Len(notes) \in Nat
    BY <1>3 DEF TypeOK
  <2> QED BY <2>1, <2>2
<1>11. Heard => \A p : InInputs(p) => \E i \in DOMAIN notes' : notes'[i].turn = t /\ Returns(notes'[i], p)
  <2> SUFFICES ASSUME Heard, NEW p, InInputs(p)
               PROVE  \E i \in DOMAIN notes' : notes'[i].turn = t /\ Returns(notes'[i], p)
    OBVIOUS
  <2>1. 1 \in DOMAIN ns /\ Returns(ns[1], p) /\ ns[1].turn = t
    BY <1>5
  <2>2. Len(notes) + 1 \in DOMAIN notes' /\ notes'[Len(notes) + 1] = ns[1]
    <3>1. notes' = notes \o ns /\ notes \in Seq(Notes) /\ Len(notes) \in Nat /\ Len(ns) \in Nat /\ DOMAIN ns = 1..Len(ns)
        BY <1>3, <1>4, <1>5 DEF Emit, TypeOK
    <3> QED BY <1>5, <2>1, <3>1
  <2> QED BY <2>1, <2>2
<1>12. \A p : p \in Returned(notes) => p \in Returned(notes')
    BY <1>8, ReturnedIs
<1>13. \A p : p \in Returned(notes') => p \in Returned(notes) \/ InInputs(p)
    BY <1>8, <1>9, ReturnedIs
<1>14. CoreInvariant'
  <2>1. StreamEnds' /\ SnapTells' /\ Drained'
    <3>1. \A i \in DOMAIN ns :
              /\ ns[i].turn \in Turns \ DoneTurns
              /\ ns[i].kind # "started" => srv'[ns[i].turn] = "done"
              /\ ns[i].kind = "terminal" => \A j \in DOMAIN ns : ~(j > i)
        BY <1>3, <1>4, <1>5, <1>6 DEF TypeOK
    <3> QED BY <1>3, <1>4, <1>5, <1>6, <3>1, EmitEnds DEF CoreInvariant
  <2>2. CoreRuns'
    BY <1>3, <1>4, <1>6 DEF CoreInvariant, CoreRuns, KnownTurns, Turns
  <2>3. ReturnedOnce'
    <3>1. handedBack' \subseteq steerSent'
        BY <1>3, <1>4, <1>7 DEF CoreInvariant, ReturnedOnce
    <3>2. /\ \A p : SteerFrame(p)' <=> SteerFrame(p)
          /\ \A p : ~InInputs(p)'
        BY <1>4 DEF SteerFrame, InInputs
    <3>3. \A p \in Locals : SteerFrame(p)' \/ InInputs(p)' => p \notin handedBack' /\ p \notin Returned(notes')
        BY <1>3, <1>4, <1>7, <1>13, <3>2 DEF CoreInvariant, ReturnedOnce
    <3>4. ASSUME NEW i \in DOMAIN notes', NEW j \in DOMAIN notes', NEW p \in Locals,
                 Returns(notes'[i], p), Returns(notes'[j], p)
          PROVE  i = j
      <4>1. CASE i \in DOMAIN notes /\ j \in DOMAIN notes
        BY <1>3, <1>8, <3>4, <4>1 DEF CoreInvariant, ReturnedOnce
      <4>2. CASE i \notin DOMAIN notes /\ j \notin DOMAIN notes
        BY <1>10, <3>4, <4>2 DEF Returns
      <4>3. CASE (i \in DOMAIN notes) # (j \in DOMAIN notes)
        <5>1. InInputs(p) /\ p \in Returned(notes)
            BY <1>8, <1>9, <3>4, <4>3, ReturnedIs
        <5> QED BY <1>7, <5>1
      <4> QED BY <4>1, <4>2, <4>3
    <3>5. \A r \in replies' : r.kind = "steer" /\ r.result # "steered" =>
             /\ ~SteerFrame(r.turn)' /\ ~InInputs(r.turn)' /\ r.turn \notin Returned(notes')
             /\ r.result = "fellback" => runs'[r.turn] > 0 /\ srv'[r.by] # "none"
      <4> SUFFICES ASSUME NEW r \in replies, r.kind = "steer", r.result # "steered"
                   PROVE  /\ ~SteerFrame(r.turn)' /\ ~InInputs(r.turn)' /\ r.turn \notin Returned(notes')
                          /\ r.result = "fellback" => runs'[r.turn] > 0 /\ srv'[r.by] # "none"
        BY <1>4
      <4>1. /\ ~SteerFrame(r.turn) /\ ~InInputs(r.turn) /\ r.turn \notin Returned(notes)
            /\ r.result = "fellback" => runs[r.turn] > 0 /\ srv[r.by] # "none"
        BY <1>3 DEF CoreInvariant, ReturnedOnce
      <4>2. srv[r.by] # "none" => srv'[r.by] # "none"
        BY <1>3, <1>4 DEF TypeOK
      <4> QED BY <1>4, <1>13, <3>2, <4>1, <4>2
    <3>6. \A i, j \in DOMAIN notes' : \A p \in Locals :
             Returns(notes'[i], p) /\ Returns(notes'[j], p) => i = j
        BY <3>4
    <3> QED BY <3>1, <3>3, <3>5, <3>6 DEF ReturnedOnce, SteerFrame, InInputs
  <2> QED BY <2>1, <2>2, <2>3 DEF CoreInvariant
<1>15. \A i \in DOMAIN notes, p \in handedBack' : Returns(notes[i], p) => p \in handedBack
  <2>1. \A i \in DOMAIN notes : \A p : Returns(notes[i], p) => p \in Returned(notes)
    BY ReturnedIs
  <2> QED BY <1>4, <1>7, <2>1
<1>16. Extends(View', View)
  <2>1. DeadTurns \subseteq DeadTurns'
    <3>1. \A x \in DeadTurns : srv'[x] = "none"
        BY <1>3, <1>4, <1>6 DEF DeadTurns, Turns, TypeOK
    <3>2. \A p \in Locals : StartFrame(p)' => StartFrame(p) \/ p \in Unsent(ctl)
        BY <1>4 DEF StartFrame
    <3>3. Unsent(ctl') \subseteq Unsent(ctl)
        BY <1>4
    <3> QED BY <3>1, <3>2, <3>3, DeadStay
  <2>2. \A i \in DOMAIN ns : ns[i].turn \notin DoneTurns
    BY <1>5, <1>6
  <2> QED BY <1>3, <1>4, <1>5, <1>6, <1>15, <2>1, <2>2, EmitExtends
<1>17. NoPromptLost'
  <2>1. \A p : p \in handedBack' \ Returned(notes') => p \in handedBack \ Returned(notes)
    <3>1. \A p \in new : p \in Returned(notes')
        BY <1>7, <1>11, ReturnedIs
    <3> QED BY <1>4, <1>12, <3>1
  <2> QED BY <1>3, <1>4, <2>1 DEF NoPromptLost
<1>18. CASE ctl.link = "closed"
  <2>1. Shut'
    BY <1>3, <1>4, <1>18 DEF Shut, Emit, Heard
  <2> QED BY <1>4, <1>14, <1>17, <1>18, <2>1 DEF LostInv
<1>19. CASE ctl.link # "closed"
  <2>1. Tended(ctl', View')
    BY <1>3, <1>4, <1>16, <1>19, ExtendsTended DEF Watched
  <2>2. \A p, x : KeptFor(p, x)' = KeptFor(p, x)
    BY <1>4 DEF KeptFor
  <2>3. \A p \in new : KeptFor(p, t)
    BY <1>3, <1>4, <1>7, <1>19 DEF Watched, Cared, CoreInvariant, CoreRuns, InInputs
  <2>4. Cared'
    <3>1. ASSUME NEW m \in wire', m.kind = "steer", m.turn \notin orphaned, srv'[m.to] # "done"
          PROVE  KeptFor(m.turn, m.to)
      <4>1. m \in wire /\ m.to \in Turns
        BY <1>3, <1>4, <3>1, RequestForms DEF TypeOK
      <4>2. srv[m.to] # "done"
        BY <1>6, <3>1, <4>1 DEF DoneTurns
      <4> QED BY <1>3, <1>19, <3>1, <4>1, <4>2 DEF Watched, Cared
    <3>2. DOMAIN inputs' = {}
        BY <1>4
    <3>3. ASSUME NEW i \in DOMAIN notes', NEW p \in handedBack', Returns(notes'[i], p)
          PROVE  KeptFor(p, notes'[i].turn)
      <4>1. CASE i \in DOMAIN notes
        <5>1. notes'[i] = notes[i] /\ p \in handedBack
            BY <1>8, <1>15, <3>3, <4>1
        <5> QED BY <1>3, <1>19, <3>3, <4>1, <5>1 DEF Watched, Cared
      <4>2. CASE i \notin DOMAIN notes
        <5>1. notes'[i].turn = t /\ InInputs(p)
            BY <1>9, <3>3, <4>2
        <5>2. p \in new
            BY <1>4, <1>7, <5>1
        <5> QED BY <2>3, <5>1, <5>2
      <4> QED BY <4>1, <4>2
    <3> QED BY <1>4, <2>2, <3>1, <3>2, <3>3 DEF Cared, KeptFor
  <2>5. KeptIsReturned'
    <3> SUFFICES ASSUME NEW e \in ctl.retained, e.turn \in handedBack'
                 PROVE  \E i \in DOMAIN notes' : notes'[i].turn = e.owner /\ Returns(notes'[i], e.turn)
        BY <1>4 DEF KeptIsReturned
    <3>1. CASE e.turn \in handedBack
        BY <1>3, <1>8, <1>19, <3>1 DEF Watched, KeptIsReturned
    <3>2. CASE e.turn \in new
      <4>1. PICK g \in ctl.retained : g.turn = e.turn /\ g.owner = t
        BY <2>3, <3>2 DEF KeptFor
      <4>2. e.owner = t
        BY <1>3, <4>1 DEF Orderly, Fifo, OneSteer
      <4> QED BY <1>7, <1>11, <3>2, <4>1, <4>2
    <3> QED BY <1>4, <3>1, <3>2
  <2>6. Aimed'
    BY <1>3, <1>4, <1>19 DEF Watched, Aimed
  <2>7. /\ DoneTurns \subseteq DoneTurns' /\ Precedes \subseteq Precedes'
        /\ OldTurns \subseteq OldTurns' /\ QuietTurns \subseteq QuietTurns'
    BY <1>16 DEF Extends, View
  <2>8. FellBackLast'
    BY <1>3, <1>4, <1>19, <2>7 DEF Watched, FellBackLast
  <2>9. SnapSteers'
    BY <1>3, <1>4, <1>19, <2>7 DEF Watched, SnapSteers
  <2>10. Watched'
    BY <2>1, <2>4, <2>5, <2>6, <2>8, <2>9 DEF Watched
  <2> QED BY <1>4, <1>14, <1>17, <1>19, <2>10 DEF LostInv
<1> QED BY <1>18, <1>19

LEMMA CoreLost ==
    ASSUME LostInv, Core
    PROVE  LostInv'
<1>1. TurnInv'
    BY CoreTurn DEF LostInv
<1> QED BY <1>1, CoreStartLost, ForeignStartLost, CoreInterruptLost, CoreDrainLost, CoreSteerLost,
           CoreEndLost DEF Core
-----------------------------------------------------------------------------
(* What the client may do *)

\* Nothing but the steering preference changes in a retired record.
LEMMA ClosedStep ==
    ASSUME LostInv, ctl.link = "closed", User \/ Client \/ Transport
    PROVE  SetSteeringEnabled
<1>1. Shut /\ TypeOK
    BY DEF LostInv, TurnInv, KnownInv, SentInv
<1>2. Active(ctl) = NoTurn /\ ctl.q.pending = <<>> /\ Ids(ctl.q.pending) = {}
    BY <1>1 DEF Shut, EmptyQueue, NoEntry, Active, Ids
<1>3. CASE User
    BY <1>1, <1>2, <1>3 DEF User, Admit, Cancel, Submit, Stop, SendPendingNow, RetryRecovery, Continue,
       RetrySteer, Retire, Shut, MayEnqueue, CanSteerText, MayInterrupt, Linked,
       MayContinueWithoutTurn
<1>4. CASE Client
  <2>1. ~Linked(ctl) /\ replies = {} /\ ctl.stage = "none" /\ ctl.steerReq = NoTurn
        /\ ctl.interruptReq = NoTurn /\ ctl.lookup = NoTurn /\ ctl.steerReq \notin steerSent
        BY <1>1, TurnsAssumption DEF Shut, Linked, TypeOK
  <2> QED BY <1>4, <2>1 DEF Client, Dispatch, PreflightEndsNotReady, SeatRefused, StartTimeout,
               StartCurrent, OnWire, SteerDispatch, SteerTimeout, InterruptReply, OwnerInteraction,
               LookupReply
<1>5. CASE Transport
    BY <1>5 DEF Transport, LoseTransport, Reopen, ReopenFails, Gap, GapFails, LoseRequest,
       AnswerHydrate, Hydrated, Ready, Observe
<1> QED BY <1>3, <1>4, <1>5

\* So it stays retired.
LEMMA ClosedLost ==
    ASSUME LostInv, TurnInv', ctl.link = "closed", User \/ Client \/ Transport
    PROVE  LostInv'
<1>1. Shut /\ TypeOK /\ CoreInvariant /\ NoPromptLost
    BY DEF LostInv, TurnInv, KnownInv, SentInv
<1>2. SetSteeringEnabled
    BY ClosedStep
<1>3. /\ ctl' = [ctl EXCEPT !.steering = ~@]
      /\ UNCHANGED <<srv, inputs, wire, replies, notes, snap, buffered, sends, runs, admitted, gone,
                     steerSent, orphaned, handedBack>>
    BY <1>2 DEF SetSteeringEnabled, channels, history
<1>4. /\ ctl'.q = ctl.q /\ ctl'.retained = ctl.retained /\ ctl'.steerReq = ctl.steerReq
      /\ ctl'.interruptReq = ctl.interruptReq /\ ctl'.lookup = ctl.lookup
      /\ ctl'.recovery = ctl.recovery /\ ctl'.startReq = ctl.startReq /\ ctl'.stage = ctl.stage
      /\ ctl'.owner = ctl.owner /\ ctl'.steerUnknown = ctl.steerUnknown
      /\ ctl'.steerAdmitted = ctl.steerAdmitted /\ ctl'.link = ctl.link
      /\ ctl'.composer = ctl.composer
    BY <1>1, <1>3 DEF TypeOK, Controllers
<1>5. Shut'
    BY <1>1, <1>3, <1>4 DEF Shut
<1>6. CoreInvariant'
  <2>1. Consumes
    BY <1>3 DEF Consumes
  <2> QED BY <1>1, <1>3, <1>4, <2>1, ConsumesCore DEF CoreInvariant, SnapTells, Drained
<1>7. NoPromptLost'
    BY <1>1, <1>3, <1>4 DEF NoPromptLost, RetainedTurns
<1> QED BY <1>4, <1>5, <1>6, <1>7 DEF LostInv

\* The turns whose steers a handler may drop: nothing is owed to them, or they have none.
Released == UnowedTurns' \cup (Turns \ SteerOwners(ctl))

\* A handler that passes over the turns T and makes prompts of the steers M.
MayPass(T) ==
    \A p \in T : p \in Locals \ Reviews => runs[p] > 0 \/ p \in gone' \/ p \in ctl'.composer
MayMake(M) ==
    \A p \in M : ~SteerFrame(p) /\ ~InInputs(p) /\ (p \in handedBack' => p \notin Returned(notes'))

\* The subscription ended: what was sent over it is nobody's any more.
Cut == steerSent \subseteq orphaned' /\ notes' = <<>>

LEMMA ClientMoved ==
    ASSUME LostInv, TurnInv', CoreInvariant', ctl.link # "closed", ctl'.link # "closed",
           Consumes, runs' = runs, Extends(View', View), Tended(ctl', View'),
           Holds(ctl, ctl'), ctl'.steerReq \in {ctl.steerReq, NoTurn},
           ctl'.steerOwner \in {ctl.steerOwner, NoTurn}, ctl'.steerAdmitted = ctl.steerAdmitted,
           gone \subseteq gone', orphaned \subseteq orphaned', handedBack' \subseteq handedBack,
           \A i \in DOMAIN admitted' :
              admitted'[i] \in QueuedIds(ctl'.q) \/ \E j \in DOMAIN admitted : admitted[j] = admitted'[i],
           \A p \in handedBack' : p \in Returned(notes) => p \in Returned(notes') \cup QueuedIds(ctl'.q),
           NEW T, MayPass(T), NEW O, NEW M, Spares(ctl, ctl', T, O, M),
           (O \subseteq Released /\ MayMake(M)) \/ Cut,
           ctl'.steerReq \in M => ctl'.steerReq \in steerSent \cup {NoTurn}
    PROVE  LostInv'
<1>1. /\ TypeOK /\ CoreInvariant /\ NoPromptLost /\ Watched /\ SteersOnce /\ OneSteer(ctl)
      /\ Orderly(ctl') /\ WellFormed(ctl') /\ SteersKnown
    BY DEF LostInv, TurnInv, KnownInv, SentInv, Orderly, Fifo
<1>2. srv' = srv /\ inputs' = inputs /\ steerSent' = steerSent /\ replies' \subseteq replies
      /\ snap' \in {snap, NoSnap}
    BY DEF Consumes
<1>3. /\ \A m \in wire' : m \in wire \/ m.kind = "interrupt"
      /\ Returned(notes') \subseteq Returned(notes)
    BY <1>1, ConsumesFresh DEF Consumes, Interrupts
<1>4. \A i \in DOMAIN notes' : \E j \in DOMAIN notes : notes'[i] = notes[j]
    BY <1>1, ConsumesNotes
<1>5. SteerOwners(ctl') \subseteq SteerOwners(ctl)
    BY DEF SteerOwners, Holds
<1>6. /\ DoneTurns \subseteq DoneTurns' /\ Precedes \subseteq Precedes'
      /\ OldTurns \subseteq OldTurns' /\ QuietTurns \subseteq QuietTurns'
    BY DEF Extends, View
\* A steer that was sent is kept, let go, or made a prompt.
<1>7. ASSUME NEW p, NEW x, KeptFor(p, x)
      PROVE  \/ KeptFor(p, x)' \/ Cut
             \/ x \in UnowedTurns'
             \/ ~SteerFrame(p) /\ ~InInputs(p) /\ (p \in handedBack' => p \notin Returned(notes'))
  <2>1. PICK e \in ctl.retained : e.turn = p /\ e.owner = x /\ e.sent
    BY <1>7 DEF KeptFor
  <2>2. CASE \E g \in ctl'.retained : g.turn = e.turn /\ g.owner = e.owner /\ g.sent = e.sent
    BY <2>1, <2>2 DEF KeptFor
  <2>3. CASE e.owner \in O /\ ~Cut
    BY <2>1, <2>3 DEF Released, SteerOwners
  <2>4. CASE e.turn \in M /\ ~Cut
    BY <2>1, <2>4 DEF MayMake
  <2> QED BY <2>1, <2>2, <2>3, <2>4 DEF Spares
<1>8. Cared'
  <2>1. ASSUME NEW m \in wire', m.kind = "steer", m.turn \notin orphaned', srv'[m.to] # "done"
        PROVE  KeptFor(m.turn, m.to)'
    <3>1. m \in wire /\ m.turn \in steerSent /\ SteerFrame(m.turn)
        BY <1>1, <1>3, <2>1 DEF SteersOnce, SteerFrame
    <3>2. KeptFor(m.turn, m.to)
        BY <1>1, <1>2, <2>1, <3>1 DEF Watched, Cared
    <3>3. ~Cut /\ m.to \notin UnowedTurns'
        BY <2>1, <3>1 DEF Cut, UnowedTurns, DoneTurns
    <3>4. KeptFor(m.turn, m.to)'
        BY <1>7, <3>1, <3>2, <3>3
    <3> QED BY <3>4 DEF KeptFor
  <2>2. ASSUME NEW i \in DOMAIN inputs', inputs'[i] \notin orphaned'
        PROVE  \E x \in Foreground' : \E e \in ctl'.retained : e.turn = inputs'[i] /\ e.owner = x /\ e.sent
    <3>1. i \in DOMAIN inputs /\ inputs[i] = inputs'[i] /\ inputs[i] \in steerSent /\ InInputs(inputs[i])
        BY <1>1, <1>2 DEF SteersOnce, InInputs
    <3>2. PICK x \in Foreground : KeptFor(inputs[i], x)
        BY <1>1, <2>2, <3>1 DEF Watched, Cared
    <3>3. ~Cut /\ x \notin UnowedTurns' /\ x \in Foreground'
        BY <1>2, <2>2, <3>1 DEF Cut, UnowedTurns, DoneTurns, Foreground
    <3>4. PICK p : p = inputs[i]
        OBVIOUS
    <3>5. KeptFor(p, x)'
        BY <1>7, <3>1, <3>2, <3>3, <3>4
    <3> QED BY <3>1, <3>3, <3>4, <3>5 DEF KeptFor
  <2>3. ASSUME NEW i \in DOMAIN notes', NEW p \in handedBack', Returns(notes'[i], p)
        PROVE  \E e \in ctl'.retained : e.turn = p /\ e.owner = notes'[i].turn /\ e.sent
    <3>1. PICK j \in DOMAIN notes : notes'[i] = notes[j]
        BY <1>4
    <3>2. PICK x : x = notes'[i].turn
        OBVIOUS
    <3>3. KeptFor(p, x)
        BY <1>1, <2>3, <3>1, <3>2 DEF Watched, Cared
    <3>4. ~Cut /\ x \notin UnowedTurns' /\ p \in Returned(notes')
        BY <2>3, <3>2, ReturnedIs DEF Cut, UnowedTurns, Owed
    <3>5. KeptFor(p, x)'
        BY <1>7, <2>3, <3>3, <3>4
    <3> QED BY <3>2, <3>5 DEF KeptFor
  <2> QED BY <2>1, <2>2, <2>3 DEF Cared, KeptFor
<1>9. KeptIsReturned'
  <2> SUFFICES ASSUME NEW e \in ctl'.retained, e.turn \in handedBack'
               PROVE  \E i \in DOMAIN notes' : notes'[i].turn = e.owner /\ Returns(notes'[i], e.turn)
    BY DEF KeptIsReturned
  <2>1. PICK g \in ctl.retained : g.turn = e.turn /\ g.owner = e.owner
    BY DEF Holds
  <2>2. PICK j \in DOMAIN notes : notes[j].turn = e.owner /\ Returns(notes[j], e.turn)
    BY <1>1, <2>1 DEF Watched, KeptIsReturned
  <2>3. e.turn \in Returned(notes) /\ e.turn \in RetainedTurns(ctl')
    BY <2>2, ReturnedIs DEF RetainedTurns
  <2>4. e.turn \in Returned(notes')
    BY <1>1, <2>3 DEF Orderly, Fifo
  <2>5. PICK i \in DOMAIN notes' : Returns(notes'[i], e.turn)
    BY <2>4, ReturnedIs
  <2>6. PICK k \in DOMAIN notes : notes'[i] = notes[k]
    BY <1>4
  <2>7. k = j
    <3>1. e.turn \in Locals
        BY <1>1 DEF TypeOK
    <3> QED BY <1>1, <2>2, <2>5, <2>6, <3>1 DEF CoreInvariant, ReturnedOnce
  <2> QED BY <2>2, <2>5, <2>6, <2>7
<1>10. Aimed'
  <2>1. \A e \in ctl'.retained : e.sent => e.turn \in steerSent'
    BY <1>1, <1>2 DEF Watched, Aimed, Holds
  <2>2. ASSUME ctl'.steerReq # NoTurn, ctl'.steerReq \notin steerSent'
        PROVE  \E e \in ctl'.retained : e.turn = ctl'.steerReq /\ e.owner = ctl'.steerOwner
    <3>1. ctl'.steerReq = ctl.steerReq /\ ctl'.steerOwner = ctl.steerOwner /\ ctl'.steerReq \notin M
        BY <1>1, <1>2, <2>2 DEF WellFormed
    <3>2. PICK e \in ctl.retained : e.turn = ctl.steerReq /\ e.owner = ctl.steerOwner
        BY <1>1, <1>2, <2>2, <3>1 DEF Watched, Aimed
    <3>3. ~e.sent
        BY <1>1, <1>2, <2>2, <3>1, <3>2 DEF Watched, Aimed
    <3>4. PICK g \in ctl'.retained : g.turn = e.turn /\ g.owner = e.owner
        BY <3>1, <3>2, <3>3 DEF Spares
    <3> QED BY <3>1, <3>2, <3>4
  <2> QED BY <2>1, <2>2 DEF Aimed
<1>11. FellBackLast'
  <2> SUFFICES ASSUME NEW r \in replies', r.kind = "steer", r.result = "fellback", r.turn = ctl'.steerReq,
                      NEW x \in SteerOwners(ctl')
               PROVE  x # r.by /\ x \in DoneTurns' /\ <<x, r.by>> \in Precedes'
    BY DEF FellBackLast
  <2>1. r \in replies /\ r.turn # NoTurn
    BY <1>1, <1>2, ReplyForms, TurnsAssumption DEF TypeOK
  <2>2. r.turn = ctl.steerReq /\ x \in SteerOwners(ctl)
    BY <1>5, <2>1
  <2> QED BY <1>1, <1>6, <2>1, <2>2 DEF Watched, FellBackLast
<1>12. SnapSteers'
    BY <1>1, <1>2, <1>5, <1>6 DEF Watched, SnapSteers
<1>13. NoPromptLost'
  <2> SUFFICES ASSUME NEW p \in Locals \ Reviews,
                      p \in {admitted'[i] : i \in DOMAIN admitted'} \cup ctl'.steerAdmitted,
                      ~(runs'[p] > 0),
                      p \notin QueuedIds(ctl'.q) \cup RetainedTurns(ctl') \cup ctl'.composer \cup gone'
               PROVE  p \in steerSent' /\ p \notin handedBack' \ Returned(notes')
    BY DEF NoPromptLost
  <2>1. p \in {admitted[i] : i \in DOMAIN admitted} \cup ctl.steerAdmitted
    OBVIOUS
  <2>2. p \notin T /\ p \notin gone /\ ~(runs[p] > 0)
    BY DEF MayPass
  <2>3. p \notin QueuedIds(ctl.q) /\ p \notin ctl.composer
    BY <2>2 DEF Spares
  <2>4. p \in steerSent /\ p \notin handedBack \ Returned(notes)
    <3>1. CASE p \in RetainedTurns(ctl)
      <4>1. PICK e \in ctl.retained : e.turn = p
        BY <3>1 DEF RetainedTurns
      <4>2. ~\E g \in ctl'.retained : g.turn = p
        BY DEF RetainedTurns
      <4>3. e.sent
        BY <2>2, <4>1, <4>2 DEF Spares
      <4>4. p \in steerSent
        BY <1>1, <4>1, <4>3 DEF Watched, Aimed
      <4>5. p \in handedBack => p \in Returned(notes)
        BY <1>1, <4>1, ReturnedIs DEF Watched, KeptIsReturned
      <4> QED BY <4>4, <4>5
    <3>2. CASE p \notin RetainedTurns(ctl)
        BY <1>1, <2>1, <2>2, <2>3, <3>2 DEF NoPromptLost
    <3> QED BY <3>1, <3>2
  <2> QED BY <1>2, <2>4
<1>14. Watched'
    BY <1>8, <1>9, <1>10, <1>11, <1>12 DEF Watched
<1> QED BY <1>13, <1>14 DEF LostInv

\* A handler runs over an unchanged stream.
Plain ==
    /\ Consumes /\ runs' = runs
    /\ UNCHANGED <<notes, snap, buffered, orphaned, handedBack>>
    /\ gone \subseteq gone'
    /\ Keeps(ctl, ctl') /\ Holds(ctl, ctl') /\ ctl'.steerReq \in {ctl.steerReq, NoTurn}

\* In a ready record nothing of the stream precedes the hydrate any more.
LEMMA ReadyHasNoBuffer ==
    ASSUME TypeOK, Drained, ctl.link = "ready"
    PROVE  OldTurns \subseteq QuietTurns
<1>1. buffered = 0 /\ ~Unanswered
    BY DEF Drained, Unanswered
<1>2. \A i \in DOMAIN notes : ~(i <= 0)
    BY DEF TypeOK
<1> QED BY <1>1, <1>2 DEF OldTurns, QuietTurns

LEMMA ReadyHasNoBufferNext ==
    ASSUME TypeOK', Drained', ctl'.link = "ready"
    PROVE  OldTurns' \subseteq QuietTurns'
<1>1. buffered' = 0 /\ ~Unanswered'
    BY DEF Drained, Unanswered
<1>2. \A i \in DOMAIN notes' : ~(i <= 0)
    BY DEF TypeOK
<1> QED BY <1>1, <1>2 DEF OldTurns, QuietTurns

LEMMA ConsumesDead ==
    ASSUME TypeOK, Consumes, runs' = runs, Unsent(ctl') \subseteq Unsent(ctl)
    PROVE  DeadTurns \subseteq DeadTurns'
<1>1. \A p : StartFrame(p)' => StartFrame(p)
    BY ConsumesFresh
<1>2. \A x \in DeadTurns : srv'[x] = "none"
    BY DEF DeadTurns, Consumes
<1>3. \A p \in Locals : StartFrame(p)' => StartFrame(p) \/ p \in Unsent(ctl)
    BY <1>1
<1> QED BY <1>2, <1>3, DeadStay

LEMMA PlainView ==
    ASSUME LostInv, TurnInv', ctl.link # "closed", Plain
    PROVE  /\ CoreInvariant' /\ Extends(View', View) /\ ViewOf(ctl, View') /\ Tended(ctl, View')
           /\ WellFormed(ctl) /\ Orderly(ctl) /\ UnowedTurns' = UnowedTurns
           /\ View'.unowed = UnowedTurns' /\ View'.quiet = QuietTurns' /\ View'.known = KnownTurns
           /\ View'.done = DoneTurns
<1>1. /\ TypeOK /\ TypeOK' /\ CoreInvariant /\ Watched /\ KnownInv /\ WellFormed(ctl) /\ Orderly(ctl)
    BY DEF LostInv, TurnInv, KnownInv, SentInv
<1>2. /\ Consumes /\ runs' = runs /\ UNCHANGED <<notes, snap, buffered, handedBack>>
      /\ ctl'.link = ctl.link /\ Unsent(ctl') \subseteq Unsent(ctl) /\ srv' = srv
    BY DEF Plain, Keeps, Consumes
<1>3. CoreInvariant'
    BY <1>1, <1>2, ConsumesCore DEF CoreInvariant, SnapTells, Drained
<1>4. KnownTurns' = KnownTurns /\ DoneTurns' = DoneTurns
    BY <1>2 DEF KnownTurns, DoneTurns
<1>5. Extends(View', View)
  <2>1. DeadTurns \subseteq DeadTurns'
    BY <1>1, <1>2, ConsumesDead
  <2>2. Unanswered => Unanswered'
    BY <1>2 DEF Unanswered
  <2> QED BY <1>2, <1>4, <2>1, <2>2, SameStreamExtends
<1>6. ViewOf(ctl, View')
  <2>1. ctl.link = "ready" => OldTurns' \subseteq QuietTurns'
    BY <1>1, <1>2, <1>3, ReadyHasNoBufferNext DEF CoreInvariant
  <2>2. Unsent(ctl) \subseteq Unsent(ctl)
    OBVIOUS
  <2> QED BY <1>1, <1>2, <2>1, <2>2, ViewNext
<1>7. Tended(ctl, View')
    BY <1>1, <1>5, ExtendsTended DEF Watched
<1>8. UnowedTurns' = UnowedTurns
    BY <1>2, <1>4 DEF UnowedTurns, Owed
<1> QED BY <1>1, <1>3, <1>4, <1>5, <1>6, <1>7, <1>8 DEF View

LEMMA PlainMoved ==
    ASSUME LostInv, TurnInv', ctl.link # "closed", Plain, Tended(ctl', View'),
           \A i \in DOMAIN admitted' :
              admitted'[i] \in QueuedIds(ctl'.q) \/ \E j \in DOMAIN admitted : admitted[j] = admitted'[i],
           NEW T, MayPass(T), NEW O, O \subseteq Released, NEW M, MayMake(M),
           Spares(ctl, ctl', T, O, M),
           ctl'.steerReq \in M => ctl'.steerReq \in steerSent \cup {NoTurn}
    PROVE  LostInv'
<1>1. CoreInvariant' /\ Extends(View', View)
    BY PlainView
<1>2. /\ Consumes /\ runs' = runs /\ Holds(ctl, ctl') /\ ctl'.steerReq \in {ctl.steerReq, NoTurn}
      /\ ctl'.steerOwner \in {ctl.steerOwner, NoTurn} /\ ctl'.steerAdmitted = ctl.steerAdmitted
      /\ gone \subseteq gone' /\ orphaned' = orphaned /\ handedBack' = handedBack /\ notes' = notes
      /\ ctl'.link # "closed"
    BY DEF Plain, Keeps
<1>3. \A p \in handedBack' : p \in Returned(notes) => p \in Returned(notes') \cup QueuedIds(ctl'.q)
    BY <1>2
<1>4. orphaned \subseteq orphaned' /\ handedBack' \subseteq handedBack
    BY <1>2
<1> QED BY <1>1, <1>2, <1>3, <1>4, ClientMoved

\* The handlers that touch neither the queue nor the steers.
LEMMA RestMoved ==
    ASSUME LostInv, TurnInv', ctl.link # "closed", Plain, Rests(ctl, ctl'), admitted' = admitted
    PROVE  LostInv'
<1>1. Tended(ctl, View')
    BY PlainView
<1>2. Tended(ctl', View') /\ Spares(ctl, ctl', {}, {}, {})
    BY <1>1, RestsTended
<1>3. MayPass({}) /\ MayMake({}) /\ {} \subseteq Released
    BY DEF MayPass, MayMake
<1> QED BY <1>2, <1>3, PlainMoved
-----------------------------------------------------------------------------
(* The user *)

LEMMA AdmitLost ==
    ASSUME LostInv, TurnInv', NEW t \in Locals, Admit(t)
    PROVE  LostInv'
<1> USE DEF LostInv, TurnInv, KnownInv, SentInv
<1>1. /\ MayEnqueue(ctl, t) /\ ctl' = EnqueueTurn(ctl, t) /\ ctl.link = "ready"
      /\ admitted' = Append(admitted, t)
    BY DEF Admit, MayEnqueue
<1>2. OrdersWith(ctl, ctl', {t}) /\ Keeps(ctl, ctl')
    BY <1>1, EnqueueTurnOrders, EnqueueTurnKeeps DEF Turns
<1>3. Plain
    BY <1>2 DEF Admit, Consumes, Plain, channels, OrdersWith
<1>4. ViewOf(ctl, View') /\ Tended(ctl, View') /\ WellFormed(ctl) /\ Orderly(ctl)
    BY <1>1, <1>3, PlainView
<1>5. Tended(ctl', View') /\ Spares(ctl, ctl', {}, {}, {}) /\ t \in QueuedIds(ctl'.q)
    BY <1>1, <1>4, EnqueueTurnTended
<1>6. \A i \in DOMAIN admitted' :
         admitted'[i] \in QueuedIds(ctl'.q) \/ \E j \in DOMAIN admitted : admitted[j] = admitted'[i]
  <2>1. admitted \in Seq(Locals)
    BY DEF TypeOK
  <2> QED BY <1>1, <1>5, <2>1
<1>7. MayPass({}) /\ MayMake({}) /\ {} \subseteq Released /\ ctl'.steerReq \notin {}
    BY DEF MayPass, MayMake
<1> QED BY <1>1, <1>3, <1>5, <1>6, <1>7, PlainMoved

LEMMA RetireLost ==
    ASSUME LostInv, TurnInv', Retire
    PROVE  LostInv'
<1>1. /\ TypeOK /\ CoreInvariant /\ NoPromptLost /\ Watched
    BY DEF LostInv, TurnInv, KnownInv, SentInv, Retire
<1>2. Consumes /\ runs' = runs /\ handedBack' \subseteq handedBack /\ snap' = NoSnap /\ notes' = <<>>
      /\ replies' = {} /\ gone' = gone \cup QueuedIds(ctl.q) \cup RetainedTurns(ctl)
      /\ admitted' = admitted /\ steerSent' = steerSent /\ handedBack' = handedBack \ Returned(notes)
    BY DEF Retire, CutStream, Consumes
<1>3. /\ ctl'.q = EmptyQueue /\ ctl'.retained = {} /\ ctl'.steerReq = NoTurn
      /\ ctl'.interruptReq = NoTurn /\ ctl'.lookup = NoTurn /\ ctl'.recovery = NoRecovery
      /\ ctl'.startReq = NoTurn /\ ctl'.stage = "none" /\ ctl'.owner = NoOwner
      /\ ~ctl'.steerUnknown /\ ctl'.steerAdmitted = {} /\ ctl'.link = "closed"
      /\ ctl'.composer = ctl.composer
    BY DEF Retire, Reset, InitController
<1>4. CoreInvariant'
    BY <1>1, <1>2, <1>3, ConsumesCore DEF Drained
<1>5. Shut'
    BY <1>2, <1>3 DEF Shut
<1>6. NoPromptLost'
  <2> SUFFICES ASSUME NEW p \in Locals \ Reviews, p \in {admitted[i] : i \in DOMAIN admitted},
                      ~(runs[p] > 0), p \notin ctl.composer \cup gone'
               PROVE  p \in steerSent /\ p \notin handedBack' \ Returned(notes')
    BY <1>2, <1>3 DEF NoPromptLost
  <2>1. p \in steerSent /\ p \notin handedBack \ Returned(notes)
    BY <1>1, <1>2 DEF NoPromptLost
  <2> QED BY <1>2, <2>1
<1> QED BY <1>3, <1>4, <1>5, <1>6 DEF LostInv

\* New text is held for a turn that is known and, if it ended, owes it nothing.
LEMMA SubmitLost ==
    ASSUME LostInv, TurnInv', NEW t \in Steerable, Submit(t)
    PROVE  LostInv'
<1>1. /\ t \in Locals /\ CanSteerText(ctl) /\ ctl.link = "ready" /\ ctl' = SubmitSteer(ctl, t)
      /\ t \notin ctl.attempted /\ t \notin ctl.steerAdmitted
      /\ UNCHANGED <<srv, inputs, wire, replies, notes, snap, buffered, sends, runs, admitted, gone,
                     steerSent, orphaned, handedBack>>
    BY SystemAssumption DEF Submit, CanSteerText, channels, history
<1>2. /\ TypeOK /\ TypeOK' /\ CoreInvariant /\ Watched /\ KnownInv /\ WellFormed(ctl) /\ Orderly(ctl)
      /\ NoPromptLost /\ SteersKnown
    BY <1>1 DEF LostInv, TurnInv, KnownInv, SentInv
<1>0. PICK x : x = [turn |-> t, owner |-> Active(ctl), sent |-> FALSE, accepted |-> FALSE]
    OBVIOUS
<1>3. /\ ctl'.link = "ready" /\ ctl'.q = ctl.q /\ ctl'.steerReq = t /\ ctl'.steerOwner = Active(ctl)
      /\ ctl'.steerAdmitted = ctl.steerAdmitted \cup {t} /\ ctl'.composer = ctl.composer
      /\ ctl'.retained = ctl.retained \cup {x} /\ x.turn = t /\ x.owner = Active(ctl) /\ ~x.sent
      /\ Unsent(ctl') = Unsent(ctl)
  <2>1. Unsent(ctl') = Unsent(ctl)
    <3>1. Active(ctl) \in Turns
        BY <1>1, <1>2 DEF CanSteerText, WellFormed, Controllers
    <3> QED BY <1>1, <1>2, <3>1, SubmitSteerKeeps
  <2>2. ctl' = [ctl EXCEPT !.steerAdmitted = @ \cup {t}, !.retained = @ \cup {x}, !.steerReq = t,
                           !.steerOwner = Active(ctl)]
    BY <1>0, <1>1 DEF SubmitSteer
  <2>3. ctl \in Controllers
    BY <1>2 DEF WellFormed
  <2> QED BY <1>0, <1>1, <2>1, <2>2, <2>3 DEF Controllers
<1>4. Consumes /\ runs' = runs
    BY <1>1 DEF Consumes
<1>5. CoreInvariant'
    BY <1>1, <1>2, <1>3, <1>4, ConsumesCore DEF CoreInvariant, SnapTells, Drained
<1>6. KnownTurns' = KnownTurns /\ DoneTurns' = DoneTurns /\ UnowedTurns' = UnowedTurns
    BY <1>1 DEF KnownTurns, DoneTurns, UnowedTurns, Owed
<1>7. Extends(View', View)
  <2>1. DeadTurns \subseteq DeadTurns'
    BY <1>2, <1>3, <1>4, ConsumesDead
  <2>2. Unanswered => Unanswered'
    BY <1>1 DEF Unanswered
  <2> QED BY <1>1, <1>6, <2>1, <2>2, SameStreamExtends
<1>8. ViewOf(ctl, View')
  <2>1. OldTurns' \subseteq QuietTurns'
    BY <1>2, <1>3, <1>5, ReadyHasNoBufferNext DEF CoreInvariant
  <2>2. Unsent(ctl) \subseteq Unsent(ctl) /\ srv' = srv /\ ctl.link # "closed"
    BY <1>1
  <2> QED BY <1>2, <2>1, <2>2, ViewNext
<1>9. Tended(ctl, View')
    BY <1>2, <1>7, ExtendsTended DEF Watched
<1>10. Active(ctl) \in KnownTurns
  <2>1. /\ Active(ctl) \in ctl.attempted /\ ctl.dispatching = NoTurn /\ ~Recovering(ctl)
    BY <1>1 DEF CanSteerText
  <2>2. Vouched(ctl, View) /\ View.known = KnownTurns
    BY <1>2 DEF Watched, Tended, View
  <2>3. ctl.local = NoTurn /\ Active(ctl) # NoTurn
    BY <1>2, <2>1, TurnsAssumption DEF Orderly, Leased, WellFormed, Controllers, Turns
  <2> QED BY <1>1, <2>1, <2>2, <2>3 DEF Vouched, Recovering
<1>11. Active(ctl) \in DoneTurns \ UnowedTurns => Active(ctl) \in SteerOwners(ctl)
  <2> SUFFICES ASSUME Owed(Active(ctl)) PROVE Active(ctl) \in SteerOwners(ctl)
    BY DEF UnowedTurns
  <2>1. PICK i \in DOMAIN notes, p \in handedBack : notes[i].turn = Active(ctl) /\ Returns(notes[i], p)
    BY DEF Owed
  <2>2. KeptFor(p, notes[i].turn)
    BY <1>2, <2>1 DEF Watched, Cared
  <2> QED BY <2>1, <2>2 DEF KeptFor, SteerOwners
<1>12. Received(ctl, Active(ctl)) => Active(ctl) \in DoneTurns
  <2>1. Sound(ctl, View) /\ View.done = DoneTurns /\ View.dead = DeadTurns
    BY <1>2 DEF Watched, Tended, View
  <2> QED BY <1>10, <2>1 DEF Sound, DeadTurns, KnownTurns
<1>13. Tended(ctl', View')
  <2>1. View'.done = DoneTurns /\ View'.unowed = UnowedTurns
    BY <1>6 DEF View
  <2> QED BY <1>1, <1>2, <1>8, <1>9, <1>11, <1>12, <2>1, SubmitSteerTended
<1>14. t \notin steerSent /\ t # NoTurn
    BY <1>1, <1>2, TurnsAssumption DEF SteersKnown
<1>15. \A p, o : KeptFor(p, o) => KeptFor(p, o)'
    BY <1>3 DEF KeptFor
<1>16. Cared'
  <2>1. Foreground' = Foreground
    BY <1>1 DEF Foreground
  <2>2. Cared
    BY <1>2 DEF Watched
  <2>3. \A m \in wire' : m.kind = "steer" /\ m.turn \notin orphaned' /\ srv'[m.to] # "done"
                         => KeptFor(m.turn, m.to)'
    BY <1>1, <1>15, <2>2 DEF Cared
  <2>4. \A i \in DOMAIN inputs : inputs[i] \notin orphaned
           => \E o \in Foreground : \E e \in ctl'.retained : e.turn = inputs[i] /\ e.owner = o /\ e.sent
    BY <1>3, <2>2 DEF Cared, KeptFor
  <2>5. \A i \in DOMAIN notes : \A p \in handedBack : Returns(notes[i], p)
           => \E e \in ctl'.retained : e.turn = p /\ e.owner = notes[i].turn /\ e.sent
    BY <1>3, <2>2 DEF Cared, KeptFor
  <2> QED BY <1>1, <2>1, <2>3, <2>4, <2>5 DEF Cared, KeptFor
<1>17. KeptIsReturned'
  <2>1. t \notin handedBack
    BY <1>2, <1>14 DEF CoreInvariant, ReturnedOnce
  <2> QED BY <1>1, <1>2, <1>3, <2>1 DEF Watched, KeptIsReturned
<1>18. Aimed'
    BY <1>1, <1>2, <1>3 DEF Watched, Aimed
<1>19. FellBackLast'
  <2>1. \A r \in replies' : r.kind = "steer" => r.turn # ctl'.steerReq
    BY <1>1, <1>2, <1>3, <1>14 DEF SteersKnown
  <2> QED BY <2>1 DEF FellBackLast
<1>20. SnapSteers'
    BY <1>1, <1>2 DEF CoreInvariant, SnapTells, SnapSteers
<1>21. NoPromptLost'
    BY <1>1, <1>2, <1>3 DEF NoPromptLost, RetainedTurns
<1>22. Watched'
    BY <1>13, <1>16, <1>17, <1>18, <1>19, <1>20 DEF Watched
<1> QED BY <1>3, <1>5, <1>21, <1>22 DEF LostInv

LEMMA UserLost ==
    ASSUME LostInv, User, ctl.link # "closed"
    PROVE  LostInv'
<1>1. TurnInv' /\ WellFormed(ctl) /\ Orderly(ctl)
    BY UserTurn DEF LostInv, TurnInv, KnownInv, SentInv
<1>2. MayPass({}) /\ MayMake({}) /\ {} \subseteq Released /\ ctl'.steerReq \notin {}
    BY DEF MayPass, MayMake
<1>3. ASSUME NEW t \in Locals, Cancel(t) PROVE LostInv'
  <2>1. ctl' = CancelQueuedPrompt(ctl, t) /\ admitted' = admitted /\ t \in gone'
    BY <1>3 DEF Cancel
  <2>2. Orders(ctl, ctl') /\ Keeps(ctl, ctl')
    BY <1>1, <2>1, CancelQueuedPromptOrders, CancelQueuedPromptKeeps
  <2>3. Plain
    BY <1>3, <2>2 DEF Cancel, Plain, Consumes, channels, Orders
  <2>4. ViewOf(ctl, View') /\ Tended(ctl, View')
    BY <1>1, <2>3, PlainView
  <2>5. Tended(ctl', View') /\ Spares(ctl, ctl', {t}, {}, {})
    BY <1>1, <2>1, <2>4, CancelQueuedPromptTended
  <2>6. MayPass({t})
    BY <2>1 DEF MayPass
  <2> QED BY <1>1, <1>2, <2>1, <2>3, <2>5, <2>6, PlainMoved
<1>4. CASE Stop \/ SendPendingNow
  <2>1. Active(ctl) \in Turns
    BY <1>1, <1>4, ActiveType DEF Stop, SendPendingNow, MayInterrupt, WellFormed
  <2>2. [kind |-> "interrupt", turn |-> Active(ctl)] \in Interrupts
    BY <2>1 DEF Interrupts
  <2>3. PICK b \in BOOLEAN : ctl' = Interrupt(ctl, b)
    BY <1>4 DEF Stop, SendPendingNow, SendInterrupt
  <2>4. Orders(ctl, ctl') /\ Keeps(ctl, ctl') /\ Rests(ctl, ctl')
    BY <1>1, <2>3, InterruptOrders, InterruptKeeps, QuietHandlersRest
  <2>5. Plain /\ admitted' = admitted
    BY <1>4, <2>2, <2>4 DEF Stop, SendPendingNow, SendInterrupt, Plain, Consumes, history, Orders
  <2> QED BY <1>1, <2>4, <2>5, RestMoved
<1>5. CASE RetryRecovery
  <2>1. /\ ctl' = RetryTurnRecovery(ctl) /\ ctl.link # "draining" /\ Recovering(ctl)
        /\ admitted' = admitted
    BY <1>5 DEF RetryRecovery, Yielded, history
  <2>2. Orders(ctl, ctl') /\ Keeps(ctl, ctl')
    BY <1>1, <2>1, RetryTurnRecoveryOrders, RetryTurnRecoveryKeeps
  <2>3. Plain
    BY <1>5, <2>2 DEF RetryRecovery, Plain, Consumes, channels, history, Orders
  <2>4. ViewOf(ctl, View') /\ Tended(ctl, View')
    BY <1>1, <2>3, PlainView
  <2>5. \A x \in SteerOwners(ctl) :
           /\ x = Active(ctl) => x \in View'.quiet
           /\ \/ x \in View'.old
              \/ /\ ctl.link \in {"draining", "ready"}
                 /\ x = ctl.hydrated.turn /\ x # Active(ctl)
    BY <2>1, <2>4 DEF Tended, Tends
  <2>6. Tended(ctl', View') /\ Spares(ctl, ctl', {}, {}, {})
    BY <1>1, <2>1, <2>4, <2>5, RetryTurnRecoveryTended DEF Tended, ViewOf
  <2> QED BY <1>1, <1>2, <2>1, <2>3, <2>6, PlainMoved
<1>6. CASE Continue
  <2>1. /\ ctl' = ContinueWithoutTurn(ctl) /\ MayContinueWithoutTurn(ctl) /\ ctl.link # "draining"
        /\ admitted' = admitted /\ Active(ctl) \in gone'
    BY <1>6 DEF Continue, Yielded
  <2>2. Orders(ctl, ctl') /\ Keeps(ctl, ctl')
    BY <1>1, <2>1, ContinueWithoutTurnOrders, ContinueWithoutTurnKeeps DEF MayContinueWithoutTurn
  <2>3. Plain
    BY <1>6, <2>2 DEF Continue, Plain, Consumes, channels, Orders
  <2>4. ViewOf(ctl, View') /\ Tended(ctl, View')
    BY <1>1, <2>3, PlainView
  <2>5. PICK T : T = {Active(ctl)}
    OBVIOUS
  <2>6. Tended(ctl', View') /\ Spares(ctl, ctl', T, {}, {})
    BY <1>1, <2>1, <2>4, <2>5, ContinueWithoutTurnTended
  <2>7. MayPass(T)
    BY <2>1, <2>5 DEF MayPass
  <2> QED BY <1>1, <1>2, <2>1, <2>3, <2>6, <2>7, PlainMoved
<1>7. CASE RetrySteer
  <2>1. ctl' = RetrySteerDelivery(ctl) /\ ctl.steerUnknown /\ admitted' = admitted
    BY <1>7 DEF RetrySteer, history
  <2>2. Orders(ctl, ctl') /\ Keeps(ctl, ctl')
    BY <1>1, <2>1, RetrySteerDeliveryOrders, RetrySteerDeliveryKeeps
  <2>3. Plain
    BY <1>7, <2>2 DEF RetrySteer, Plain, Consumes, channels, history, Orders
  <2>4. ViewOf(ctl, View') /\ Tended(ctl, View')
    BY <1>1, <2>3, PlainView
  <2>5. Tended(ctl', View') /\ Spares(ctl, ctl', {}, {}, {})
    BY <1>1, <2>1, <2>4, RetrySteerDeliveryTended
  <2> QED BY <1>1, <1>2, <2>1, <2>3, <2>5, PlainMoved
<1>8. CASE SetSteeringEnabled
  <2>1. ctl' = [ctl EXCEPT !.steering = ~@] /\ admitted' = admitted
    BY <1>8 DEF SetSteeringEnabled, history
  <2>2. ctl' \in Controllers
    BY <1>1 DEF TurnInv, KnownInv, SentInv, TypeOK
  <2>3. Keeps(ctl, ctl') /\ Holds(ctl, ctl') /\ ctl'.steerReq = ctl.steerReq
    BY <1>1, <2>1, <2>2 DEF Keeps, WellFormed, Unsent, Controllers, Holds
  <2>4. Plain
    BY <1>8, <2>3 DEF SetSteeringEnabled, Plain, Consumes, channels, history
  <2>5. Rests(ctl, ctl')
    BY <1>1, <2>1 DEF Rests, WellFormed, Controllers
  <2> QED BY <1>1, <2>1, <2>4, <2>5, RestMoved
<1> QED BY <1>1, <1>3, <1>4, <1>5, <1>6, <1>7, <1>8, AdmitLost, SubmitLost, RetireLost DEF User
-----------------------------------------------------------------------------
(* The client *)

\* The view in which a start that never reaches Core is given up.
LEMMA DeadView ==
    ASSUME LostInv, TurnInv', ctl.link # "closed", Plain, NEW t \in Locals, srv[t] = "none",
           ~StartFrame(t)
    PROVE  \E w : /\ ViewOf(ctl, w) /\ Tended(ctl, w) /\ t \in w.dead
                  /\ t \notin Unsent(ctl') => Extends(View', w)
<1>1. ViewOf(ctl, View') /\ Tended(ctl, View') /\ TypeOK /\ Consumes
    BY PlainView DEF LostInv, TurnInv, KnownInv, SentInv, Plain
<1>2. PICK w : w = [known |-> KnownTurns', done |-> DoneTurns', quiet |-> QuietTurns',
                    old |-> OldTurns', unowed |-> UnowedTurns', before |-> Precedes',
                    dead |-> DeadTurns' \cup {t}]
    OBVIOUS
<1>3. /\ w.known = View'.known /\ w.done = View'.done /\ w.quiet = View'.quiet
      /\ w.old = View'.old /\ w.unowed = View'.unowed /\ w.before = View'.before
      /\ w.dead = View'.dead \cup {t} /\ View'.dead = DeadTurns'
    BY <1>2 DEF View
<1>4. Extends(w, View')
    BY <1>3 DEF Extends
<1>5. ViewOf(ctl, w)
    BY <1>1, <1>3 DEF ViewOf
<1>6. Tended(ctl, w)
    BY <1>1, <1>4, ExtendsTended
<1>7. ASSUME t \notin Unsent(ctl') PROVE Extends(View', w)
  <2>1. ~StartFrame(t)' /\ srv'[t] = "none"
    BY <1>1, ConsumesFresh DEF Consumes, Plain
  <2>2. t \in DeadTurns'
    BY <1>7, <2>1 DEF DeadTurns, StartFrame
  <2> QED BY <1>3, <2>2 DEF Extends
<1> QED BY <1>3, <1>5, <1>6, <1>7

\* Nobody waits for text of a turn that Core does not know.
LEMMA UnknownIsReleased ==
    ASSUME LostInv, ctl.link # "closed", NEW t \in Turns, srv[t] = "none"
    PROVE  {t} \subseteq Released
<1>1. \A x \in SteerOwners(ctl) : x \in KnownTurns
    BY DEF LostInv, Watched, Tended, Tends, View
<1> QED BY <1>1 DEF Released, KnownTurns

LEMMA RefusedLost ==
    ASSUME LostInv, TurnInv', ctl.link \notin {"closed", "draining"}, Plain, admitted' = admitted,
           NEW t \in Locals, srv[t] = "none", ~StartFrame(t),
           \/ ctl.local = t /\ ctl' = StartRefused(ctl, t)
           \/ ctl.startReq = t /\ ctl.stage = "preflight" /\ ctl' = PreflightNotReady(ctl, t)
    PROVE  LostInv'
<1>1. WellFormed(ctl) /\ Orderly(ctl) /\ t \in Turns
    BY DEF LostInv, TurnInv, KnownInv, SentInv, Turns
<1>2. PICK w : /\ ViewOf(ctl, w) /\ Tended(ctl, w) /\ t \in w.dead
               /\ t \notin Unsent(ctl') => Extends(View', w)
    BY DeadView
<1>3. MayMake({}) /\ ctl'.steerReq \notin {}
    BY DEF MayMake
<1>4. {t} \subseteq Released
    BY <1>1, UnknownIsReleased
<1>5. t \in {t} /\ t \in w.done \cup w.dead
    BY <1>2
<1>6. CASE ctl.local = t /\ ctl' = StartRefused(ctl, t)
  <2>1. /\ Tended(ctl', w) /\ Spares(ctl, ctl', {t}, {t}, {}) /\ t \notin Unsent(ctl')
        /\ t \notin Reviews => t \in ctl'.composer
    BY <1>1, <1>2, <1>5, <1>6, StartRefusedTended
  <2>2. Tended(ctl', View')
    BY <1>2, <2>1, ExtendsTended
  <2>3. MayPass({t})
    BY <2>1 DEF MayPass
  <2> QED BY <1>3, <1>4, <2>1, <2>2, <2>3, PlainMoved
<1>7. CASE ctl.startReq = t /\ ctl.stage = "preflight" /\ ctl' = PreflightNotReady(ctl, t)
  <2>1. PICK T : T = {t} \cap Reviews
    OBVIOUS
  <2>2. t \in Reviews => t \in T
    BY <2>1
  <2>3. MayPass(T)
    BY <2>1 DEF MayPass
  <2>4. CASE t \in Reviews
    <3>1. Tended(ctl', w) /\ Spares(ctl, ctl', T, {t}, {}) /\ t \notin Unsent(ctl')
        BY <1>1, <1>2, <1>5, <1>7, <2>2, <2>4, PreflightNotReadyTended
    <3>2. Tended(ctl', View')
        BY <1>2, <3>1, ExtendsTended
    <3> QED BY <1>3, <1>4, <2>3, <3>1, <3>2, PlainMoved
  <2>5. CASE t \notin Reviews
    <3>1. ViewOf(ctl, View') /\ Tended(ctl, View')
        BY PlainView
    <3>2. Tended(ctl', View') /\ Spares(ctl, ctl', T, {t}, {})
        BY <1>1, <1>5, <1>7, <2>2, <2>5, <3>1, PreflightNotReadyTended
    <3> QED BY <1>3, <1>4, <2>3, <3>2, PlainMoved
  <2> QED BY <2>4, <2>5
<1> QED BY <1>6, <1>7

LEMMA StartReplyLost ==
    ASSUME LostInv, TurnInv', ctl.link # "closed", NEW r \in replies, StartReply(r)
    PROVE  LostInv'
<1>1. /\ r \in Replies /\ r.kind = "start" /\ WellFormed(ctl) /\ Orderly(ctl) /\ AcceptedKnown
      /\ RepliesKnow /\ KnownInv /\ ctl.link # "draining" /\ wire \subseteq Requests
    BY DEF StartReply, Yielded, LostInv, TurnInv, KnownInv, SentInv, TypeOK
<1>2. r.turn \in Turns /\ r.turn \in Locals /\ (r.result = "busy" => r.by \in Turns)
    BY <1>1, ReplyForms
<1>3. \/ ctl' = ctl
      \/ OnWire(r.turn) /\ r.result = "ack" /\ ctl' = StartAcked(ctl, r.turn)
      \/ /\ OnWire(r.turn) /\ r.result = "busy" /\ StartCurrent(ctl, r.turn)
         /\ ctl' = StartCollided(ctl, r.turn, r.by)
      \/ OnWire(r.turn) /\ r.result # "ack" /\ ctl' = StartRejected(ctl, r.turn)
    BY DEF StartReply
<1>4. /\ [kind |-> "start", turn |-> r.turn] \notin wire
      /\ IF r.result = "ack" THEN srv[r.turn] # "none" ELSE srv[r.turn] = "none"
      /\ r.result = "busy" => srv[r.by] # "none"
    BY <1>1 DEF RepliesKnow
<1>5. ASSUME OnWire(r.turn), r.result # "ack" PROVE ctl.local = r.turn
    BY <1>1, <1>4, <1>5 DEF AcceptedKnown, Accepted, OnWire
<1>6. ASSUME Orders(ctl, ctl'), Keeps(ctl, ctl') PROVE Plain /\ admitted' = admitted
    BY <1>6 DEF StartReply, Plain, Consumes, history, Orders
<1>7. MayPass({}) /\ MayMake({}) /\ {} \subseteq Released /\ ctl'.steerReq \notin {}
    BY DEF MayPass, MayMake
<1>8. CASE ctl' = ctl
  <2>1. Orders(ctl, ctl') /\ Keeps(ctl, ctl') /\ Rests(ctl, ctl')
    BY <1>1, <1>8, OrdersReflexive, KeepsReflexive DEF Rests
  <2> QED BY <1>6, <2>1, RestMoved
<1>9. CASE OnWire(r.turn) /\ r.result = "ack" /\ ctl' = StartAcked(ctl, r.turn)
  <2>1. Orders(ctl, ctl') /\ Keeps(ctl, ctl')
    BY <1>1, <1>2, <1>9, StartAckedOrders, StartAckedKeeps DEF OnWire
  <2>2. Plain /\ admitted' = admitted
    BY <1>6, <2>1
  <2>3. ViewOf(ctl, View') /\ Tended(ctl, View') /\ View'.known = KnownTurns
    BY <2>2, PlainView
  <2>4. r.turn \in View'.known
    BY <1>2, <1>4, <1>9, <2>3 DEF KnownTurns
  <2>5. Tended(ctl', View') /\ Spares(ctl, ctl', {}, {}, {})
    BY <1>1, <1>9, <2>3, <2>4, StartAckedTended
  <2> QED BY <1>7, <2>2, <2>5, PlainMoved
<1>10. CASE /\ OnWire(r.turn) /\ r.result = "busy" /\ StartCurrent(ctl, r.turn)
            /\ ctl' = StartCollided(ctl, r.turn, r.by)
  <2>1. ctl.local = r.turn /\ Active(ctl) = r.turn
    BY <1>5, <1>10 DEF StartCurrent
  <2>2. Sure(ctl, r.by)
    BY <1>1, <1>2, <1>4, <1>10, KnownIsSure
  <2>3. Orders(ctl, ctl') /\ Keeps(ctl, ctl')
    BY <1>1, <1>2, <1>10, <2>1, <2>2, StartCollidedOrders, StartCollidedKeeps
  <2>4. Plain /\ admitted' = admitted
    BY <1>6, <2>3
  <2>5. ViewOf(ctl, View') /\ Tended(ctl, View') /\ View'.known = KnownTurns
    BY <2>4, PlainView
  <2>6. r.by \in View'.known
    BY <1>2, <1>4, <1>10, <2>5 DEF KnownTurns
  <2>7. PICK T : T = {r.turn}
    OBVIOUS
  <2>8. Tended(ctl', View') /\ Spares(ctl, ctl', T, {}, {}) /\ r.turn \in ctl'.composer
    BY <1>1, <1>2, <1>10, <2>1, <2>5, <2>6, <2>7, StartCollidedTended
  <2>9. MayPass(T)
    BY <2>7, <2>8 DEF MayPass
  <2> QED BY <1>7, <2>4, <2>8, <2>9, PlainMoved
<1>11. CASE OnWire(r.turn) /\ r.result # "ack" /\ ctl' = StartRejected(ctl, r.turn)
  <2>1. Orders(ctl, ctl') /\ Keeps(ctl, ctl')
    BY <1>1, <1>2, <1>11, StartRejectedOrders, StartRefusedKeeps
  <2>2. Plain /\ admitted' = admitted
    BY <1>6, <2>1
  <2>3. CASE StartCurrent(ctl, r.turn)
    <3>1. ctl' = StartRefused(ctl, r.turn) /\ ctl.local = r.turn
        BY <1>5, <1>11, <2>3 DEF StartRejected
    <3>2. ~StartFrame(r.turn) /\ srv[r.turn] = "none"
        BY <1>1, <1>4, <1>11, RequestForms DEF StartFrame
    <3>3. ctl.link \notin {"closed", "draining"}
        BY <1>1
    <3> QED BY <1>2, <2>2, <3>1, <3>2, <3>3, RefusedLost
  <2>4. CASE ~StartCurrent(ctl, r.turn)
    <3>1. Rests(ctl, ctl')
        BY <1>1, <1>11, <2>4, InvalidateStartRests DEF StartRejected
    <3> QED BY <2>2, <3>1, RestMoved
  <2> QED BY <2>3, <2>4
<1> QED BY <1>3, <1>8, <1>9, <1>10, <1>11

\* A steer that did not reach Core, or that Core refused, becomes a prompt again.
LEMMA SteerNotAdmittedLost ==
    ASSUME LostInv, TurnInv', ctl.link # "closed", Consumes, runs' = runs,
           UNCHANGED <<notes, snap, buffered, orphaned, handedBack, gone, admitted>>,
           ctl.steerReq # NoTurn, ctl' = SteerNotAdmitted(ctl),
           ~SteerFrame(ctl.steerReq), ~InInputs(ctl.steerReq), ctl.steerReq \notin Returned(notes)
    PROVE  LostInv'
<1>1. WellFormed(ctl) /\ Orderly(ctl)
    BY DEF LostInv, TurnInv, KnownInv, SentInv
<1>2. PICK new : new = {ctl.steerReq} \cap RetainedTurns(ctl)
    OBVIOUS
<1>3. OrdersWith(ctl, ctl', new) /\ Keeps(ctl, ctl') /\ ctl'.steerReq = NoTurn
    BY <1>1, <1>2, SteerEndsOrder, SteerEndsKeep, SteerNotAdmittedEnds
<1>4. Plain
    BY <1>3 DEF Plain, OrdersWith
<1>5. ViewOf(ctl, View') /\ Tended(ctl, View') /\ View'.unowed = UnowedTurns'
    BY <1>4, PlainView
<1>6. PICK M : M = {ctl.steerReq}
    OBVIOUS
<1>7. PICK O : O = UnowedTurns'
    OBVIOUS
<1>8. Tended(ctl', View') /\ Spares(ctl, ctl', {}, O, M)
    BY <1>1, <1>5, <1>6, <1>7, SteerNotAdmittedTended
<1>9. MayPass({}) /\ MayMake(M) /\ O \subseteq Released
    BY <1>6, <1>7 DEF MayPass, MayMake, Released
<1>10. ctl'.steerReq \in M => ctl'.steerReq \in steerSent \cup {NoTurn}
    BY <1>3
<1> QED BY <1>4, <1>8, <1>9, <1>10, PlainMoved

\* The steer in flight was sent, and so was everything else that is retained.
LEMMA SteerEndsLost ==
    ASSUME LostInv, TurnInv', ctl.link # "closed", Consumes, runs' = runs,
           UNCHANGED <<notes, snap, buffered, orphaned, handedBack, gone, admitted>>,
           ctl.steerReq # NoTurn, ctl.steerReq \in steerSent,
           ctl' \in {SteerAccepted(ctl), SteerUnconfirmed(ctl)}
    PROVE  LostInv'
<1>1. WellFormed(ctl) /\ Orderly(ctl) /\ SteersKnown
    BY DEF LostInv, TurnInv, KnownInv, SentInv
<1>2. Orders(ctl, ctl') /\ Keeps(ctl, ctl')
    BY <1>1, SteerEndsOrder, SteerEndsKeep
<1>3. Plain
    BY <1>2 DEF Plain, Orders
<1>4. ViewOf(ctl, View') /\ Tended(ctl, View') /\ View'.unowed = UnowedTurns'
    BY <1>3, PlainView
<1>5. \A e \in ctl.retained : e.sent
    BY <1>1, <1>4 DEF Tended, Sound, SteersKnown
<1>6. PICK O : O = UnowedTurns'
    OBVIOUS
<1>7. Tended(ctl', View') /\ Spares(ctl, ctl', {}, O, {})
    BY <1>1, <1>4, <1>5, <1>6, SteerEndsTended
<1>8. MayPass({}) /\ MayMake({}) /\ O \subseteq Released /\ ctl'.steerReq \notin {}
    BY <1>6 DEF MayPass, MayMake, Released
<1> QED BY <1>3, <1>7, <1>8, PlainMoved

\* Core started the steer as a turn of its own.
LEMMA SteerFellBackLost ==
    ASSUME LostInv, TurnInv', ctl.link \notin {"closed", "draining"}, NEW r \in replies, r.kind = "steer",
           r.result = "fellback", r.turn = ctl.steerReq, Consumes, runs' = runs,
           UNCHANGED <<notes, snap, buffered, orphaned, handedBack, gone, admitted>>,
           ctl' = SteerFellBack(ctl, r.by)
    PROVE  LostInv'
<1>1. /\ WellFormed(ctl) /\ Orderly(ctl) /\ SteersKnown /\ TypeOK /\ RepliesKnow /\ CoreInvariant
      /\ Watched
    BY DEF LostInv, TurnInv, KnownInv, SentInv
<1>2. r \in Replies /\ r.turn \in Locals /\ ctl.steerReq # NoTurn
    BY <1>1, ReplyForms, TurnsAssumption DEF TypeOK
<1>3. r.by \in Foreign /\ r.by \in Turns /\ srv[r.by] # "none"
    BY <1>1 DEF RepliesKnow, CoreInvariant, ReturnedOnce, Turns
<1>4. Orders(ctl, ctl') /\ Keeps(ctl, ctl')
    BY <1>1, <1>2, <1>3, SteerFellBackOrders, SteerFellBackKeeps
<1>5. Plain
    BY <1>4 DEF Plain, Orders
<1>6. /\ ViewOf(ctl, View') /\ Tended(ctl, View') /\ View'.unowed = UnowedTurns'
      /\ View'.known = KnownTurns /\ Extends(View', View)
    BY <1>5, PlainView
<1>7. r.by \in View'.known
    BY <1>3, <1>6 DEF KnownTurns
<1>8. \A x \in SteerOwners(ctl) : x # r.by /\ x \in View'.done /\ <<x, r.by>> \in View'.before
  <2>1. \A x \in SteerOwners(ctl) : x # r.by /\ x \in View.done /\ <<x, r.by>> \in View.before
    BY <1>1 DEF Watched, FellBackLast, View
  <2> QED BY <1>6, <2>1 DEF Extends
<1>9. PICK T : T = {ctl.steerReq, ctl.steerOwner}
    OBVIOUS
<1>10. PICK M : M = {ctl.steerReq}
    OBVIOUS
<1>11. PICK O : O = UnowedTurns'
    OBVIOUS
<1>12. PICK f : f = r.by
    OBVIOUS
<1>13. Tended(ctl', View') /\ Spares(ctl, ctl', T, O, M)
  <2>1. /\ ctl.steerReq \in T /\ ctl.steerOwner \in T /\ ctl.steerReq \in M /\ View'.unowed \subseteq O
        /\ f \in Foreign /\ f \in View'.known /\ ctl' = SteerFellBack(ctl, f)
        /\ ctl.link # "draining"
    BY <1>3, <1>6, <1>7, <1>9, <1>10, <1>11, <1>12
  <2>2. \A x \in SteerOwners(ctl) : x # f /\ x \in View'.done /\ <<x, f>> \in View'.before
    BY <1>8, <1>12
  <2> QED BY <1>1, <1>2, <1>6, <2>1, <2>2, SteerFellBackTended
<1>14. MayPass(T)
  <2>1. runs[ctl.steerReq] > 0
    BY <1>1 DEF CoreInvariant, ReturnedOnce
  <2>2. ctl.steerOwner \in KnownTurns
    BY <1>2, <1>6 DEF Tended, Sound
  <2>3. ctl.steerOwner \in Locals => runs[ctl.steerOwner] > 0
    BY <1>1, <2>2 DEF KnownTurns, CoreInvariant, CoreRuns
  <2> QED BY <1>9, <2>1, <2>3 DEF MayPass
<1>15. MayMake(M)
  <2>1. ~SteerFrame(r.turn) /\ ~InInputs(r.turn) /\ r.turn \notin Returned(notes)
    BY <1>1 DEF CoreInvariant, ReturnedOnce
  <2> QED BY <1>10, <2>1 DEF MayMake
<1>16. O \subseteq Released
    BY <1>11 DEF Released
<1>17. ctl'.steerReq \in M => ctl'.steerReq \in steerSent \cup {NoTurn}
    BY <1>1, <1>10 DEF SteersKnown
<1> QED BY <1>5, <1>13, <1>14, <1>15, <1>16, <1>17, PlainMoved

LEMMA SteerReplyLost ==
    ASSUME LostInv, TurnInv', ctl.link # "closed", NEW r \in replies, SteerReply(r)
    PROVE  LostInv'
<1>1. /\ WellFormed(ctl) /\ Orderly(ctl) /\ SteersKnown /\ TypeOK /\ CoreInvariant
      /\ ctl.link # "draining" /\ r.kind = "steer"
    BY DEF LostInv, TurnInv, KnownInv, SentInv, SteerReply, Yielded
<1>2. r \in Replies /\ r.turn \in Locals /\ r.turn # NoTurn /\ r.turn \in steerSent
      /\ r.result \in {"steered", "reject", "fellback"}
    BY <1>1, ReplyForms, TurnsAssumption DEF TypeOK, SteersKnown
<1>3. /\ Consumes /\ runs' = runs
      /\ UNCHANGED <<notes, snap, buffered, orphaned, handedBack, gone, admitted>>
    BY DEF SteerReply, Consumes, history
<1>4. CASE ctl' = ctl
  <2>1. Orders(ctl, ctl') /\ Keeps(ctl, ctl') /\ Rests(ctl, ctl')
    BY <1>1, <1>4, OrdersReflexive, KeepsReflexive DEF Rests
  <2>2. Plain
    BY <1>3, <2>1 DEF Plain, Orders
  <2> QED BY <1>3, <2>1, <2>2, RestMoved
<1>5. CASE ctl.steerReq = r.turn /\ r.result = "steered"
  <2>1. ctl' = SteerAccepted(ctl)
    BY <1>5 DEF SteerReply
  <2> QED BY <1>2, <1>3, <1>5, <2>1, SteerEndsLost
<1>6. CASE ctl.steerReq = r.turn /\ r.result = "fellback"
  <2>1. ctl' = SteerFellBack(ctl, r.by) /\ ctl.link \notin {"closed", "draining"}
    BY <1>1, <1>6 DEF SteerReply
  <2> QED BY <1>1, <1>3, <1>6, <2>1, SteerFellBackLost
<1>7. CASE ctl.steerReq = r.turn /\ r.result = "reject"
  <2>1. ctl' = SteerNotAdmitted(ctl) /\ ctl.steerReq # NoTurn
    BY <1>2, <1>7 DEF SteerReply
  <2>2. ~SteerFrame(r.turn) /\ ~InInputs(r.turn) /\ r.turn \notin Returned(notes)
    BY <1>1, <1>7 DEF CoreInvariant, ReturnedOnce
  <2>3. ~SteerFrame(ctl.steerReq) /\ ~InInputs(ctl.steerReq) /\ ctl.steerReq \notin Returned(notes)
    BY <1>7, <2>2
  <2> QED BY <1>3, <2>1, <2>3, SteerNotAdmittedLost
<1> QED BY <1>2, <1>4, <1>5, <1>6, <1>7 DEF SteerReply

\* A lookup ends the turn only if Core knows it, and its steers are owed nothing.
LEMMA LookupReplyLost ==
    ASSUME LostInv, TurnInv', ctl.link # "closed", NEW s \in LookupStates, LookupReply(s)
    PROVE  LostInv'
<1>1. /\ WellFormed(ctl) /\ Orderly(ctl) /\ TypeOK /\ CoreInvariant /\ KnownInv
      /\ ctl.link # "draining" /\ ctl' = LookupReturned(ctl, ctl.lookup, s)
      /\ ctl.lookup # NoTurn /\ s \in LookupResults(ctl.lookup)
    BY DEF LostInv, TurnInv, KnownInv, SentInv, LookupReply, Yielded
<1>2. PICK t : t = ctl.lookup
    OBVIOUS
<1>3. t \in Turns /\ ctl.lookup = t
    BY <1>1, <1>2 DEF WellFormed, Controllers, OptTurn
<1>4. Orders(ctl, ctl') /\ Keeps(ctl, ctl')
    BY <1>1, <1>2, <1>3, LookupReturnedOrders, LookupReturnedKeeps
<1>5. Plain /\ admitted' = admitted
    BY <1>4 DEF Plain, Orders, LookupReply, Consumes, channels, history
<1>6. /\ ViewOf(ctl, View') /\ Tended(ctl, View') /\ View'.unowed = UnowedTurns'
      /\ View'.known = KnownTurns /\ View'.done = DoneTurns
    BY <1>5, PlainView
<1>7. /\ s \notin {"unknown", "error"} => srv[t] # "none"
      /\ s \notin {"unknown", "error", "active", "interrupting"} => srv[t] = "done"
  <2>1. ASSUME NEW i \in DOMAIN notes, notes[i] = [kind |-> "terminal", turn |-> t]
        PROVE  srv[t] # "none"
    BY <1>1, <2>1 DEF KnownInv, StreamKnows
  <2>2. srv[t] \in {"none", "active", "interrupting", "done"}
    BY <1>1, <1>3 DEF TypeOK
  <2> QED BY <1>1, <1>2, <2>1, <2>2 DEF LookupResults
<1>8. /\ s \notin {"unknown", "error"} => t \in View'.known
      /\ s \notin {"unknown", "error", "active", "interrupting"} => t \in View'.done
    BY <1>3, <1>6, <1>7 DEF KnownTurns, DoneTurns
<1>9. t \in {t} /\ ctl' = LookupReturned(ctl, t, s)
    BY <1>1, <1>2
<1>10. Tended(ctl', View') /\ Spares(ctl, ctl', {t}, {t}, {})
    BY <1>1, <1>3, <1>6, <1>8, <1>9, LookupReturnedTended
<1>11. MayMake({}) /\ ctl'.steerReq \notin {} /\ MayPass({})
    BY DEF MayMake, MayPass
<1>12. {t} \subseteq Released
  <2>1. t \in SteerOwners(ctl) => t \in UnowedTurns'
    BY <1>3, <1>6 DEF Tended, Tends, ViewOf
  <2> QED BY <1>3, <2>1 DEF Released
<1>13. CASE s \notin {"unknown", "error"}
  <2>1. MayPass({t})
    BY <1>1, <1>7, <1>13 DEF MayPass, CoreInvariant, CoreRuns
  <2> QED BY <1>5, <1>10, <1>11, <1>12, <2>1, PlainMoved
<1>14. CASE s \in {"unknown", "error"}
  <2>1. ctl'.q = ctl.q /\ ctl'.composer = ctl.composer /\ ctl'.retained = ctl.retained
    BY <1>1, <1>9, <1>14 DEF LookupReturned, WellFormed, Controllers
  <2>2. Spares(ctl, ctl', {}, {t}, {})
    BY <2>1 DEF Spares
  <2> QED BY <1>5, <1>10, <1>11, <1>12, <2>2, PlainMoved
<1> QED BY <1>13, <1>14

\* A frame is written: the stream, Core and the replies stay as they were.
Writes ==
    /\ UNCHANGED <<srv, inputs, replies, notes, snap, buffered, runs, admitted, gone, orphaned, handedBack>>
    /\ ctl'.link = ctl.link /\ steerSent \subseteq steerSent'
    /\ \A p : SteerFrame(p)' /\ ~SteerFrame(p) => p \notin steerSent
    /\ \A p : StartFrame(p)' => StartFrame(p) \/ p \in Unsent(ctl)
    /\ Unsent(ctl') \subseteq Unsent(ctl)

LEMMA WritesView ==
    ASSUME LostInv, TurnInv', ctl.link # "closed", Writes
    PROVE  /\ CoreInvariant' /\ Extends(View', View) /\ ViewOf(ctl, View') /\ Tended(ctl, View')
           /\ WellFormed(ctl) /\ Orderly(ctl) /\ (SteerOwners(ctl') \subseteq SteerOwners(ctl) => SnapSteers')
<1>1. /\ TypeOK /\ TypeOK' /\ CoreInvariant /\ Watched /\ KnownInv /\ WellFormed(ctl) /\ Orderly(ctl)
      /\ SteersKnown
    BY DEF LostInv, TurnInv, KnownInv, SentInv
<1>2. /\ UNCHANGED <<srv, inputs, replies, notes, snap, buffered, runs, handedBack>>
      /\ ctl'.link = ctl.link
    BY DEF Writes
<1>3. CoreRuns' /\ StreamEnds' /\ SnapTells' /\ Drained'
    BY <1>1, <1>2 DEF CoreInvariant, CoreRuns, StreamEnds, SnapTells, Drained, Foreground
<1>4. \A p : InInputs(p)' <=> InInputs(p)
    BY <1>2 DEF InInputs
<1>5. ReturnedOnce'
  <2>1. handedBack \subseteq steerSent /\ steerSent \subseteq steerSent'
    BY <1>1 DEF CoreInvariant, ReturnedOnce, Writes
  <2>2. ASSUME NEW p \in Locals, SteerFrame(p)' \/ InInputs(p)'
        PROVE  p \notin handedBack /\ p \notin Returned(notes)
    <3>1. CASE SteerFrame(p) \/ InInputs(p)
        BY <1>1, <3>1 DEF CoreInvariant, ReturnedOnce
    <3>2. CASE SteerFrame(p)' /\ ~SteerFrame(p)
        BY <1>1, <2>1, <3>2 DEF Writes, SteersKnown
    <3> QED BY <1>4, <2>2, <3>1, <3>2
  <2>3. ASSUME NEW r \in replies, r.kind = "steer", r.result # "steered"
        PROVE  /\ ~SteerFrame(r.turn)' /\ ~InInputs(r.turn)' /\ r.turn \notin Returned(notes)
               /\ r.result = "fellback" => runs[r.turn] > 0 /\ srv[r.by] # "none"
    <3>1. r.turn \in steerSent
        BY <1>1, <2>3 DEF SteersKnown
    <3>2. PICK p : p = r.turn
        OBVIOUS
    <3>3. /\ ~SteerFrame(p) /\ ~InInputs(p) /\ p \notin Returned(notes)
          /\ r.result = "fellback" => runs[p] > 0 /\ srv[r.by] # "none"
        BY <1>1, <2>3, <3>2 DEF CoreInvariant, ReturnedOnce
    <3>4. ~SteerFrame(p)' /\ ~InInputs(p)'
        BY <1>4, <3>1, <3>2, <3>3 DEF Writes
    <3> QED BY <3>2, <3>3, <3>4 DEF SteerFrame, InInputs
  <2>4. \A r \in replies' : r.kind = "steer" /\ r.result # "steered" =>
          /\ ~SteerFrame(r.turn)' /\ ~InInputs(r.turn)' /\ r.turn \notin Returned(notes')
          /\ r.result = "fellback" => runs'[r.turn] > 0 /\ srv'[r.by] # "none"
    BY <1>2, <2>3
  <2>5. \A p \in Locals : SteerFrame(p)' \/ InInputs(p)' => p \notin handedBack' /\ p \notin Returned(notes')
    BY <1>2, <2>2
  <2>6. \A i, j \in DOMAIN notes' : \A p \in Locals :
          Returns(notes'[i], p) /\ Returns(notes'[j], p) => i = j
    BY <1>1, <1>2 DEF CoreInvariant, ReturnedOnce
  <2> QED BY <1>2, <2>1, <2>4, <2>5, <2>6 DEF ReturnedOnce, SteerFrame, InInputs
<1>6. CoreInvariant'
    BY <1>3, <1>5 DEF CoreInvariant
<1>7. KnownTurns' = KnownTurns /\ DoneTurns' = DoneTurns
    BY <1>2 DEF KnownTurns, DoneTurns
<1>8. Extends(View', View)
  <2>1. DeadTurns \subseteq DeadTurns'
    <3>1. \A x \in DeadTurns : srv'[x] = "none"
        BY <1>2 DEF DeadTurns
    <3>2. \A p \in Locals : StartFrame(p)' => StartFrame(p) \/ p \in Unsent(ctl)
        BY DEF Writes
    <3> QED BY <3>1, <3>2, DeadStay DEF Writes
  <2>2. Unanswered => Unanswered'
    BY <1>2 DEF Unanswered
  <2> QED BY <1>2, <1>7, <2>1, <2>2, SameStreamExtends
<1>9. ViewOf(ctl, View')
  <2>1. ctl.link = "ready" => OldTurns' \subseteq QuietTurns'
    BY <1>1, <1>2, <1>3, ReadyHasNoBufferNext
  <2>2. Unsent(ctl) \subseteq Unsent(ctl)
    OBVIOUS
  <2> QED BY <1>1, <1>2, <2>1, <2>2, ViewNext
<1>10. Tended(ctl, View')
    BY <1>1, <1>8, ExtendsTended DEF Watched
<1>11. SteerOwners(ctl') \subseteq SteerOwners(ctl) => SnapSteers'
  <2>1. OldTurns \subseteq OldTurns' /\ QuietTurns \subseteq QuietTurns'
    BY <1>8 DEF Extends, View
  <2> QED BY <1>1, <1>2, <2>1 DEF Watched, SnapSteers
<1> QED BY <1>1, <1>6, <1>8, <1>9, <1>10, <1>11

LEMMA DispatchLost ==
    ASSUME LostInv, TurnInv', NEW t \in Locals, Dispatch(t)
    PROVE  LostInv'
<1>1. /\ ctl.startReq = t /\ ctl.stage = "preflight" /\ ctl' = MarkSent(ctl, t)
      /\ wire' = wire \cup {[kind |-> "start", turn |-> t]} /\ ctl.link = "ready"
      /\ UNCHANGED <<srv, inputs, replies, notes, snap, buffered, runs, admitted, gone, steerSent,
                     orphaned, handedBack>>
    BY DEF Dispatch, InPreflight
<1>2. /\ TypeOK /\ Watched /\ WellFormed(ctl) /\ NoPromptLost
    BY <1>1 DEF LostInv, TurnInv, KnownInv, SentInv
<1>3. Rests(ctl, ctl') /\ Keeps(ctl, ctl')
    BY <1>1, <1>2, QuietHandlersRest, MarkSentKeeps DEF Turns
<1>4. \A m \in wire' : m \in wire \/ (m.kind = "start" /\ m.turn = t)
    BY <1>1
<1>5. Writes
  <2>1. \A p : SteerFrame(p)' => SteerFrame(p)
    BY <1>4 DEF SteerFrame
  <2>2. \A p : StartFrame(p)' => StartFrame(p) \/ p = t
    BY <1>4 DEF StartFrame
  <2>3. t \in Unsent(ctl)
    BY <1>1 DEF Unsent, Turns
  <2> QED BY <1>1, <1>3, <2>1, <2>2, <2>3 DEF Writes, Keeps
<1>6. /\ CoreInvariant' /\ Extends(View', View) /\ Tended(ctl, View')
      /\ (SteerOwners(ctl') \subseteq SteerOwners(ctl) => SnapSteers')
    BY <1>1, <1>5, WritesView
<1>7. Tended(ctl', View')
    BY <1>3, <1>6, RestsTended
<1>8. /\ ctl'.retained = ctl.retained /\ ctl'.steerReq = ctl.steerReq /\ ctl'.steerOwner = ctl.steerOwner
      /\ SteerOwners(ctl') = SteerOwners(ctl) /\ RetainedTurns(ctl') = RetainedTurns(ctl)
      /\ QueuedIds(ctl'.q) = QueuedIds(ctl.q) /\ ctl.composer \subseteq ctl'.composer
      /\ ctl'.steerAdmitted = ctl.steerAdmitted /\ ctl'.link = "ready"
    BY <1>1, <1>3 DEF Rests, SteerOwners, RetainedTurns, QueuedIds, Keeps
<1>9. Cared'
    BY <1>1, <1>2, <1>4, <1>8 DEF Watched, Cared, KeptFor, Foreground
<1>10. KeptIsReturned' /\ Aimed'
    BY <1>1, <1>2, <1>8 DEF Watched, KeptIsReturned, Aimed
<1>11. FellBackLast'
  <2>1. DoneTurns \subseteq DoneTurns' /\ Precedes \subseteq Precedes'
    BY <1>6 DEF Extends, View
  <2> QED BY <1>1, <1>2, <1>8, <2>1 DEF Watched, FellBackLast
<1>12. NoPromptLost'
    BY <1>1, <1>2, <1>8 DEF NoPromptLost
<1> QED BY <1>6, <1>7, <1>8, <1>9, <1>10, <1>11, <1>12 DEF LostInv, Watched

\* The frame of a steer is written: from here on Core may hold the text.
LEMMA SteerSentLost ==
    ASSUME LostInv, TurnInv', SteerDispatch, MaySendSteer(ctl)
    PROVE  LostInv'
<1>1. PICK t : t = ctl.steerReq
    OBVIOUS
<1>2. /\ t # NoTurn /\ t \notin steerSent /\ ctl' = UpdateSteer(ctl, t, "sent") /\ ctl.link = "ready"
      /\ wire' = wire \cup {[kind |-> "steer", turn |-> t, to |-> ctl.steerOwner]}
      /\ steerSent' = steerSent \cup {t}
      /\ UNCHANGED <<srv, inputs, replies, notes, snap, buffered, runs, admitted, gone, orphaned, handedBack>>
    BY <1>1 DEF SteerDispatch, MaySendSteer
<1>3. /\ TypeOK /\ Watched /\ WellFormed(ctl) /\ Orderly(ctl) /\ NoPromptLost /\ CoreInvariant /\ SteersKnown
    BY <1>2 DEF LostInv, TurnInv, KnownInv, SentInv
<1>4. /\ ctl'.link = ctl.link /\ ctl'.q = ctl.q /\ ctl'.steerReq = ctl.steerReq
      /\ Sending(ctl, ctl', t) /\ Keeps(ctl, ctl')
    BY <1>2, <1>3, UpdateSteerOrders, UpdateSteerKeeps
<1>5. ctl'.steerOwner = ctl.steerOwner
    BY <1>2, <1>3 DEF UpdateSteer, WellFormed, Controllers
<1>6. \A m \in wire' : m \in wire \/ (m.kind = "steer" /\ m.turn = t /\ m.to = ctl.steerOwner)
    BY <1>2
<1>7. Writes
  <2>1. \A p : SteerFrame(p)' /\ ~SteerFrame(p) => p = t
    BY <1>6 DEF SteerFrame
  <2>2. \A p : StartFrame(p)' => StartFrame(p)
    BY <1>6 DEF StartFrame
  <2> QED BY <1>2, <1>4, <2>1, <2>2 DEF Writes, Keeps
<1>8. /\ CoreInvariant' /\ Extends(View', View) /\ ViewOf(ctl, View') /\ Tended(ctl, View')
      /\ (SteerOwners(ctl') \subseteq SteerOwners(ctl) => SnapSteers')
    BY <1>2, <1>7, WritesView
<1>9. /\ Tended(ctl', View') /\ ctl'.composer = ctl.composer
      /\ \A e \in ctl.retained : \E g \in ctl'.retained : Updated(e, g, t, "sent")
      /\ \A g \in ctl'.retained : \E e \in ctl.retained : Updated(e, g, t, "sent")
    BY <1>2, <1>3, <1>8, UpdateSteerTended
<1>10. SteerOwners(ctl') = SteerOwners(ctl) /\ RetainedTurns(ctl') = RetainedTurns(ctl)
    BY <1>9 DEF SteerOwners, RetainedTurns, Updated
<1>11. \A p, x : KeptFor(p, x) => \E e \in ctl'.retained : e.turn = p /\ e.owner = x /\ e.sent
  <2>1. \A e, g : Updated(e, g, t, "sent") /\ e.sent => g.turn = e.turn /\ g.owner = e.owner /\ g.sent
    BY Zenon DEF Updated
  <2> QED BY <1>9, <2>1 DEF KeptFor
<1>12. Cared'
  <2>1. Foreground' = Foreground /\ Cared
    BY <1>2, <1>3 DEF Foreground, Watched
  <2>2. \E e \in ctl'.retained : e.turn = t /\ e.owner = ctl.steerOwner /\ e.sent
    <3>1. PICK e \in ctl.retained : e.turn = ctl.steerReq /\ e.owner = ctl.steerOwner
        BY <1>1, <1>2, <1>3 DEF Watched, Aimed
    <3>2. \A g : Updated(e, g, t, "sent") => g.turn = t /\ g.owner = ctl.steerOwner /\ g.sent
        BY <1>1, <3>1, Zenon DEF Updated
    <3> QED BY <1>9, <3>1, <3>2
  <2>3. \A m \in wire' : m.kind = "steer" /\ m.turn \notin orphaned' /\ srv'[m.to] # "done"
           => \E e \in ctl'.retained : e.turn = m.turn /\ e.owner = m.to /\ e.sent
    BY <1>2, <1>6, <1>11, <2>1, <2>2 DEF Cared
  <2>4. \A i \in DOMAIN inputs : inputs[i] \notin orphaned
           => \E x \in Foreground : \E e \in ctl'.retained : e.turn = inputs[i] /\ e.owner = x /\ e.sent
    BY <1>11, <2>1 DEF Cared
  <2>5. \A i \in DOMAIN notes : \A p \in handedBack : Returns(notes[i], p)
           => \E e \in ctl'.retained : e.turn = p /\ e.owner = notes[i].turn /\ e.sent
    BY <1>11, <2>1 DEF Cared
  <2> QED BY <1>2, <2>1, <2>3, <2>4, <2>5 DEF Cared, KeptFor
<1>13. KeptIsReturned'
    BY <1>2, <1>3, <1>9 DEF Watched, KeptIsReturned, Updated
<1>14. Aimed'
  <2>1. \A e \in ctl'.retained : e.sent => e.turn \in steerSent'
    <3>1. \A e, g : Updated(e, g, t, "sent") /\ g.sent => g.turn = e.turn /\ (e.sent \/ e.turn = t)
        BY Zenon DEF Updated
    <3>2. \A e \in ctl.retained : e.sent => e.turn \in steerSent
        BY <1>3 DEF Watched, Aimed
    <3> QED BY <1>2, <1>9, <3>1, <3>2
  <2> QED BY <1>1, <1>2, <1>4, <2>1 DEF Aimed
<1>15. FellBackLast'
  <2>1. DoneTurns \subseteq DoneTurns' /\ Precedes \subseteq Precedes'
    BY <1>8 DEF Extends, View
  <2> QED BY <1>2, <1>3, <1>4, <1>10, <2>1 DEF Watched, FellBackLast
<1>16. NoPromptLost'
  <2>1. ctl'.steerAdmitted = ctl.steerAdmitted
    BY <1>4 DEF Keeps
  <2> QED BY <1>2, <1>3, <1>4, <1>9, <1>10, <2>1 DEF NoPromptLost
<1> QED BY <1>2, <1>4, <1>8, <1>9, <1>10, <1>12, <1>13, <1>14, <1>15, <1>16 DEF LostInv, Watched

LEMMA ClientLost ==
    ASSUME LostInv, Client, ctl.link # "closed"
    PROVE  LostInv'
<1>1. TurnInv' /\ WellFormed(ctl) /\ Orderly(ctl) /\ TurnInv
    BY ClientTurn DEF LostInv, TurnInv, KnownInv, SentInv
<1>2. ASSUME NEW t \in Locals, PreflightEndsNotReady(t) \/ SeatRefused(t) PROVE LostInv'
  <2>1. /\ ctl.startReq = t /\ ctl.stage = "preflight" /\ StartCurrent(ctl, t) /\ t \in Turns
        /\ ctl.link \notin {"closed", "draining"} /\ admitted' = admitted
        /\ ctl' = StartRefused(ctl, t) \/ ctl' = PreflightNotReady(ctl, t)
    BY <1>2 DEF PreflightEndsNotReady, SeatRefused, InPreflight, Yielded, history, Turns
  <2>2. Orders(ctl, ctl') /\ Keeps(ctl, ctl')
    BY <1>1, <2>1, StartRefusedOrders, StartRefusedKeeps, PreflightNotReadyOrders, PreflightNotReadyKeeps
       DEF StartCurrent
  <2>3. Plain
    BY <1>2, <2>2 DEF PreflightEndsNotReady, SeatRefused, Plain, Consumes, channels, history, Orders
  <2>4. t \in Unsent(ctl) /\ ctl.local = t
    BY <1>1, <2>1 DEF Unsent, Orderly, Leased
  <2>5. srv[t] = "none" /\ ~StartFrame(t)
    <3>1. sends[t] = 0 /\ srv[t] = "none"
        BY <1>1, <2>1, <2>4, UnsentUnknown DEF TurnInv
    <3> QED BY <1>1, <3>1 DEF TurnInv, KnownInv, StartsKnow, StartFrame
  <2> QED BY <1>1, <2>1, <2>3, <2>4, <2>5, RefusedLost
<1>3. ASSUME NEW t \in Locals, StartTimeout(t) PROVE LostInv'
  <2>1. ctl' = StartUnconfirmed(ctl, t) /\ admitted' = admitted /\ t \in Turns
    BY <1>3 DEF StartTimeout, history, Turns
  <2>2. Orders(ctl, ctl') /\ Keeps(ctl, ctl') /\ Rests(ctl, ctl')
    BY <1>1, <2>1, StartUnconfirmedOrders, StartUnconfirmedKeeps, QuietHandlersRest
  <2>3. Plain
    BY <1>3, <2>2 DEF StartTimeout, Plain, Consumes, channels, history, Orders
  <2> QED BY <1>1, <2>1, <2>2, <2>3, RestMoved
<1>4. CASE SteerDispatch /\ ~MaySendSteer(ctl)
  <2>1. /\ Consumes /\ runs' = runs /\ ctl.steerReq # NoTurn /\ ctl' = SteerNotAdmitted(ctl)
        /\ UNCHANGED <<notes, snap, buffered, orphaned, handedBack, gone, admitted>>
        /\ ctl.steerReq \notin steerSent
    BY <1>4 DEF SteerDispatch, Consumes
  <2>2. ~SteerFrame(ctl.steerReq) /\ ~InInputs(ctl.steerReq) /\ ctl.steerReq \notin Returned(notes)
    BY <1>1, <2>1 DEF TurnInv, StillFresh, Fresh, SteersKnown
  <2> QED BY <1>1, <2>1, <2>2, SteerNotAdmittedLost
<1>5. CASE SteerTimeout
  <2>1. /\ Consumes /\ runs' = runs /\ ctl.steerReq \in steerSent /\ ctl' = SteerUnconfirmed(ctl)
        /\ UNCHANGED <<notes, snap, buffered, orphaned, handedBack, gone, admitted>>
    BY <1>5 DEF SteerTimeout, Consumes, channels, history
  <2>2. ctl.steerReq # NoTurn
    BY <1>1, <2>1, TurnsAssumption DEF TurnInv, KnownInv, SentInv, TypeOK
  <2> QED BY <1>1, <2>1, <2>2, SteerEndsLost
<1>6. ASSUME NEW b \in BOOLEAN, InterruptReply(b) \/ OwnerInteraction(b) PROVE LostInv'
  <2>1. Orders(ctl, ctl') /\ Keeps(ctl, ctl') /\ Rests(ctl, ctl')
    <3>1. CASE InterruptReply(b)
        BY <1>1, <3>1, InterruptOrders, InterruptKeeps, QuietHandlersRest DEF InterruptReply
    <3>2. CASE OwnerInteraction(b)
        BY <1>1, <3>2, SetAcceptedOwnerInteractionOrders, SetAcceptedOwnerInteractionKeeps,
           QuietHandlersRest DEF OwnerInteraction
    <3> QED BY <1>6, <3>1, <3>2
  <2>2. Plain /\ admitted' = admitted
    BY <1>6, <2>1 DEF InterruptReply, OwnerInteraction, Plain, Consumes, channels, history, Orders
  <2> QED BY <1>1, <2>1, <2>2, RestMoved
<1> QED BY <1>1, <1>2, <1>3, <1>4, <1>5, <1>6, DispatchLost, StartReplyLost, SteerReplyLost,
           SteerSentLost, LookupReplyLost DEF Client
-----------------------------------------------------------------------------
(* Transport and recovery *)

\* The stream was cut.
LEMMA CutView ==
    ASSUME LostInv, TurnInv', ctl.link # "closed", ctl'.link # "ready", Consumes, CutStream,
           runs' = runs, Unsent(ctl') \subseteq Unsent(ctl)
    PROVE  /\ CoreInvariant' /\ Extends(View', View) /\ ViewOf(ctl, View') /\ Tended(ctl, View') /\ Cut
           /\ View'.old = View'.done
<1>1. /\ TypeOK /\ CoreInvariant /\ Watched /\ KnownInv
    BY DEF LostInv, TurnInv, KnownInv, SentInv
<1>2. /\ srv' = srv /\ notes' = <<>> /\ snap' = NoSnap /\ handedBack' \subseteq handedBack /\ Cut
    BY DEF CutStream, Consumes, Cut
<1>3. CoreInvariant'
    BY <1>1, <1>2, ConsumesCore DEF Drained
<1>4. DeadTurns \subseteq DeadTurns'
    BY <1>1, ConsumesDead
<1>5. Extends(View', View) /\ QuietTurns' = DoneTurns' /\ OldTurns' = DoneTurns'
    BY <1>2, <1>4, CutExtends
<1>6. ViewOf(ctl, View')
  <2>1. OldTurns' \subseteq QuietTurns' /\ Unsent(ctl) \subseteq Unsent(ctl)
    BY <1>5
  <2> QED BY <1>1, <1>2, <2>1, ViewNext
<1>7. Tended(ctl, View')
    BY <1>1, <1>5, ExtendsTended DEF Watched
<1> QED BY <1>2, <1>3, <1>5, <1>6, <1>7 DEF View

LEMMA CutMoved ==
    ASSUME LostInv, TurnInv', ctl.link # "closed", ctl'.link \notin {"closed", "ready"}, Consumes,
           CutStream, UNCHANGED <<runs, gone, admitted>>, Unsent(ctl') \subseteq Unsent(ctl),
           Holds(ctl, ctl'), ctl'.steerReq \in {ctl.steerReq, NoTurn},
           ctl'.steerOwner \in {ctl.steerOwner, NoTurn}, ctl'.steerAdmitted = ctl.steerAdmitted,
           Tended(ctl', View'), NEW O, NEW M, Spares(ctl, ctl', {}, O, M),
           ctl'.steerReq \in M => ctl'.steerReq = NoTurn
    PROVE  LostInv'
<1>1. CoreInvariant' /\ Extends(View', View) /\ Cut
    BY CutView
<1>2. /\ gone \subseteq gone' /\ orphaned \subseteq orphaned' /\ handedBack' \subseteq handedBack
      /\ MayPass({})
    BY DEF CutStream, MayPass
<1>3. \A p \in handedBack' : p \in Returned(notes) => p \in Returned(notes') \cup QueuedIds(ctl'.q)
    BY DEF CutStream
<1>4. \A i \in DOMAIN admitted' :
         admitted'[i] \in QueuedIds(ctl'.q) \/ \E j \in DOMAIN admitted : admitted[j] = admitted'[i]
    OBVIOUS
<1>5. ctl'.steerReq \in M => ctl'.steerReq \in steerSent \cup {NoTurn}
    OBVIOUS
<1> QED BY <1>1, <1>2, <1>3, <1>4, <1>5, ClientMoved

\* Unsent text is queued again, what was sent is reported as unconfirmed.
LEMMA SuspendLost ==
    ASSUME LostInv, TurnInv', ctl.link # "closed", Consumes, UNCHANGED <<runs, gone, admitted>>,
           NEW l \in {"down", "opening"}, Suspend(l)
    PROVE  LostInv'
<1> DEFINE d == SuspendTransport(ctl)
<1>1. WellFormed(ctl) /\ Orderly(ctl) /\ CutStream
    BY DEF LostInv, TurnInv, KnownInv, SentInv, Suspend
<1>2. ctl' = [d EXCEPT !.link = l, !.lookup = IF l = "down" THEN NoTurn ELSE @]
    BY DEF Suspend
<1>3. Keeps(ctl, d)
    BY <1>1, SuspendTransportKeeps
<1>4. d.retained = {} /\ d.steerReq = NoTurn
    BY <1>1, SuspendTransportOrders
<1> HIDE DEF d
<1>5. /\ ctl'.link = l /\ ctl'.retained = {} /\ ctl'.steerReq = NoTurn /\ ctl'.steerOwner = d.steerOwner
      /\ ctl'.steerAdmitted = d.steerAdmitted /\ ctl'.attempted = d.attempted
      /\ ctl'.preflight = d.preflight /\ ctl'.startReq = d.startReq /\ ctl'.stage = d.stage
    BY <1>2, <1>3, <1>4 DEF Keeps, WellFormed, Controllers
<1>6. /\ Unsent(ctl') \subseteq Unsent(ctl) /\ Holds(ctl, ctl')
      /\ ctl'.steerOwner \in {ctl.steerOwner, NoTurn} /\ ctl'.steerAdmitted = ctl.steerAdmitted
    BY <1>3, <1>5 DEF Keeps, Unsent, Holds
<1>7. ctl'.link \notin {"closed", "ready"}
    BY <1>5
<1>8. ViewOf(ctl, View') /\ Tended(ctl, View')
    BY <1>1, <1>6, <1>7, CutView
<1>9. PICK M : M = {ctl.steerReq}
    OBVIOUS
<1>10. Tended(ctl', View') /\ Spares(ctl, ctl', {}, Turns, M)
    BY <1>1, <1>2, <1>8, <1>9, SuspendTended DEF d
<1> QED BY <1>1, <1>5, <1>6, <1>7, <1>10, CutMoved

\* The link alone changes.
LEMMA RelinkedFields ==
    ASSUME WellFormed(ctl), NEW l, ctl' = [ctl EXCEPT !.link = l]
    PROVE  /\ ctl'.link = l /\ ctl'.q = ctl.q /\ ctl'.retained = ctl.retained
           /\ ctl'.steerReq = ctl.steerReq /\ ctl'.steerOwner = ctl.steerOwner
           /\ ctl'.steerAdmitted = ctl.steerAdmitted /\ ctl'.composer = ctl.composer
           /\ Unsent(ctl') = Unsent(ctl) /\ Holds(ctl, ctl')
BY DEF WellFormed, Controllers, Unsent, Holds

LEMMA RecoveryFailsLost ==
    ASSUME LostInv, TurnInv', ReopenFails \/ GapFails
    PROVE  LostInv'
<1>1. /\ Consumes /\ CutStream /\ UNCHANGED <<runs, gone, admitted>>
      /\ ctl.link \in {"opening", "recovering"}
    BY DEF ReopenFails, GapFails, CutStream, Consumes
<1>2. PICK l \in {"faulted", "down", "deaf"} :
         ctl' = [ctl EXCEPT !.link = l] /\ (ctl.link = "recovering" => l = "deaf")
    BY DEF ReopenFails, GapFails
<1>3. WellFormed(ctl)
    BY DEF LostInv, TurnInv, KnownInv, SentInv
<1>4. /\ ctl'.link = l /\ ctl'.q = ctl.q /\ ctl'.retained = ctl.retained
      /\ ctl'.steerReq = ctl.steerReq /\ ctl'.steerOwner = ctl.steerOwner
      /\ ctl'.steerAdmitted = ctl.steerAdmitted
      /\ Unsent(ctl') = Unsent(ctl) /\ Holds(ctl, ctl')
    BY <1>2, <1>3, RelinkedFields
<1>5. ctl.link # "closed" /\ ctl'.link \notin {"closed", "ready"} /\ Unsent(ctl') \subseteq Unsent(ctl)
    BY <1>1, <1>4
<1>6. ViewOf(ctl, View') /\ Tended(ctl, View') /\ View'.old = View'.done
    BY <1>1, <1>5, CutView
<1>7. ctl.retained # {} => l = "deaf"
    BY <1>1, <1>2, <1>6 DEF Tended, Sound
<1>8. Recovering(ctl) => SteerOwners(ctl) \subseteq View'.old
    BY <1>1, <1>6 DEF Tended, Tends
<1>9. Tended(ctl', View') /\ Spares(ctl, ctl', {}, {}, {})
    BY <1>2, <1>3, <1>6, <1>7, <1>8, RelinkTended
<1> QED BY <1>1, <1>4, <1>5, <1>9, CutMoved

\* A gap on a live transport: the stream goes on, and the next hydrate comes after it.
LEMMA GapLost ==
    ASSUME LostInv, TurnInv', Gap
    PROVE  LostInv'
<1>1. /\ Consumes /\ UNCHANGED <<notes, snap, runs, gone, admitted, orphaned, handedBack>>
      /\ ctl.link \in {"draining", "ready", "faulted"} /\ ctl' = [ctl EXCEPT !.link = "recovering"]
    BY DEF Gap, Consumes, history
<1>2. WellFormed(ctl) /\ TypeOK /\ CoreInvariant /\ Watched
    BY <1>1 DEF LostInv, TurnInv, KnownInv, SentInv
<1>3. /\ ctl'.link = "recovering" /\ ctl'.q = ctl.q /\ ctl'.retained = ctl.retained
      /\ ctl'.steerReq = ctl.steerReq /\ ctl'.steerOwner = ctl.steerOwner
      /\ ctl'.steerAdmitted = ctl.steerAdmitted
      /\ Unsent(ctl') = Unsent(ctl) /\ Holds(ctl, ctl')
    BY <1>1, <1>2, RelinkedFields
<1>4. snap' = NoSnap /\ Unanswered'
    BY <1>1, <1>2, <1>3 DEF CoreInvariant, SnapTells, Unanswered
<1>5. CoreInvariant'
    BY <1>1, <1>2, <1>3, <1>4, ConsumesCore DEF Drained
<1>6. /\ KnownTurns' = KnownTurns /\ DoneTurns' = DoneTurns
    BY <1>1 DEF KnownTurns, DoneTurns, Consumes
<1>7. Extends(View', View) /\ View'.old = View'.done
  <2>1. QuietTurns' = QuietTurns /\ UnowedTurns' = UnowedTurns /\ Precedes' = Precedes
    BY <1>1, <1>6 DEF QuietTurns, UnowedTurns, Owed, Precedes
  <2>2. OldTurns' = DoneTurns' /\ OldTurns \subseteq DoneTurns
    BY <1>4 DEF OldTurns
  <2>3. DeadTurns \subseteq DeadTurns'
    BY <1>1, <1>2, <1>3, ConsumesDead
  <2> QED BY <1>6, <2>1, <2>2, <2>3, ViewExtends DEF View
<1>8. Tended(ctl, View')
    BY <1>2, <1>7, <1>1, ExtendsTended DEF Watched
<1>9. Recovering(ctl) => SteerOwners(ctl) \subseteq View'.old
  <2>1. View'.quiet \subseteq View'.done
    BY DEF View, QuietTurns
  <2> QED BY <1>7, <1>8, <2>1 DEF Tended, Tends
<1>10. Tended(ctl', View') /\ Spares(ctl, ctl', {}, {}, {})
    BY <1>1, <1>2, <1>8, <1>9, RelinkTended
<1>11. /\ MayPass({}) /\ MayMake({}) /\ {} \subseteq Released /\ ctl'.steerReq \notin {}
       /\ gone \subseteq gone' /\ orphaned \subseteq orphaned' /\ handedBack' \subseteq handedBack
       /\ ctl.link # "closed" /\ ctl'.link # "closed"
    BY <1>1, <1>3 DEF MayPass, MayMake
<1>12. \A p \in handedBack' : p \in Returned(notes) => p \in Returned(notes') \cup QueuedIds(ctl'.q)
    BY <1>1
<1>13. \A i \in DOMAIN admitted' :
         admitted'[i] \in QueuedIds(ctl'.q) \/ \E j \in DOMAIN admitted : admitted[j] = admitted'[i]
    BY <1>1
<1> QED BY <1>1, <1>3, <1>5, <1>7, <1>10, <1>11, <1>12, <1>13, ClientMoved

\* Core answers the hydrate, after every event that is in the stream.
LEMMA AnswerHydrateLost ==
    ASSUME LostInv, TurnInv', AnswerHydrate
    PROVE  LostInv'
<1>1. /\ ctl.link \in {"opening", "recovering"} /\ snap = NoSnap /\ snap' \in HydrateAnswers
      /\ buffered' = Len(notes)
      /\ UNCHANGED <<ctl, srv, inputs, wire, replies, notes, runs, admitted, gone, steerSent,
                     orphaned, handedBack>>
    BY DEF AnswerHydrate, history
<1>2. /\ TypeOK /\ Watched /\ CoreInvariant /\ NoPromptLost
    BY <1>1 DEF LostInv, TurnInv, KnownInv, SentInv
<1>3. KnownTurns' = KnownTurns /\ DoneTurns' = DoneTurns
    BY <1>1 DEF KnownTurns, DoneTurns
<1>4. OldTurns' = DoneTurns' /\ OldTurns \subseteq DoneTurns
  <2>1. \A i \in DOMAIN notes' : i <= buffered'
    BY <1>1, <1>2 DEF TypeOK
  <2> QED BY <2>1 DEF OldTurns
<1>5. QuietTurns' = QuietTurns /\ UnowedTurns' = UnowedTurns /\ Precedes' = Precedes
    BY <1>1, <1>3 DEF QuietTurns, UnowedTurns, Owed, Precedes
<1>6. DeadTurns' = DeadTurns
    BY <1>1 DEF DeadTurns, StartFrame
<1>7. Extends(View', View)
    BY <1>3, <1>4, <1>5, <1>6, ViewExtends
<1>8. Tended(ctl', View')
    BY <1>1, <1>2, <1>7, ExtendsTended DEF Watched
<1>9. \A t \in Turns : \/ snap'[t] = (IF srv[t] = "none" THEN "absent" ELSE srv[t])
                       \/ MayForget(t) /\ snap'[t] = "absent"
    BY <1>1 DEF HydrateAnswers
<1>10. \A t \in Turns : srv[t] \in {"none", "active", "interrupting", "done"}
    BY <1>2 DEF TypeOK
<1>11. SnapTells'
  <2>1. \A t \in Turns : snap'[t] # "none" /\ (snap'[t] = "done" => srv'[t] = "done")
    BY <1>1, <1>9, <1>10
  <2>2. \A x \in ServerForeground(snap') : x \in Foreground
    BY <1>9, <1>10 DEF ServerForeground, Foreground
  <2>3. \A x, y \in ServerForeground(snap') : x = y
    BY <1>2, <2>2 DEF CoreInvariant, CoreRuns
  <2> QED BY <1>1, <2>1, <2>3 DEF SnapTells
<1>12. CoreRuns' /\ StreamEnds' /\ Drained'
    BY <1>1, <1>2 DEF CoreInvariant, CoreRuns, StreamEnds, Drained, Foreground
<1>13. ReturnedOnce'
    BY <1>1, <1>2 DEF CoreInvariant, ReturnedOnce, SteerFrame, InInputs
<1>14. Cared' /\ KeptIsReturned' /\ Aimed'
    BY <1>1, <1>2 DEF Watched, Cared, KeptFor, KeptIsReturned, Aimed, Foreground
<1>15. FellBackLast'
    BY <1>1, <1>2, <1>3, <1>5 DEF Watched, FellBackLast
<1>16. SnapSteers'
  <2> SUFFICES ASSUME NEW x \in SteerOwners(ctl)
               PROVE  /\ snap'[x] \in {"done", "absent"} => x \in OldTurns'
                      /\ snap'[x] = "absent" => x \in QuietTurns'
    BY <1>1 DEF SnapSteers
  <2>1. x \in Turns /\ srv[x] # "none"
    BY <1>2 DEF Watched, Tended, Tends, View, KnownTurns
  <2>2. snap'[x] \in {"done", "absent"} => srv[x] = "done"
    BY <1>9, <1>10, <2>1 DEF MayForget
  <2>3. snap'[x] = "absent" => \A i \in DOMAIN notes : notes[i].turn # x
    BY <1>9, <1>10, <2>1 DEF MayForget
  <2> QED BY <1>3, <1>4, <1>5, <2>1, <2>2, <2>3 DEF DoneTurns, QuietTurns
<1>17. NoPromptLost'
    BY <1>1, <1>2 DEF NoPromptLost
<1>18. CoreInvariant' /\ Watched'
    BY <1>8, <1>11, <1>12, <1>13, <1>14, <1>15, <1>16 DEF CoreInvariant, Watched
<1> QED BY <1>1, <1>17, <1>18 DEF LostInv

\* The controller is relinked, the stream stays, and the new link is one with a stream.
Relinks ==
    /\ Consumes /\ runs' = runs
    /\ UNCHANGED <<notes, buffered, gone, admitted, orphaned, handedBack>> /\ snap' = NoSnap
    /\ ctl.link # "closed" /\ ctl'.link \in {"draining", "ready"} /\ (Unanswered => Unanswered')
    /\ Drained'
    /\ Unsent(ctl') \subseteq Unsent(ctl) /\ Holds(ctl, ctl')
    /\ ctl'.steerReq \in {ctl.steerReq, NoTurn}
    /\ ctl'.steerOwner \in {ctl.steerOwner, NoTurn} /\ ctl'.steerAdmitted = ctl.steerAdmitted

LEMMA RelinksView ==
    ASSUME LostInv, TurnInv', Relinks
    PROVE  /\ CoreInvariant' /\ Extends(View', View) /\ Tended(ctl, View')
           /\ KnownTurns' = KnownTurns /\ DoneTurns' = DoneTurns
           /\ OldTurns \subseteq OldTurns' /\ QuietTurns \subseteq QuietTurns'
<1>1. /\ TypeOK /\ CoreInvariant /\ Watched /\ KnownInv
    BY DEF LostInv, TurnInv, KnownInv, SentInv, Relinks
<1>2. CoreInvariant'
    BY <1>1, ConsumesCore DEF Relinks
<1>3. KnownTurns' = KnownTurns /\ DoneTurns' = DoneTurns
    BY DEF KnownTurns, DoneTurns, Relinks, Consumes
<1>4. DeadTurns \subseteq DeadTurns'
    BY <1>1, ConsumesDead DEF Relinks
<1>5. Extends(View', View)
    BY <1>3, <1>4, SameStreamExtends DEF Relinks
<1>6. Tended(ctl, View')
    BY <1>1, <1>5, ExtendsTended DEF Watched
<1> QED BY <1>2, <1>3, <1>5, <1>6 DEF Extends, View

LEMMA RelinksMoved ==
    ASSUME LostInv, TurnInv', Relinks, Tended(ctl', View'), NEW T, MayPass(T),
           Spares(ctl, ctl', T, {}, {})
    PROVE  LostInv'
<1>1. CoreInvariant' /\ Extends(View', View)
    BY RelinksView
<1>2. /\ Consumes /\ runs' = runs /\ ctl.link # "closed" /\ ctl'.link # "closed"
      /\ Holds(ctl, ctl') /\ ctl'.steerReq \in {ctl.steerReq, NoTurn}
      /\ ctl'.steerOwner \in {ctl.steerOwner, NoTurn} /\ ctl'.steerAdmitted = ctl.steerAdmitted
      /\ gone \subseteq gone' /\ orphaned \subseteq orphaned' /\ handedBack' \subseteq handedBack
      /\ MayMake({}) /\ {} \subseteq Released /\ ctl'.steerReq \notin {}
    BY DEF Relinks, MayMake
<1>3. \A p \in handedBack' : p \in Returned(notes) => p \in Returned(notes') \cup QueuedIds(ctl'.q)
    BY DEF Relinks
<1>4. \A i \in DOMAIN admitted' :
         admitted'[i] \in QueuedIds(ctl'.q) \/ \E j \in DOMAIN admitted : admitted[j] = admitted'[i]
    BY DEF Relinks
<1> QED BY <1>1, <1>2, <1>3, <1>4, ClientMoved

\* The ready event: the one drain of the queue.
LEMMA ReadyLost ==
    ASSUME LostInv, TurnInv', Ready
    PROVE  LostInv'
<1> DEFINE d == [ctl EXCEPT !.link = "ready"]
<1>1. WellFormed(ctl) /\ Orderly(ctl) /\ TypeOK' /\ CoreInvariant /\ KnownInv /\ ctl.link = "draining"
    BY DEF LostInv, TurnInv, KnownInv, SentInv, Ready
<1>2. /\ WellFormed(d) /\ d.link = "ready" /\ d.q = ctl.q /\ d.retained = ctl.retained
      /\ d.composer = ctl.composer /\ d.steerReq = ctl.steerReq /\ d.steerOwner = ctl.steerOwner
      /\ d.steerAdmitted = ctl.steerAdmitted /\ Unsent(d) = Unsent(ctl)
  <2>1. WellFormed(d) /\ Unsent(d) = Unsent(ctl)
    BY <1>1, RelinkKeeps DEF Links
  <2>2. ctl \in Controllers
    BY <1>1 DEF WellFormed
  <2> QED BY <2>1, <2>2, RelinkSame
<1>3. Orders(ctl, d)
    BY <1>1, RelinkOrders DEF Links
<1>4. d = [ctl EXCEPT !.link = "ready"] /\ ctl' = StartTurn(d, Active(d))
    BY DEF Ready, ResumePendingTurn
<1> HIDE DEF d
<1>5. Orderly(d) /\ Orders(d, ctl') /\ Keeps(d, ctl')
    BY <1>2, <1>3, <1>4, StartTurnOrders, StartTurnKeeps DEF Orders
<1>6. Orders(ctl, ctl')
    BY <1>3, <1>5, OrdersTransitive
<1>7. /\ Unsent(ctl') \subseteq Unsent(ctl) /\ ctl'.link = "ready" /\ ctl'.steerAdmitted = ctl.steerAdmitted
      /\ ctl'.steerOwner \in {ctl.steerOwner, NoTurn}
    BY <1>2, <1>5 DEF Keeps
<1>8. Relinks
  <2>1. Consumes /\ runs' = runs /\ buffered' = 0
        /\ UNCHANGED <<notes, snap, buffered, gone, admitted, orphaned, handedBack>>
    BY DEF Ready, Consumes, channels, history
  <2>2. snap = NoSnap
    BY <1>1 DEF CoreInvariant, SnapTells
  <2> QED BY <1>1, <1>6, <1>7, <2>1, <2>2 DEF Relinks, Orders, Drained, Unanswered
<1>9. Tended(ctl, View') /\ CoreInvariant'
    BY <1>8, RelinksView
<1>10. ViewOf(d, View')
  <2>1. OldTurns' \subseteq QuietTurns'
    BY <1>1, <1>7, <1>9, ReadyHasNoBufferNext DEF CoreInvariant
  <2> QED BY <1>1, <1>2, <1>8, <2>1, ViewNext DEF Relinks, Consumes
<1>11. Tended(d, View') /\ Spares(ctl, d, {}, {}, {})
    BY <1>1, <1>4, <1>9, RelinkTended
<1>12. PICK t : t = Active(d)
    OBVIOUS
<1>13. Tended(ctl', View') /\ Spares(d, ctl', {}, {}, {})
    BY <1>2, <1>4, <1>5, <1>10, <1>11, <1>12, StartTurnTended
<1>14. Spares(ctl, ctl', {}, {}, {})
    BY <1>11, <1>13, SparesTransitive
<1>15. MayPass({})
    BY DEF MayPass
<1> QED BY <1>8, <1>13, <1>14, <1>15, RelinksMoved

\* The hydrate commits.
LEMMA HydratedLost ==
    ASSUME LostInv, TurnInv', Hydrated
    PROVE  LostInv'
<1> DEFINE d == [ctl EXCEPT !.link = "draining"]
<1>1. /\ WellFormed(ctl) /\ Orderly(ctl) /\ TypeOK /\ CoreInvariant /\ KnownInv /\ Watched
      /\ ctl.link \in {"opening", "recovering"} /\ snap # NoSnap
    BY DEF LostInv, TurnInv, KnownInv, SentInv, Hydrated
<1>2. /\ WellFormed(d) /\ d.link = "draining" /\ d.q = ctl.q /\ d.retained = ctl.retained
      /\ d.composer = ctl.composer /\ d.steerReq = ctl.steerReq /\ d.steerOwner = ctl.steerOwner
      /\ d.steerAdmitted = ctl.steerAdmitted /\ Unsent(d) = Unsent(ctl) /\ d.local = ctl.local
      /\ d.hydrated = ctl.hydrated /\ d.steerUnknown = ctl.steerUnknown /\ d.lookup = ctl.lookup
      /\ d.recovery = ctl.recovery /\ d.receipts = ctl.receipts
  <2>1. WellFormed(d) /\ Unsent(d) = Unsent(ctl) /\ d.link = "draining"
    BY <1>1, RelinkKeeps DEF Links
  <2>2. ctl \in Controllers
    BY <1>1 DEF TypeOK
  <2>3. /\ d.q = ctl.q /\ d.retained = ctl.retained /\ d.composer = ctl.composer
        /\ d.steerReq = ctl.steerReq /\ d.steerOwner = ctl.steerOwner
        /\ d.steerAdmitted = ctl.steerAdmitted /\ d.local = ctl.local
    BY <2>2 DEF Controllers
  <2>4. /\ d.hydrated = ctl.hydrated /\ d.steerUnknown = ctl.steerUnknown /\ d.lookup = ctl.lookup
        /\ d.recovery = ctl.recovery /\ d.receipts = ctl.receipts
    BY <2>2 DEF Controllers
  <2> QED BY <2>1, <2>3, <2>4
<1>3. Orders(ctl, d)
    BY <1>1, RelinkOrders DEF Links
<1>4. PICK b \in BOOLEAN : /\ b = (ctl.link = "recovering")
                           /\ ctl' = ReconcileFromHydrate(d, snap, b)
    BY DEF Hydrated
<1> HIDE DEF d
<1>5. b \/ d.local = NoTurn
    BY <1>1, <1>2, <1>4 DEF Orderly, Leased, Linked
<1>6. \A t \in Turns : snap[t] \in {"active", "interrupting", "done"} => srv[t] # "none"
    BY <1>1 DEF KnownInv, StreamKnows
<1>7. /\ \A t \in Turns : snap[t] # "none" /\ (snap[t] = "done" => srv[t] = "done")
      /\ \A x, y \in ServerForeground(snap) : x = y
    BY <1>1 DEF CoreInvariant, SnapTells
<1>8. \A t \in Turns : snap[t] \in {"none", "absent", "active", "interrupting", "done"}
    BY <1>1 DEF TypeOK
<1>9. Orders(d, ctl') /\ Keeps(d, ctl')
  <2>1. \A t \in ServerForeground(snap) : Sure(d, t)
    <3>1. \A t \in ServerForeground(snap) : t \in Turns /\ srv[t] # "none"
        BY <1>6 DEF ServerForeground
    <3>2. \A t \in ServerForeground(snap) : Sure(ctl, t)
        BY <1>1, <3>1, KnownIsSure
    <3> QED BY <1>2, <3>2 DEF Sure
  <2>2. Linked(d) /\ Orderly(d)
    BY <1>2, <1>3 DEF Linked, Orders
  <2>3. Keeps(d, ctl')
    BY <1>1, <1>2, <1>4, ReconcileFromHydrateKeeps DEF TypeOK
  <2> QED BY <1>2, <1>4, <1>5, <2>1, <2>2, <2>3, ReconcileFromHydrateOrders
<1>10. Orders(ctl, ctl')
    BY <1>3, <1>9, OrdersTransitive
<1>11. /\ Unsent(ctl') \subseteq Unsent(ctl) /\ ctl'.link = "draining"
       /\ ctl'.steerAdmitted = ctl.steerAdmitted /\ ctl'.steerOwner \in {ctl.steerOwner, NoTurn}
    BY <1>2, <1>9 DEF Keeps
<1>12. Relinks
  <2>1. /\ Consumes /\ runs' = runs /\ snap' = NoSnap
        /\ UNCHANGED <<notes, buffered, gone, admitted, orphaned, handedBack>>
    BY DEF Hydrated, Consumes, history
  <2> QED BY <1>1, <1>10, <1>11, <2>1 DEF Relinks, Orders, Drained, Unanswered
<1>13. /\ Tended(ctl, View') /\ KnownTurns' = KnownTurns /\ DoneTurns' = DoneTurns
       /\ OldTurns \subseteq OldTurns' /\ QuietTurns \subseteq QuietTurns'
    BY <1>12, RelinksView
<1>14. /\ View'.known = KnownTurns /\ View'.done = DoneTurns /\ View'.old = OldTurns'
       /\ View'.quiet = QuietTurns'
    BY <1>13 DEF View
<1>15. ViewOf(d, View')
    BY <1>1, <1>2, <1>12, ViewNext DEF Relinks, Consumes
<1>16. Sound(d, View')
    BY <1>2, <1>13 DEF Tended, Sound, Recovering, Received
<1>17. \A y \in Turns : /\ snap[y] # "absent" => y \in View'.known
                        /\ snap[y] = "done" => y \in View'.done
    BY <1>6, <1>7, <1>8, <1>14 DEF KnownTurns, DoneTurns
<1>18. \A x \in SteerOwners(d) :
          /\ x \in View'.known
          /\ x # Active(d) => x \in View'.done /\ (x \in View'.old \/ <<x, Active(d)>> \in View'.before)
          /\ d.local # NoTurn => x \in View'.quiet
          /\ Received(d, x) => x \in View'.unowed
          /\ x \in View'.old \/ x = HydratedForeground(snap).turn
          /\ snap[x] = "absent" => x \in View'.quiet
  <2> SUFFICES ASSUME NEW x \in SteerOwners(ctl)
               PROVE  /\ x \in View'.known
                      /\ x # Active(ctl) => x \in View'.done /\ (x \in View'.old \/ <<x, Active(ctl)>> \in View'.before)
                      /\ ctl.local # NoTurn => x \in View'.quiet
                      /\ Received(ctl, x) => x \in View'.unowed
                      /\ x \in View'.old \/ x = HydratedForeground(snap).turn
                      /\ snap[x] = "absent" => x \in View'.quiet
    BY <1>2 DEF SteerOwners, Active, Received
  <2>1. Tends(ctl, x, View')
    BY <1>13 DEF Tended
  <2>2. x \in Turns
    BY <1>14, <2>1 DEF Tends, KnownTurns
  <2>3. /\ snap[x] \in {"done", "absent"} => x \in OldTurns
        /\ snap[x] = "absent" => x \in QuietTurns
    BY <1>1 DEF Watched, SnapSteers
  <2>4. ASSUME snap[x] \in {"active", "interrupting"} PROVE x = HydratedForeground(snap).turn
    <3>1. x \in ServerForeground(snap)
        BY <2>2, <2>4 DEF ServerForeground
    <3>2. (CHOOSE y \in ServerForeground(snap) : TRUE) = x
        BY <1>7, <3>1
    <3> QED BY <3>1, <3>2 DEF HydratedForeground
  <2> QED BY <1>7, <1>8, <1>13, <1>14, <2>1, <2>2, <2>3, <2>4 DEF Tends
<1>19. PICK T : T = {y \in {Active(ctl)} : snap[y] = "done"}
    OBVIOUS
<1>20. snap[Active(d)] = "done" => Active(d) \in T
    BY <1>2, <1>19 DEF Active
<1>21. Tended(ctl', View') /\ Spares(d, ctl', T, {}, {})
    BY <1>2, <1>3, <1>4, <1>5, <1>15, <1>16, <1>17, <1>18, <1>20, ReconcileFromHydrateTended DEF Orders
<1>22. Spares(ctl, ctl', T, {}, {})
    BY <1>2, <1>21 DEF Spares
<1>23. MayPass(T)
    BY <1>1, <1>7, <1>19 DEF MayPass, CoreInvariant, CoreRuns, Turns
<1> QED BY <1>12, <1>21, <1>22, <1>23, RelinksMoved

\* One event is taken from the stream.
Hears ==
    /\ Consumes /\ runs' = runs
    /\ notes # <<>> /\ notes' = Tail(notes) /\ buffered' = IF buffered = 0 THEN 0 ELSE buffered - 1
    /\ UNCHANGED <<snap, gone, admitted, orphaned, handedBack>>
    /\ ctl.link \in {"draining", "ready", "faulted"}
    /\ Keeps(ctl, ctl') /\ Holds(ctl, ctl') /\ ctl'.steerReq \in {ctl.steerReq, NoTurn}

LEMMA HearsView ==
    ASSUME LostInv, TurnInv', Hears
    PROVE  /\ CoreInvariant' /\ Extends(View', View) /\ ViewOf(ctl, View') /\ Tended(ctl, View')
<1>1. /\ TypeOK /\ TypeOK' /\ CoreInvariant /\ Watched /\ KnownInv /\ ctl'.link = ctl.link
    BY DEF LostInv, TurnInv, KnownInv, SentInv, Hears, Keeps
<1>2. CoreInvariant'
  <2>1. Drained' /\ snap' = NoSnap
    BY <1>1 DEF Hears, CoreInvariant, Drained, SnapTells
  <2> QED BY <1>1, <2>1, ConsumesCore DEF Hears
<1>3. DeadTurns \subseteq DeadTurns'
    BY <1>1, ConsumesDead DEF Hears, Keeps
<1>4. Extends(View', View)
    BY <1>1, <1>3, TailExtends DEF Hears, Consumes
<1>5. ViewOf(ctl, View')
  <2>1. ctl.link = "ready" => OldTurns' \subseteq QuietTurns'
    BY <1>1, <1>2, ReadyHasNoBufferNext DEF CoreInvariant
  <2>2. Unsent(ctl) \subseteq Unsent(ctl) /\ srv' = srv /\ ctl.link # "closed"
    BY DEF Hears, Consumes
  <2> QED BY <1>1, <2>1, <2>2, ViewNext
<1>6. Tended(ctl, View')
    BY <1>1, <1>4, ExtendsTended DEF Watched, Hears
<1> QED BY <1>2, <1>4, <1>5, <1>6

LEMMA HearsMoved ==
    ASSUME LostInv, TurnInv', Hears, Tended(ctl', View'),
           \A p \in handedBack : p \in Returned(notes) => p \in Returned(notes') \cup QueuedIds(ctl'.q),
           NEW T, MayPass(T), NEW O, O \subseteq Released, NEW M, MayMake(M),
           Spares(ctl, ctl', T, O, M),
           ctl'.steerReq \in M => ctl'.steerReq \in steerSent \cup {NoTurn}
    PROVE  LostInv'
<1>1. CoreInvariant' /\ Extends(View', View)
    BY HearsView
<1>2. /\ Consumes /\ runs' = runs /\ ctl.link # "closed" /\ ctl'.link # "closed"
      /\ Holds(ctl, ctl') /\ ctl'.steerReq \in {ctl.steerReq, NoTurn}
      /\ ctl'.steerOwner \in {ctl.steerOwner, NoTurn} /\ ctl'.steerAdmitted = ctl.steerAdmitted
      /\ gone \subseteq gone' /\ orphaned \subseteq orphaned' /\ handedBack' \subseteq handedBack
    BY DEF Hears, Keeps
<1>3. \A p \in handedBack' : p \in Returned(notes) => p \in Returned(notes') \cup QueuedIds(ctl'.q)
    BY <1>2
<1>4. \A i \in DOMAIN admitted' :
         admitted'[i] \in QueuedIds(ctl'.q) \/ \E j \in DOMAIN admitted : admitted[j] = admitted'[i]
    BY DEF Hears
<1> QED BY <1>1, <1>2, <1>3, <1>4, ClientMoved

\* The events that remain.
LEMMA TailAt ==
    ASSUME TypeOK, notes # <<>>, notes' = Tail(notes)
    PROVE  /\ notes[1] \in Notes /\ 1 \in DOMAIN notes /\ Head(notes) = notes[1]
           /\ \A i \in DOMAIN notes' : i + 1 \in DOMAIN notes /\ notes'[i] = notes[i + 1] /\ i + 1 > 1
           /\ \A j \in DOMAIN notes : j # 1 => j - 1 \in DOMAIN notes' /\ notes'[j - 1] = notes[j]
<1>1. /\ notes \in Seq(Notes) /\ Len(notes) \in Nat /\ Len(notes) > 0
      /\ DOMAIN notes = 1..Len(notes) /\ DOMAIN notes' = 1..(Len(notes) - 1)
    BY DEF TypeOK
<1>2. notes[1] \in Notes /\ 1 \in DOMAIN notes /\ Head(notes) = notes[1]
    BY <1>1
<1>3. \A i \in DOMAIN notes' : i + 1 \in DOMAIN notes /\ notes'[i] = notes[i + 1] /\ i + 1 > 1
    BY <1>1
<1>4. \A j \in DOMAIN notes : j # 1 => j - 1 \in DOMAIN notes' /\ notes'[j - 1] = notes[j]
    BY <1>1
<1> QED BY <1>2, <1>3, <1>4

LEMMA ObserveLost ==
    ASSUME LostInv, TurnInv', Observe
    PROVE  LostInv'
<1>1. /\ TypeOK /\ CoreInvariant /\ Watched /\ KnownInv /\ SteersKnown /\ SteersOnce
      /\ WellFormed(ctl) /\ Orderly(ctl)
      /\ ctl.link \in {"draining", "ready", "faulted"} /\ notes # <<>> /\ notes' = Tail(notes)
    BY DEF LostInv, TurnInv, KnownInv, SentInv, Observe
<1>2. PICK n : n = notes[1]
    OBVIOUS
<1>3. PICK t : t = n.turn
    OBVIOUS
<1>4. /\ n \in Notes /\ 1 \in DOMAIN notes /\ Head(notes) = n
      /\ \A i \in DOMAIN notes' : i + 1 \in DOMAIN notes /\ notes'[i] = notes[i + 1] /\ i + 1 > 1
      /\ \A j \in DOMAIN notes : j # 1 => j - 1 \in DOMAIN notes' /\ notes'[j - 1] = notes[j]
    BY <1>1, <1>2, TailAt
<1>5. /\ t \in Turns
      /\ n.kind \in {"started", "terminal", "dropped"}
      /\ n.kind = "dropped" => n.inputs \in Seq(Locals)
    BY <1>3, <1>4 DEF Notes
<1>6. srv[t] # "none" /\ Sure(ctl, t)
  <2>1. srv[t] # "none"
    BY <1>1, <1>2, <1>3, <1>4 DEF KnownInv, StreamKnows
  <2> QED BY <1>1, <1>5, <2>1, KnownIsSure
<1>7. ASSUME Keeps(ctl, ctl'), Holds(ctl, ctl'), ctl'.steerReq \in {ctl.steerReq, NoTurn}
      PROVE  Hears
    BY <1>7 DEF Observe, Hears, Consumes, history
<1>8. ASSUME Hears
      PROVE  /\ ViewOf(ctl, View') /\ Tended(ctl, View') /\ View'.known = KnownTurns
             /\ View'.quiet = QuietTurns' /\ t \in View'.known
  <2>1. KnownTurns' = KnownTurns
    BY <1>8 DEF Hears, Consumes, KnownTurns
  <2> QED BY <1>5, <1>6, <1>8, <2>1, HearsView DEF View, KnownTurns
<1>9. n.kind # "dropped" => \A p \in handedBack : p \in Returned(notes)
                              => p \in Returned(notes') \cup QueuedIds(ctl'.q)
  <2> SUFFICES ASSUME n.kind # "dropped", NEW p, p \in Returned(notes) PROVE p \in Returned(notes')
    OBVIOUS
  <2>1. PICK j \in DOMAIN notes : Returns(notes[j], p)
    BY ReturnedIs
  <2>2. j # 1
    BY <1>2, <2>1 DEF Returns
  <2>3. j - 1 \in DOMAIN notes' /\ Returns(notes'[j - 1], p)
    BY <1>4, <2>1, <2>2
  <2> QED BY <2>3, ReturnedIs
<1>10. MayPass({}) /\ MayMake({}) /\ {} \subseteq Released /\ ctl'.steerReq \notin {}
    BY DEF MayPass, MayMake
<1>11. CASE n.kind = "terminal" /\ buffered > 0
  <2>1. ctl' = ctl
    BY <1>4, <1>11 DEF Observe
  <2>2. Orders(ctl, ctl') /\ Keeps(ctl, ctl') /\ Rests(ctl, ctl')
    BY <1>1, <2>1, OrdersReflexive, KeepsReflexive DEF Rests
  <2>3. Hears
    BY <1>7, <2>2 DEF Orders
  <2>4. Tended(ctl', View') /\ Spares(ctl, ctl', {}, {}, {})
    BY <1>8, <2>2, <2>3, RestsTended
  <2> QED BY <1>9, <1>10, <1>11, <2>3, <2>4, HearsMoved
<1>12. CASE n.kind = "started"
  <2>1. ctl' = ObserveTurnStarted(ctl, t)
    BY <1>3, <1>4, <1>12 DEF Observe
  <2>2. Observes(ctl, ctl', t) /\ Keeps(ctl, ctl')
    BY <1>1, <1>5, <1>6, <2>1, ObserveTurnStartedOrders, ObserveTurnStartedKeeps
  <2>3. Hears
    BY <1>7, <2>2 DEF Observes
  <2>4. Tended(ctl', View') /\ Spares(ctl, ctl', {}, {}, {})
    BY <1>1, <1>8, <2>1, <2>3, ObserveTurnStartedTended
  <2> QED BY <1>9, <1>10, <1>12, <2>3, <2>4, HearsMoved
<1>13. CASE n.kind = "terminal" /\ ~(buffered > 0)
  <2>1. ctl' = ObserveTerminal(ctl, t) /\ buffered = 0
    BY <1>1, <1>3, <1>4, <1>13 DEF Observe, TypeOK
  <2>2. Observes(ctl, ctl', t) /\ Keeps(ctl, ctl')
    BY <1>1, <1>5, <1>6, <2>1, ObserveTerminalOrders, ObserveTerminalKeeps
  <2>3. Hears
    BY <1>7, <2>2 DEF Observes
  <2>4. t \in QuietTurns' /\ srv[t] = "done"
    <3>1. /\ srv[t] = "done" /\ \A j \in DOMAIN notes : j > 1 => notes[j].turn # t
        BY <1>1, <1>2, <1>3, <1>4, <1>13 DEF CoreInvariant, StreamEnds
    <3>2. \A i \in DOMAIN notes' : notes'[i].turn # t
        BY <1>4, <3>1
    <3> QED BY <1>5, <2>3, <3>1, <3>2 DEF QuietTurns, DoneTurns, Hears, Consumes
  <2>5. Active(ctl) = t => SteerOwners(ctl) \subseteq QuietTurns'
    <3> SUFFICES ASSUME Active(ctl) = t, NEW x \in SteerOwners(ctl), x # t PROVE x \in QuietTurns'
        BY <2>4
    <3>1. x \in DoneTurns /\ (x \in OldTurns \/ <<x, t>> \in Precedes)
        BY <1>1 DEF Watched, Tended, Tends, View
    <3>2. \A i \in DOMAIN notes : i \in Nat /\ i >= 1
        BY <1>1 DEF TypeOK
    <3>3. \A i \in DOMAIN notes : notes[i].turn # x
      <4>1. CASE x \in OldTurns
        BY <1>1, <2>1, <3>2, <4>1 DEF OldTurns, Unanswered
      <4>2. CASE <<x, t>> \in Precedes
        <5>1. \A i \in DOMAIN notes : notes[i].turn = x => i < 1
            BY <1>2, <1>3, <1>4, <4>2 DEF Precedes
        <5> QED BY <3>2, <5>1
      <4> QED BY <3>1, <4>1, <4>2
    <3>4. \A i \in DOMAIN notes' : notes'[i].turn # x
        BY <1>4, <3>3
    <3> QED BY <2>3, <3>1, <3>4 DEF QuietTurns, DoneTurns, Hears, Consumes
  <2>6. t \in {t} /\ t \in View'.quiet /\ (Active(ctl) = t => SteerOwners(ctl) \subseteq View'.quiet)
    BY <1>8, <2>3, <2>4, <2>5
  <2>7. Tended(ctl', View') /\ Spares(ctl, ctl', {t}, {t}, {})
    BY <1>1, <1>8, <2>1, <2>3, <2>6, ObserveTerminalTended
  <2>8. MayPass({t})
    BY <1>1, <2>4 DEF MayPass, CoreInvariant, CoreRuns
  <2>9. {t} \subseteq Released
    BY <2>4 DEF Released, QuietTurns, UnowedTurns, Owed
  <2> QED BY <1>9, <1>10, <1>13, <2>3, <2>7, <2>8, <2>9, HearsMoved
<1>14. CASE n.kind = "dropped"
  <2>1. PICK given : given = n.inputs
    OBVIOUS
  <2>2. ctl' = ObserveSteerDropped(ctl, t, given)
    BY <1>3, <1>4, <1>14, <2>1 DEF Observe
  <2>3. given \in Seq(Locals) /\ given \in Seq(Turns) /\ NoRepeat(given)
    <3>1. \A s \in Seq(Locals) : s \in Seq(Turns)
        BY DEF Turns
    <3> QED BY <1>1, <1>2, <1>4, <1>5, <1>14, <2>1, <3>1 DEF SteersOnce
  <2>4. /\ Holds(ctl, ctl') /\ ctl'.steerReq \in {ctl.steerReq, NoTurn} /\ Keeps(ctl, ctl')
    BY <1>1, <1>5, <1>6, <2>2, <2>3, ObserveSteerDroppedOrders, ObserveSteerDroppedKeeps
  <2>5. Hears
    BY <1>7, <2>4
  <2>6. PICK M : M = TurnsOf(given)
    OBVIOUS
  <2>7. /\ Tended(ctl', View') /\ Spares(ctl, ctl', {}, {}, M)
        /\ \A e \in ctl.retained : e.owner = t /\ e.sent /\ e.turn \in TurnsOf(given)
                                   => e.turn \in QueuedIds(ctl'.q)
    BY <1>1, <1>8, <2>2, <2>3, <2>5, <2>6, ObserveSteerDroppedTended
  <2>8. \A p : p \in M <=> Returns(notes[1], p)
    BY <1>2, <1>14, <2>1, <2>6 DEF TurnsOf, Returns
  <2>9. M \subseteq Locals
    BY <2>3, <2>6 DEF TurnsOf
  <2>10. \A p \in M : p \in Returned(notes) /\ p \notin Returned(notes')
    <3> SUFFICES ASSUME NEW p \in M PROVE p \in Returned(notes) /\ p \notin Returned(notes')
        OBVIOUS
    <3>1. p \in Returned(notes)
        BY <1>4, <2>8, ReturnedIs
    <3>2. ASSUME NEW i \in DOMAIN notes', Returns(notes'[i], p) PROVE FALSE
      <4>1. i + 1 \in DOMAIN notes /\ Returns(notes[i + 1], p) /\ i + 1 > 1
        BY <1>4, <3>2
      <4>2. i + 1 = 1
        BY <1>1, <1>4, <2>8, <2>9, <4>1 DEF CoreInvariant, ReturnedOnce
      <4> QED BY <4>1, <4>2
    <3> QED BY <3>1, <3>2, ReturnedIs
  <2>11. MayMake(M)
    BY <1>1, <2>9, <2>10 DEF MayMake, CoreInvariant, ReturnedOnce
  <2>12. ctl'.steerReq \in M => ctl'.steerReq \in steerSent \cup {NoTurn}
    BY <1>1, <2>10 DEF SteersKnown
  <2>13. ASSUME NEW p \in handedBack, p \in Returned(notes)
         PROVE  p \in Returned(notes') \cup QueuedIds(ctl'.q)
    <3>1. PICK j \in DOMAIN notes : Returns(notes[j], p)
        BY <2>13, ReturnedIs
    <3>2. CASE j = 1
      <4>1. KeptFor(p, t)
        BY <1>1, <1>2, <1>3, <1>4, <3>1, <3>2 DEF Watched, Cared
      <4>2. p \in TurnsOf(given)
        BY <2>6, <2>8, <3>1, <3>2
      <4> QED BY <2>7, <4>1, <4>2 DEF KeptFor
    <3>3. CASE j # 1
      <4>1. j - 1 \in DOMAIN notes' /\ Returns(notes'[j - 1], p)
        BY <1>4, <3>1, <3>3
      <4> QED BY <4>1, ReturnedIs
    <3> QED BY <3>2, <3>3
  <2>14. \A p \in handedBack : p \in Returned(notes) => p \in Returned(notes') \cup QueuedIds(ctl'.q)
    BY <2>13
  <2> QED BY <1>10, <2>5, <2>7, <2>11, <2>12, <2>14, HearsMoved
<1> QED BY <1>5, <1>11, <1>12, <1>13, <1>14

LEMMA TransportLost ==
    ASSUME LostInv, Transport, ctl.link # "closed"
    PROVE  LostInv'
<1>1. TurnInv' /\ WellFormed(ctl) /\ Orderly(ctl)
    BY TransportTurn DEF LostInv, TurnInv, KnownInv, SentInv
<1>2. CASE LoseTransport \/ Reopen
  <2>1. PICK l \in {"down", "opening"} : Suspend(l)
    BY <1>2 DEF LoseTransport, Reopen
  <2>2. Consumes /\ UNCHANGED <<runs, gone, admitted>>
    BY <1>2 DEF LoseTransport, Reopen, Suspend, CutStream, Consumes
  <2> QED BY <1>1, <2>1, <2>2, SuspendLost
<1>3. ASSUME NEW m \in wire, LoseRequest(m) PROVE LostInv'
  <2>1. ctl' = ctl /\ admitted' = admitted
    BY <1>3 DEF LoseRequest, history
  <2>2. Orders(ctl, ctl') /\ Keeps(ctl, ctl') /\ Rests(ctl, ctl')
    BY <1>1, <2>1, OrdersReflexive, KeepsReflexive DEF Rests
  <2>3. Plain
    BY <1>3, <2>2 DEF LoseRequest, Plain, Consumes, history, Orders
  <2> QED BY <1>1, <2>1, <2>2, <2>3, RestMoved
<1> QED BY <1>1, <1>2, <1>3, RecoveryFailsLost, GapLost, AnswerHydrateLost, HydratedLost, ReadyLost,
           ObserveLost DEF Transport
-----------------------------------------------------------------------------
LEMMA InitLostInv == Init => LostInv
<1> SUFFICES ASSUME Init PROVE LostInv
    OBVIOUS
<1>1. /\ ctl = InitController /\ srv = [t \in Turns |-> "none"] /\ inputs = <<>> /\ wire = {}
      /\ replies = {} /\ notes = <<>> /\ snap = NoSnap /\ buffered = 0 /\ admitted = <<>>
      /\ handedBack = {} /\ steerSent = {}
    BY DEF Init
<1>2. /\ ctl.link = "ready" /\ ctl.retained = {} /\ ctl.steerReq = NoTurn /\ ctl.hydrated = NoHydrated
      /\ ctl.attempted = {} /\ ctl.lookup = NoTurn /\ ~ctl.steerUnknown /\ ctl.receipts = <<>>
      /\ ctl.steerAdmitted = {}
    BY <1>1 DEF InitController
<1>3. TurnInv
    BY InitTurnInv
<1>4. \A t \in Turns : srv[t] = "none"
    BY <1>1
<1>5. Foreground = {} /\ Returned(notes) = {} /\ (\A p : ~SteerFrame(p) /\ ~InInputs(p))
    BY <1>1, <1>4 DEF Foreground, Returned, SteerFrame, InInputs
<1>6. CoreInvariant
    BY <1>1, <1>4, <1>5 DEF CoreInvariant, CoreRuns, StreamEnds, SnapTells, Drained, ReturnedOnce, Turns
<1>7. SteerOwners(ctl) = {} /\ \A x : ~Received(ctl, x)
    BY <1>2 DEF SteerOwners, Received
<1>8. Tended(ctl, View)
    BY <1>2, <1>7 DEF Tended, Sound, Vouched, NoHydrated
<1>9. Cared /\ KeptIsReturned /\ Aimed /\ FellBackLast /\ SnapSteers
    BY <1>1, <1>2 DEF Cared, KeptIsReturned, Aimed, FellBackLast, SnapSteers
<1>10. NoPromptLost
    BY <1>1, <1>2 DEF NoPromptLost
<1> QED BY <1>2, <1>3, <1>6, <1>8, <1>9, <1>10 DEF LostInv, Watched

LEMMA NextLostInv == LostInv /\ [Next]_vars => LostInv'
<1> SUFFICES ASSUME LostInv, [Next]_vars PROVE LostInv'
    OBVIOUS
<1>1. CASE User \/ Client \/ Transport
  <2>1. CASE ctl.link = "closed"
    <3>1. TurnInv'
        BY <1>1, UserTurn, ClientTurn, TransportTurn DEF LostInv
    <3> QED BY <1>1, <2>1, <3>1, ClosedLost
  <2>2. CASE ctl.link # "closed"
    BY <1>1, <2>2, UserLost, ClientLost, TransportLost
  <2> QED BY <2>1, <2>2
<1>2. CASE Core
    BY <1>2, CoreLost
<1>3. CASE UNCHANGED vars
  <2>1. /\ UNCHANGED <<ctl, srv, inputs, wire, replies, notes, snap, buffered, sends, runs, admitted, gone,
                       steerSent, orphaned, handedBack>>
    BY <1>3 DEF vars, channels, history
  <2>2. TurnInv'
    BY <1>3, NextTurnInv DEF LostInv
  <2>3. CoreInvariant'
    BY <2>1 DEF LostInv, CoreInvariant, CoreRuns, StreamEnds, SnapTells, Drained, ReturnedOnce,
                Foreground, SteerFrame, InInputs
  <2>4. View' = View
    BY <2>1 DEF View, KnownTurns, DoneTurns, QuietTurns, OldTurns, UnowedTurns, Precedes, DeadTurns,
                Owed, Unanswered, StartFrame
  <2>5. Shut => Shut'
    BY <2>1 DEF Shut
  <2>6. Watched => Watched'
    <3> SUFFICES ASSUME Watched PROVE Watched'
        OBVIOUS
    <3>1. Tended(ctl', View')
        BY <2>1, <2>4 DEF Watched
    <3>2. Cared' /\ KeptIsReturned' /\ Aimed'
        BY <2>1 DEF Watched, Cared, KeptFor, KeptIsReturned, Aimed, Foreground
    <3>3. DoneTurns' = DoneTurns /\ Precedes' = Precedes /\ OldTurns' = OldTurns /\ QuietTurns' = QuietTurns
        BY <2>1 DEF KnownTurns, DoneTurns, QuietTurns, OldTurns, Precedes, Unanswered
    <3>4. FellBackLast' /\ SnapSteers'
        BY <2>1, <3>3 DEF Watched, FellBackLast, SnapSteers
    <3> QED BY <3>1, <3>2, <3>4 DEF Watched
  <2>7. NoPromptLost'
    BY <2>1 DEF LostInv, NoPromptLost
  <2> QED BY <2>1, <2>2, <2>3, <2>5, <2>6, <2>7 DEF LostInv
<1> QED BY <1>1, <1>2, <1>3 DEF Next

\* No prompt the controller admitted is silently dropped, whatever the user, the
\* transport and Core do and however their steps interleave.
THEOREM NothingLost == Spec => []NoPromptLost
<1>1. Spec => []LostInv
    BY InitLostInv, NextLostInv, PTL DEF Spec
<1>2. LostInv => NoPromptLost
    BY DEF LostInv
<1> QED BY <1>1, <1>2, PTL
-----------------------------------------------------------------------------
(* Prompts leave in the order in which they were admitted.                 *)

\* The turns that this client cannot send any more, or never could.
Spent(c) == {t \in Turns : Sure(c, t)}

\* x was admitted before y, or is returned text and y is a prompt of its own.
GoesFirst(x, y) ==
    \/ \E i, j \in DOMAIN admitted : i < j /\ admitted[i] = x /\ admitted[j] = y
    \/ x \in ctl.steerAdmitted /\ y \in Locals \ ctl.steerAdmitted

\* Of two prompts that were never sent, the one that goes first is not behind.
InOrder == \A x, y \in Unsent(ctl) : GoesFirst(x, y) => ~Ahead(ctl.q, y, x)

\* Steering text does not go through the FIFO; an admitted prompt that was never sent is
\* queued, unless the user let it go.
Places ==
    \A i \in DOMAIN admitted :
        /\ admitted[i] \notin ctl.steerAdmitted
        /\ admitted[i] \in Unsent(ctl) => admitted[i] \in QueuedIds(ctl.q) \cup gone

Ranked == ctl.link # "closed" => InOrder /\ Places /\ Packed(ctl.q)

OrderInv == LostInv /\ Ranked

LEMMA OrderFacts ==
    ASSUME OrderInv, ctl.link # "closed"
    PROVE  /\ InOrder /\ Places /\ Packed(ctl.q) /\ KnownInv /\ TypeOK
           /\ WellFormed(ctl) /\ Orderly(ctl) /\ admitted \in Seq(Locals)
           /\ ctl.hydrated.turn \in Spent(ctl) \cup {NoTurn}
           /\ Active(ctl) \in Turns \cup {NoTurn} /\ Watched
           /\ \A t \in Turns : srv[t] # "none" => t \in Spent(ctl)
<1>1. InOrder /\ Places /\ Packed(ctl.q) /\ LostInv /\ KnownInv /\ TypeOK /\ WellFormed(ctl) /\ Orderly(ctl)
    BY DEF OrderInv, Ranked, LostInv, TurnInv, KnownInv, SentInv
<1>2. Watched /\ admitted \in Seq(Locals) /\ Active(ctl) \in Turns \cup {NoTurn}
    BY <1>1, ActiveType DEF LostInv, TypeOK, WellFormed, OptTurn
<1>3. \A t \in Turns : srv[t] # "none" => t \in Spent(ctl)
    BY <1>1, KnownIsSure DEF Spent
<1>4. ctl.hydrated.turn \in OptTurn
    BY <1>1 DEF WellFormed, Controllers, HydratedTurns
<1>5. ctl.hydrated.turn \in Spent(ctl) \cup {NoTurn}
    BY <1>1, <1>4 DEF Orderly, Fifo, Spent, Sure, OptTurn
<1> QED BY <1>1, <1>2, <1>3, <1>5

\* A step that lets only spent turns and steering text ahead, and takes only spent turns
\* and those the user let go out of the queue.
LEMMA Slid ==
    ASSUME OrderInv, ctl.link # "closed", NEW N, NEW T, Shifts(ctl.q, ctl'.q, N, T),
           N \subseteq ctl.steerAdmitted \cup Spent(ctl'), T \subseteq gone' \cup Spent(ctl'),
           Unsent(ctl') \subseteq Unsent(ctl), ctl'.steerAdmitted = ctl.steerAdmitted,
           admitted' = admitted, gone \subseteq gone'
    PROVE  Ranked'
<1>1. InOrder /\ Places /\ Packed(ctl.q) /\ admitted \in Seq(Locals)
    BY OrderFacts
<1>2. \A i \in DOMAIN admitted : admitted[i] \in Locals
    BY <1>1
<1>3. \A y \in Locals : y \in Spent(ctl') => y \notin Unsent(ctl')
    BY DEF Spent, Sure
<1>4. Packed(ctl'.q)
    BY <1>1 DEF Shifts
<1>5. InOrder'
  <2> SUFFICES ASSUME NEW x \in Unsent(ctl'), NEW y \in Unsent(ctl'), GoesFirst(x, y)',
                      Ahead(ctl'.q, y, x)
               PROVE  FALSE
    BY DEF InOrder
  <2>1. GoesFirst(x, y)
    BY DEF GoesFirst
  <2>2. y \in Locals /\ y \notin ctl.steerAdmitted
    BY <1>1, <1>2, <2>1 DEF GoesFirst, Places
  <2>3. x \in Turns /\ y \in Turns
    BY DEF Unsent
  <2>4. Ahead(ctl.q, y, x) \/ y \in N
    BY <2>3 DEF Shifts
  <2>5. y \notin N
    BY <1>3, <2>2
  <2> QED BY <1>1, <2>1, <2>4, <2>5 DEF InOrder
<1>6. Places'
  <2> SUFFICES ASSUME NEW i \in DOMAIN admitted
               PROVE  /\ admitted[i] \notin ctl'.steerAdmitted
                      /\ admitted[i] \in Unsent(ctl') => admitted[i] \in QueuedIds(ctl'.q) \cup gone'
    BY DEF Places
  <2>1. admitted[i] \notin ctl'.steerAdmitted
    BY <1>1 DEF Places
  <2>2. ASSUME admitted[i] \in Unsent(ctl') PROVE admitted[i] \in QueuedIds(ctl'.q) \cup gone'
    <3>1. admitted[i] \in QueuedIds(ctl.q) \cup gone
        BY <1>1, <2>2 DEF Places
    <3>2. admitted[i] \notin Spent(ctl')
        BY <1>2, <1>3, <2>2
    <3> QED BY <3>1, <3>2 DEF Shifts
  <2> QED BY <2>1, <2>2
<1> QED BY <1>4, <1>5, <1>6 DEF Ranked

\* What is spent stays so.
LEMMA SpentStays ==
    ASSUME Unsent(ctl') \subseteq Unsent(ctl)
    PROVE  Spent(ctl) \subseteq Spent(ctl')
BY DEF Spent, Sure

LEMMA SameRanked ==
    ASSUME OrderInv, ctl' = ctl, admitted' = admitted, gone' = gone
    PROVE  Ranked'
BY DEF OrderInv, Ranked, InOrder, Places, GoesFirst

\* The handlers that keep the controller's promises.
LEMMA KeptSlid ==
    ASSUME OrderInv, ctl.link # "closed", NEW N, NEW T, Shifts(ctl.q, ctl'.q, N, T),
           Keeps(ctl, ctl'), N \subseteq ctl.steerAdmitted \cup Spent(ctl),
           T \subseteq gone' \cup Spent(ctl'), admitted' = admitted, gone \subseteq gone'
    PROVE  Ranked'
<1>1. Unsent(ctl') \subseteq Unsent(ctl) /\ ctl'.steerAdmitted = ctl.steerAdmitted
    BY DEF Keeps
<1>2. N \subseteq ctl.steerAdmitted \cup Spent(ctl')
    BY <1>1, SpentStays
<1> QED BY <1>1, <1>2, Slid
-----------------------------------------------------------------------------
(* The user *)

\* The newest prompt goes behind every other.
LEMMA AdmitRanked ==
    ASSUME OrderInv, NEW t \in Locals, Admit(t)
    PROVE  Ranked'
<1>1. /\ ctl' = EnqueueTurn(ctl, t) /\ ctl.link # "closed" /\ t \notin ctl.attempted
      /\ t \notin ctl.steerAdmitted /\ t \notin QueuedIds(ctl.q) /\ t \notin gone
      /\ admitted' = Append(admitted, t) /\ gone' = gone
    BY DEF Admit, MayEnqueue
<1>2. InOrder /\ Places /\ Packed(ctl.q) /\ WellFormed(ctl) /\ admitted \in Seq(Locals) /\ t \in Turns
    BY <1>1, OrderFacts DEF Turns
<1>3. Keeps(ctl, ctl')
    BY <1>1, <1>2, EnqueueTurnKeeps
<1>4. Unsent(ctl') \subseteq Unsent(ctl) /\ ctl'.steerAdmitted = ctl.steerAdmitted
    BY <1>3 DEF Keeps
<1>5. /\ \A x, y \in Turns : Ahead(ctl'.q, y, x) => Ahead(ctl.q, y, x) \/ x = t
      /\ QueuedIds(ctl.q) \cup {t} \subseteq QueuedIds(ctl'.q) /\ Packed(ctl'.q)
    BY <1>1, <1>2, EnqueueTurnShifts
<1>6. t \in Unsent(ctl) /\ \A i \in DOMAIN admitted : admitted[i] # t
  <2>1. t \in Unsent(ctl)
    BY <1>1, <1>2 DEF Unsent
  <2> QED BY <1>1, <1>2, <2>1 DEF Places
<1>7. /\ Len(admitted) \in Nat /\ DOMAIN admitted = 1..Len(admitted)
      /\ DOMAIN admitted' = 1..(Len(admitted) + 1) /\ admitted'[Len(admitted) + 1] = t
      /\ \A i \in DOMAIN admitted : admitted'[i] = admitted[i]
    BY <1>1, <1>2
<1>8. \A x : ~Ahead(ctl.q, t, x)
  <2>1. \A x : Before(ctl.q.pending, t, x) => t \in Ids(ctl.q.pending)
    BY DEF Before, Ids
  <2>2. t # NoTurn
    BY <1>2, TurnsAssumption DEF Turns
  <2> QED BY <1>1, <2>1, <2>2 DEF Ahead, QueuedIds
<1>9. InOrder'
  <2> SUFFICES ASSUME NEW x \in Unsent(ctl'), NEW y \in Unsent(ctl'), GoesFirst(x, y)',
                      Ahead(ctl'.q, y, x)
               PROVE  FALSE
    BY DEF InOrder
  <2>1. x \in Turns /\ y \in Turns /\ x \in Unsent(ctl) /\ y \in Unsent(ctl)
    BY <1>4 DEF Unsent
  <2>2. Ahead(ctl.q, y, x) \/ x = t
    BY <1>5, <2>1
  <2>3. CASE x \in ctl'.steerAdmitted /\ y \in Locals \ ctl'.steerAdmitted
    <3>1. GoesFirst(x, y) /\ x # t
        BY <1>1, <1>4, <2>3 DEF GoesFirst
    <3> QED BY <1>2, <2>1, <2>2, <3>1 DEF InOrder
  <2>4. CASE \E i, j \in DOMAIN admitted' : i < j /\ admitted'[i] = x /\ admitted'[j] = y
    <3>1. PICK i, j \in DOMAIN admitted' : i < j /\ admitted'[i] = x /\ admitted'[j] = y
        BY <2>4
    <3>2. i \in DOMAIN admitted /\ x = admitted[i] /\ x # t
        BY <1>6, <1>7, <3>1
    <3>3. CASE j = Len(admitted) + 1
        BY <1>7, <1>8, <2>2, <3>1, <3>2, <3>3
    <3>4. CASE j # Len(admitted) + 1
      <4>1. j \in DOMAIN admitted /\ y = admitted[j]
        BY <1>7, <3>1, <3>4
      <4>2. GoesFirst(x, y)
        BY <3>1, <3>2, <4>1 DEF GoesFirst
      <4> QED BY <1>2, <2>1, <2>2, <3>2, <4>2 DEF InOrder
    <3> QED BY <3>3, <3>4
  <2> QED BY <2>3, <2>4 DEF GoesFirst
<1>10. Places'
  <2> SUFFICES ASSUME NEW i \in DOMAIN admitted'
               PROVE  /\ admitted'[i] \notin ctl'.steerAdmitted
                      /\ admitted'[i] \in Unsent(ctl') => admitted'[i] \in QueuedIds(ctl'.q) \cup gone'
    BY DEF Places
  <2>1. CASE i = Len(admitted) + 1
    BY <1>1, <1>4, <1>5, <1>7, <2>1
  <2>2. CASE i # Len(admitted) + 1
    <3>1. i \in DOMAIN admitted /\ admitted'[i] = admitted[i]
        BY <1>7, <2>2
    <3> QED BY <1>1, <1>2, <1>4, <1>5, <3>1 DEF Places
  <2> QED BY <2>1, <2>2
<1> QED BY <1>5, <1>9, <1>10 DEF Ranked

\* Text is admitted as steering when nothing waits.
LEMMA SubmitRanked ==
    ASSUME OrderInv, NEW t \in Steerable, Submit(t)
    PROVE  Ranked'
<1>1. /\ ctl' = SubmitSteer(ctl, t) /\ ctl.link = "ready" /\ Active(ctl) \in ctl.attempted
      /\ ctl.q.pending = <<>> /\ t \notin ctl.attempted /\ t \notin gone
      /\ admitted' = admitted /\ gone' = gone
    BY DEF Submit, CanSteerText, history
<1>2. Places /\ Packed(ctl.q) /\ WellFormed(ctl) /\ t \in Turns
    BY <1>1, OrderFacts, SystemAssumption DEF Turns
<1>3. /\ ctl'.q = ctl.q /\ ctl'.steerAdmitted = ctl.steerAdmitted \cup {t}
      /\ Unsent(ctl') = Unsent(ctl)
    BY <1>1, <1>2 DEF SubmitSteer, WellFormed, Controllers, Unsent
<1>4. QueuedIds(ctl.q) \subseteq ctl.attempted
    BY <1>1 DEF QueuedIds, Ids, Active
<1>5. \A i \in DOMAIN admitted : admitted[i] # t
  <2>1. t \in Unsent(ctl)
    BY <1>1, <1>2 DEF Unsent
  <2> QED BY <1>1, <1>2, <1>4, <2>1 DEF Places
<1>6. Places'
    BY <1>1, <1>2, <1>3, <1>5 DEF Places
<1>7. InOrder'
  <2>1. \A x, y : ~Ahead(ctl.q, y, x)
    BY <1>1 DEF Ahead, Before, Ids
  <2> QED BY <1>3, <2>1 DEF InOrder
<1> QED BY <1>2, <1>3, <1>6, <1>7 DEF Ranked

LEMMA UserRanked ==
    ASSUME OrderInv, User, ctl.link # "closed"
    PROVE  Ranked'
<1>1. WellFormed(ctl) /\ Orderly(ctl) /\ ctl.hydrated.turn \in Spent(ctl) \cup {NoTurn}
    BY OrderFacts
<1>2. ASSUME NEW t \in Locals, Cancel(t) PROVE Ranked'
  <2>1. ctl' = CancelQueuedPrompt(ctl, t) /\ admitted' = admitted /\ gone' = gone \cup {t}
    BY <1>2 DEF Cancel
  <2>2. Keeps(ctl, ctl') /\ Shifts(ctl.q, ctl'.q, {}, {t})
    BY <1>1, <2>1, CancelQueuedPromptKeeps, CancelQueuedPromptShifts
  <2> QED BY <2>1, <2>2, KeptSlid
<1>3. CASE Stop \/ SendPendingNow
  <2>1. PICK b \in BOOLEAN : ctl' = Interrupt(ctl, b)
    BY <1>3 DEF Stop, SendPendingNow, SendInterrupt
  <2>2. admitted' = admitted /\ gone' = gone
    BY <1>3 DEF Stop, SendPendingNow, SendInterrupt, history
  <2>3. Keeps(ctl, ctl') /\ Shifts(ctl.q, ctl'.q, {}, {})
    BY <1>1, <2>1, InterruptKeeps, QuietHandlersLine
  <2> QED BY <2>2, <2>3, KeptSlid
<1>4. CASE RetryRecovery
  <2>1. ctl' = RetryTurnRecovery(ctl) /\ admitted' = admitted /\ gone' = gone
    BY <1>4 DEF RetryRecovery, history
  <2>2. Keeps(ctl, ctl') /\ Shifts(ctl.q, ctl'.q, {}, {})
    BY <1>1, <2>1, RetryTurnRecoveryKeeps, QuietHandlersLine
  <2> QED BY <2>1, <2>2, KeptSlid
<1>5. CASE Continue
  <2>1. /\ ctl' = ContinueWithoutTurn(ctl) /\ admitted' = admitted /\ gone' = gone \cup {Active(ctl)}
        /\ Active(ctl) # NoTurn
    BY <1>5 DEF Continue, MayContinueWithoutTurn
  <2>2. Keeps(ctl, ctl') /\ Shifts(ctl.q, ctl'.q, Spent(ctl), {Active(ctl)})
    BY <1>1, <2>1, ContinueWithoutTurnKeeps, ContinueWithoutTurnShifts
  <2> QED BY <2>1, <2>2, KeptSlid
<1>6. CASE RetrySteer
  <2>1. ctl' = RetrySteerDelivery(ctl) /\ admitted' = admitted /\ gone' = gone
    BY <1>6 DEF RetrySteer, history
  <2>2. Keeps(ctl, ctl') /\ Shifts(ctl.q, ctl'.q, {}, {})
    BY <1>1, <2>1, RetrySteerDeliveryKeeps, FinishSteerLine, SameLineShifts
  <2> QED BY <2>1, <2>2, KeptSlid
<1>7. CASE SetSteeringEnabled
  <2>1. ctl' = [ctl EXCEPT !.steering = ~@] /\ admitted' = admitted /\ gone' = gone
    BY <1>7 DEF SetSteeringEnabled, history
  <2>2. Shifts(ctl.q, ctl'.q, {}, {})
    BY <1>1, <2>1, QuietHandlersLine
  <2>3. Unsent(ctl') = Unsent(ctl) /\ ctl'.steerAdmitted = ctl.steerAdmitted
    BY <1>1, <2>1 DEF WellFormed, Controllers, Unsent
  <2> QED BY <2>1, <2>2, <2>3, Slid
<1>8. CASE Retire
  <2>1. ctl'.link = "closed"
    BY <1>8 DEF Retire, Reset, InitController
  <2> QED BY <2>1 DEF Ranked
<1> QED BY <1>2, <1>3, <1>4, <1>5, <1>6, <1>7, <1>8, AdmitRanked, SubmitRanked DEF User
-----------------------------------------------------------------------------
(* The client *)

\* Handlers that leave the line as it is.
LEMMA QuietRanked ==
    ASSUME OrderInv, ctl.link # "closed", Shifts(ctl.q, ctl'.q, {}, {}), Keeps(ctl, ctl'),
           admitted' = admitted, gone \subseteq gone'
    PROVE  Ranked'
BY KeptSlid

\* A start that Core does not know and that is given up is never sent.
LEMMA RefusedRanked ==
    ASSUME OrderInv, TurnInv', ctl.link \notin {"closed", "draining"}, Plain, admitted' = admitted,
           NEW t \in Locals, srv[t] = "none", ~StartFrame(t),
           \/ ctl.local = t /\ ctl' = StartRefused(ctl, t)
           \/ ctl.startReq = t /\ ctl.stage = "preflight" /\ ctl' = PreflightNotReady(ctl, t)
    PROVE  Ranked'
<1>1. /\ LostInv /\ WellFormed(ctl) /\ Orderly(ctl) /\ t \in Turns
      /\ ctl.hydrated.turn \in Spent(ctl) \cup {NoTurn, t}
    BY OrderFacts DEF OrderInv, Turns
<1>2. PICK w : ViewOf(ctl, w) /\ Tended(ctl, w) /\ t \in w.dead
    BY <1>1, DeadView
<1>3. t \in {t} /\ t \in w.done \cup w.dead /\ {} \subseteq Turns
    BY <1>2
<1>4. Keeps(ctl, ctl') /\ gone \subseteq gone'
    BY DEF Plain
<1>5. PICK T : T = {x \in {t} : x \notin Unsent(ctl')}
    OBVIOUS
<1>6. T \subseteq gone' \cup Spent(ctl')
    BY <1>1, <1>5 DEF Spent, Sure
<1>7. CASE ctl.local = t /\ ctl' = StartRefused(ctl, t)
  <2>1. t \notin Unsent(ctl')
    BY <1>1, <1>2, <1>3, <1>7, StartRefusedTended
  <2>2. Shifts(ctl.q, ctl'.q, Spent(ctl), T)
    BY <1>1, <1>5, <1>7, <2>1, StartRefusedShifts
  <2> QED BY <1>4, <1>6, <2>2, KeptSlid
<1>8. CASE ctl.startReq = t /\ ctl.stage = "preflight" /\ ctl' = PreflightNotReady(ctl, t)
  <2>1. t \in Reviews => t \notin Unsent(ctl')
    BY <1>1, <1>2, <1>3, <1>8, PreflightNotReadyTended
  <2>2. Shifts(ctl.q, ctl'.q, Spent(ctl), T)
    BY <1>1, <1>5, <1>8, <2>1, PreflightNotReadyShifts
  <2> QED BY <1>4, <1>6, <2>2, KeptSlid
<1> QED BY <1>7, <1>8

\* A reply proves, or refuses for good, the start it answers.
LEMMA StartReplyRanked ==
    ASSUME OrderInv, TurnInv', ctl.link # "closed", NEW r \in replies, StartReply(r)
    PROVE  Ranked'
<1>1. /\ r \in Replies /\ r.kind = "start" /\ WellFormed(ctl) /\ Orderly(ctl) /\ AcceptedKnown
      /\ RepliesKnow /\ KnownInv /\ ctl.link # "draining" /\ wire \subseteq Requests
    BY DEF StartReply, Yielded, OrderInv, LostInv, TurnInv, KnownInv, SentInv, TypeOK
<1>2. r.turn \in Turns /\ r.turn \in Locals /\ (r.result = "busy" => r.by \in Turns)
    BY <1>1, ReplyForms
<1>3. \/ ctl' = ctl
      \/ OnWire(r.turn) /\ r.result = "ack" /\ ctl' = StartAcked(ctl, r.turn)
      \/ /\ OnWire(r.turn) /\ r.result = "busy" /\ StartCurrent(ctl, r.turn)
         /\ ctl' = StartCollided(ctl, r.turn, r.by)
      \/ OnWire(r.turn) /\ r.result # "ack" /\ ctl' = StartRejected(ctl, r.turn)
    BY DEF StartReply
<1>4. /\ [kind |-> "start", turn |-> r.turn] \notin wire
      /\ IF r.result = "ack" THEN srv[r.turn] # "none" ELSE srv[r.turn] = "none"
      /\ r.result = "busy" => srv[r.by] # "none"
    BY <1>1 DEF RepliesKnow
<1>5. ASSUME OnWire(r.turn), r.result # "ack" PROVE ctl.local = r.turn
    BY <1>1, <1>4, <1>5 DEF AcceptedKnown, Accepted, OnWire
<1>6. admitted' = admitted /\ gone' = gone
    BY DEF StartReply, history
<1>7. CASE ctl' = ctl
    BY <1>6, <1>7, SameRanked
<1>8. CASE OnWire(r.turn) /\ r.result = "ack" /\ ctl' = StartAcked(ctl, r.turn)
  <2>1. Keeps(ctl, ctl') /\ Shifts(ctl.q, ctl'.q, {}, {})
    BY <1>1, <1>2, <1>8, StartAckedKeeps, QuietHandlersLine DEF OnWire
  <2> QED BY <1>6, <2>1, QuietRanked
<1>9. CASE /\ OnWire(r.turn) /\ r.result = "busy" /\ StartCurrent(ctl, r.turn)
           /\ ctl' = StartCollided(ctl, r.turn, r.by)
  <2>1. ctl.local = r.turn /\ Active(ctl) = r.turn
    BY <1>5, <1>9 DEF StartCurrent
  <2>2. Sure(ctl, r.by) /\ r.by # r.turn
    BY <1>1, <1>2, <1>4, <1>9, KnownIsSure
  <2>3. Keeps(ctl, ctl')
    BY <1>1, <1>2, <1>9, StartCollidedKeeps
  <2>4. r.turn \notin Unsent(ctl')
    BY <1>1, <1>2, <1>9, <2>1, <2>2, StartCollidedPassed
  <2>5. r.by \in Spent(ctl) /\ r.turn \in Spent(ctl')
    BY <1>2, <2>2, <2>4 DEF Spent, Sure
  <2>6. Shifts(ctl.q, ctl'.q, Spent(ctl), Spent(ctl'))
    BY <1>1, <1>2, <1>9, <2>5, StartCollidedShifts
  <2> QED BY <1>6, <2>3, <2>6, KeptSlid
<1>10. CASE OnWire(r.turn) /\ r.result # "ack" /\ ctl' = StartRejected(ctl, r.turn)
  <2>1. Orders(ctl, ctl') /\ Keeps(ctl, ctl')
    BY <1>1, <1>2, <1>10, StartRejectedOrders, StartRefusedKeeps
  <2>2. Plain
    BY <2>1 DEF StartReply, Plain, Consumes, history, Orders
  <2>3. CASE StartCurrent(ctl, r.turn)
    <3>1. ctl' = StartRefused(ctl, r.turn) /\ ctl.local = r.turn
        BY <1>5, <1>10, <2>3 DEF StartRejected
    <3>2. ~StartFrame(r.turn) /\ srv[r.turn] = "none"
        BY <1>1, <1>4, <1>10, RequestForms DEF StartFrame
    <3>3. ctl.link \notin {"closed", "draining"}
        BY <1>1
    <3> QED BY <1>2, <1>6, <2>2, <3>1, <3>2, <3>3, RefusedRanked
  <2>4. CASE ~StartCurrent(ctl, r.turn)
    <3>1. Shifts(ctl.q, ctl'.q, {}, {})
        BY <1>1, <1>10, <2>4, QuietHandlersLine DEF StartRejected
    <3> QED BY <1>6, <2>1, <3>1, QuietRanked
  <2> QED BY <2>3, <2>4
<1> QED BY <1>3, <1>7, <1>8, <1>9, <1>10

\* Text that comes back goes ahead of the prompts of its own kind, as it should.
LEMMA SteerNotAdmittedRanked ==
    ASSUME OrderInv, ctl.link # "closed", ctl.steerReq # NoTurn, ctl' = SteerNotAdmitted(ctl),
           admitted' = admitted, gone' = gone
    PROVE  Ranked'
<1>1. WellFormed(ctl) /\ Orderly(ctl) /\ SteersKnown /\ Active(ctl) \in Turns \cup {NoTurn}
    BY OrderFacts DEF OrderInv, LostInv, TurnInv
<1>2. PICK N : N = ctl.steerAdmitted \cup Spent(ctl)
    OBVIOUS
<1>3. ctl.steerReq \in N
    BY <1>1, <1>2 DEF SteersKnown
<1>4. Active(ctl) \in ctl.attempted => Active(ctl) \in N
  <2> SUFFICES ASSUME Active(ctl) \in ctl.attempted PROVE Sure(ctl, Active(ctl))
    BY <1>2 DEF Spent, Sure
  <2>1. ctl.local = NoTurn
    BY <1>1 DEF Orderly, Leased
  <2> QED BY <1>1, <2>1, UnleasedIsSent
<1>5. Shifts(ctl.q, ctl'.q, N, {})
    BY <1>1, <1>3, <1>4, SteerEndsShift
<1>6. Keeps(ctl, ctl')
    BY <1>1, SteerEndsKeep
<1> QED BY <1>2, <1>5, <1>6, KeptSlid

\* The turn that Core made of the steer, and the one it was sent to, are known to Core.
LEMMA SteerReplyRanked ==
    ASSUME OrderInv, ctl.link # "closed", NEW r \in replies, SteerReply(r)
    PROVE  Ranked'
<1>1. /\ WellFormed(ctl) /\ Orderly(ctl) /\ SteersKnown /\ TypeOK /\ CoreInvariant /\ KnownInv
      /\ RepliesKnow /\ r.kind = "steer" /\ Watched
    BY OrderFacts DEF OrderInv, LostInv, TurnInv, KnownInv, SentInv, SteerReply
<1>2. r \in Replies /\ r.turn \in Locals /\ r.turn # NoTurn
      /\ r.result \in {"steered", "reject", "fellback"}
    BY <1>1, ReplyForms, TurnsAssumption DEF TypeOK
<1>3. admitted' = admitted /\ gone' = gone
    BY DEF SteerReply, history
<1>4. CASE ctl' = ctl
    BY <1>3, <1>4, SameRanked
<1>5. CASE ctl.steerReq = r.turn /\ r.result = "steered"
  <2>1. ctl' = SteerAccepted(ctl) /\ ctl.steerReq # NoTurn
    BY <1>2, <1>5 DEF SteerReply
  <2>2. Keeps(ctl, ctl')
    BY <1>1, <2>1, SteerEndsKeep
  <2>3. ctl'.q = ctl.q
    <3>1. Active(ctl) \in ctl.attempted => Active(ctl) \in ctl.attempted \cup {ctl.steerReq}
        OBVIOUS
    <3>2. ctl.steerReq \in ctl.attempted \cup {ctl.steerReq}
        OBVIOUS
    <3> QED BY <1>1, <2>1, <3>1, <3>2, SteerEndsShift
  <2>4. Shifts(ctl.q, ctl'.q, {}, {})
    BY <2>3, SameLineShifts
  <2> QED BY <1>3, <2>2, <2>4, QuietRanked
<1>6. CASE ctl.steerReq = r.turn /\ r.result = "fellback"
  <2>1. ctl' = SteerFellBack(ctl, r.by) /\ ctl.steerReq # NoTurn
    BY <1>2, <1>6 DEF SteerReply
  <2>2. r.by \in Turns /\ srv[r.by] # "none"
    BY <1>1, <1>6 DEF RepliesKnow, CoreInvariant, ReturnedOnce, Turns
  <2>3. ctl.steerOwner \in KnownTurns
    BY <1>1, <2>1 DEF Watched, Tended, Sound, View
  <2>4. r.by \in Spent(ctl) /\ ctl.steerOwner \in Spent(ctl)
    BY <2>2, <2>3, OrderFacts DEF KnownTurns
  <2>5. Keeps(ctl, ctl')
    BY <1>1, <2>1, <2>2, SteerFellBackKeeps
  <2>6. Spent(ctl) \subseteq Spent(ctl')
    BY <2>5, SpentStays DEF Keeps
  <2>7. ctl.steerOwner \in Spent(ctl')
    BY <2>4, <2>6
  <2>8. Shifts(ctl.q, ctl'.q, Spent(ctl), Spent(ctl'))
    BY <1>1, <2>1, <2>2, <2>4, <2>7, SteerFellBackShifts
  <2> QED BY <1>3, <2>5, <2>8, KeptSlid
<1>7. CASE ctl.steerReq = r.turn /\ r.result = "reject"
  <2>1. ctl' = SteerNotAdmitted(ctl) /\ ctl.steerReq # NoTurn
    BY <1>2, <1>7 DEF SteerReply
  <2> QED BY <1>3, <2>1, SteerNotAdmittedRanked
<1> QED BY <1>2, <1>4, <1>5, <1>6, <1>7 DEF SteerReply

\* A lookup ends the turn only if Core knows it.
LEMMA LookupReplyRanked ==
    ASSUME OrderInv, ctl.link # "closed", NEW s \in LookupStates, LookupReply(s)
    PROVE  Ranked'
<1>1. /\ WellFormed(ctl) /\ Orderly(ctl) /\ TypeOK /\ KnownInv
      /\ ctl' = LookupReturned(ctl, ctl.lookup, s)
      /\ ctl.lookup # NoTurn /\ s \in LookupResults(ctl.lookup)
      /\ admitted' = admitted /\ gone' = gone
    BY OrderFacts DEF LookupReply, history
<1>2. PICK t : t = ctl.lookup
    OBVIOUS
<1>3. t \in Turns /\ ctl' = LookupReturned(ctl, t, s)
    BY <1>1, <1>2 DEF WellFormed, Controllers, OptTurn
<1>4. Keeps(ctl, ctl')
    BY <1>1, <1>3, LookupReturnedKeeps
<1>5. s \notin {"unknown", "error"} => srv[t] # "none"
  <2>1. ASSUME NEW i \in DOMAIN notes, notes[i] = [kind |-> "terminal", turn |-> t]
        PROVE  srv[t] # "none"
    BY <1>1, <2>1 DEF KnownInv, StreamKnows
  <2> QED BY <1>1, <1>2, <2>1 DEF LookupResults
<1>6. Spent(ctl) \subseteq Spent(ctl')
    BY <1>4, SpentStays DEF Keeps
<1>7. s \in {"unknown", "error"} \/ t \in Spent(ctl')
    BY <1>3, <1>5, <1>6, OrderFacts
<1>8. ctl.hydrated.turn \in Spent(ctl) \cup {NoTurn, t}
    BY OrderFacts
<1>9. Shifts(ctl.q, ctl'.q, Spent(ctl), Spent(ctl'))
    BY <1>1, <1>3, <1>7, <1>8, LookupReturnedShifts
<1> QED BY <1>1, <1>4, <1>9, KeptSlid

LEMMA ClientRanked ==
    ASSUME OrderInv, Client, ctl.link # "closed"
    PROVE  Ranked'
<1>1. TurnInv' /\ WellFormed(ctl) /\ Orderly(ctl) /\ TurnInv
    BY ClientTurn, OrderFacts DEF OrderInv, LostInv
<1>2. ASSUME NEW t \in Locals, Dispatch(t) PROVE Ranked'
  <2>1. /\ ctl' = MarkSent(ctl, t) /\ admitted' = admitted /\ gone' = gone /\ t \in Turns
        /\ ctl.startReq = t /\ ctl.stage = "preflight"
    BY <1>2 DEF Dispatch, InPreflight, Turns
  <2>2. Keeps(ctl, ctl') /\ Shifts(ctl.q, ctl'.q, {}, {})
    BY <1>1, <2>1, MarkSentKeeps, QuietHandlersLine
  <2> QED BY <2>1, <2>2, QuietRanked
<1>3. ASSUME NEW t \in Locals, PreflightEndsNotReady(t) \/ SeatRefused(t) PROVE Ranked'
  <2>1. /\ ctl.startReq = t /\ ctl.stage = "preflight" /\ StartCurrent(ctl, t) /\ t \in Turns
        /\ ctl.link \notin {"closed", "draining"} /\ admitted' = admitted
        /\ ctl' = StartRefused(ctl, t) \/ ctl' = PreflightNotReady(ctl, t)
    BY <1>3 DEF PreflightEndsNotReady, SeatRefused, InPreflight, Yielded, history, Turns
  <2>2. Orders(ctl, ctl') /\ Keeps(ctl, ctl')
    BY <1>1, <2>1, StartRefusedOrders, StartRefusedKeeps, PreflightNotReadyOrders, PreflightNotReadyKeeps
       DEF StartCurrent
  <2>3. Plain
    BY <1>3, <2>2 DEF PreflightEndsNotReady, SeatRefused, Plain, Consumes, channels, history, Orders
  <2>4. t \in Unsent(ctl) /\ ctl.local = t
    BY <1>1, <2>1 DEF Unsent, Orderly, Leased
  <2>5. srv[t] = "none" /\ ~StartFrame(t)
    <3>1. sends[t] = 0 /\ srv[t] = "none"
        BY <1>1, <2>1, <2>4, UnsentUnknown DEF TurnInv
    <3> QED BY <1>1, <3>1 DEF TurnInv, KnownInv, StartsKnow, StartFrame
  <2> QED BY <1>1, <2>1, <2>3, <2>4, <2>5, RefusedRanked
<1>4. ASSUME NEW t \in Locals, StartTimeout(t) PROVE Ranked'
  <2>1. ctl' = StartUnconfirmed(ctl, t) /\ admitted' = admitted /\ gone' = gone /\ t \in Turns
    BY <1>4 DEF StartTimeout, history, Turns
  <2>2. Keeps(ctl, ctl') /\ Shifts(ctl.q, ctl'.q, {}, {})
    BY <1>1, <2>1, StartUnconfirmedKeeps, QuietHandlersLine
  <2> QED BY <2>1, <2>2, QuietRanked
<1>5. CASE SteerDispatch
  <2>1. ctl.steerReq # NoTurn /\ admitted' = admitted /\ gone' = gone
    BY <1>5 DEF SteerDispatch
  <2>2. CASE ctl' = SteerNotAdmitted(ctl)
    BY <2>1, <2>2, SteerNotAdmittedRanked
  <2>3. CASE ctl' = UpdateSteer(ctl, ctl.steerReq, "sent")
    <3>1. Keeps(ctl, ctl') /\ Shifts(ctl.q, ctl'.q, {}, {})
        BY <1>1, <2>3, UpdateSteerKeeps, QuietHandlersLine
    <3> QED BY <2>1, <3>1, QuietRanked
  <2> QED BY <1>5, <2>2, <2>3 DEF SteerDispatch
<1>6. CASE SteerTimeout
  <2>1. ctl.steerReq \in steerSent /\ ctl' = SteerUnconfirmed(ctl) /\ admitted' = admitted /\ gone' = gone
    BY <1>6 DEF SteerTimeout, history
  <2>2. ctl.steerReq # NoTurn
    BY <1>1, <2>1, TurnsAssumption DEF TurnInv, KnownInv, SentInv, TypeOK
  <2>3. Keeps(ctl, ctl')
    BY <1>1, <2>1, <2>2, SteerEndsKeep
  <2>4. ctl'.q = ctl.q
    <3>1. ctl.steerReq \in ctl.attempted \cup {ctl.steerReq}
          /\ (Active(ctl) \in ctl.attempted => Active(ctl) \in ctl.attempted \cup {ctl.steerReq})
        OBVIOUS
    <3> QED BY <1>1, <2>1, <2>2, <3>1, SteerEndsShift
  <2>5. Shifts(ctl.q, ctl'.q, {}, {})
    BY <2>4, SameLineShifts
  <2> QED BY <2>1, <2>3, <2>5, QuietRanked
<1>7. ASSUME NEW b \in BOOLEAN, InterruptReply(b) \/ OwnerInteraction(b) PROVE Ranked'
  <2>1. Keeps(ctl, ctl') /\ Shifts(ctl.q, ctl'.q, {}, {})
    <3>1. CASE InterruptReply(b)
        BY <1>1, <3>1, InterruptKeeps, QuietHandlersLine DEF InterruptReply
    <3>2. CASE OwnerInteraction(b)
        BY <1>1, <3>2, SetAcceptedOwnerInteractionKeeps, QuietHandlersLine DEF OwnerInteraction
    <3> QED BY <1>7, <3>1, <3>2
  <2>2. admitted' = admitted /\ gone' = gone
    BY <1>7 DEF InterruptReply, OwnerInteraction, history
  <2> QED BY <2>1, <2>2, QuietRanked
<1> QED BY <1>1, <1>2, <1>3, <1>4, <1>5, <1>6, <1>7, StartReplyRanked, SteerReplyRanked,
           LookupReplyRanked DEF Client
-----------------------------------------------------------------------------
(* Transport and recovery *)

\* Only steering text that was not written is queued again, ahead of the others.
LEMMA SuspendRanked ==
    ASSUME OrderInv, ctl.link # "closed", NEW l \in {"down", "opening"}, Suspend(l),
           admitted' = admitted, gone' = gone
    PROVE  Ranked'
<1> DEFINE d == SuspendTransport(ctl)
<1>1. WellFormed(ctl) /\ Orderly(ctl)
    BY OrderFacts
<1>2. ctl' = [d EXCEPT !.link = l, !.lookup = IF l = "down" THEN NoTurn ELSE @]
    BY DEF Suspend
<1>3. Keeps(ctl, d)
    BY <1>1, SuspendTransportKeeps
<1>4. PICK N : N = ctl.steerAdmitted \cup Spent(ctl)
    OBVIOUS
<1>5. ASSUME UnsentSteers(ctl) # <<>>
      PROVE  /\ TurnsOf(UnsentSteers(ctl)) \subseteq N
             /\ Active(ctl) \in ctl.attempted => Active(ctl) \in N
  <2>1. UnsentSteers(ctl) = <<ctl.steerReq>> /\ ctl.steerReq \in RetainedTurns(ctl)
    BY <1>5 DEF UnsentSteers, RetainedTurns
  <2>2. ctl.steerReq \in ctl.steerAdmitted /\ ctl.steerReq # NoTurn
    BY <1>1, <2>1, TurnsAssumption DEF Orderly, Fifo
  <2>3. TurnsOf(UnsentSteers(ctl)) \subseteq N
    BY <1>4, <2>1, <2>2 DEF TurnsOf
  <2>4. ctl.local = NoTurn
    BY <1>1, <2>2 DEF Orderly, Leased
  <2>5. Active(ctl) \in ctl.attempted => Active(ctl) \in N
    BY <1>1, <1>4, <2>4, UnleasedIsSent DEF Spent, Sure
  <2> QED BY <2>3, <2>5
<1>6. TurnsOf(UnsentSteers(ctl)) \subseteq N
    BY <1>5 DEF TurnsOf
<1>7. Shifts(ctl.q, d.q, N, {})
    BY <1>1, <1>5, <1>6, SuspendTransportShifts
<1> HIDE DEF d
<1>8. /\ ctl'.q = d.q /\ ctl'.steerAdmitted = d.steerAdmitted /\ ctl'.attempted = d.attempted
      /\ ctl'.preflight = d.preflight /\ ctl'.startReq = d.startReq /\ ctl'.stage = d.stage
    BY <1>2, <1>3 DEF Keeps, WellFormed, Controllers
<1>9. Unsent(ctl') \subseteq Unsent(ctl) /\ ctl'.steerAdmitted = ctl.steerAdmitted
    BY <1>3, <1>8 DEF Keeps, Unsent
<1>10. N \subseteq ctl.steerAdmitted \cup Spent(ctl')
    BY <1>4, <1>9, SpentStays
<1> QED BY <1>7, <1>8, <1>9, <1>10, Slid

\* Nothing but the link changes.
LEMMA RelinkedRanked ==
    ASSUME OrderInv, ctl.link # "closed", NEW l, ctl' = [ctl EXCEPT !.link = l],
           admitted' = admitted, gone' = gone
    PROVE  Ranked'
<1>1. WellFormed(ctl)
    BY OrderFacts
<1>2. ctl'.q = ctl.q /\ Unsent(ctl') = Unsent(ctl) /\ ctl'.steerAdmitted = ctl.steerAdmitted
    BY <1>1, RelinkedFields
<1>3. Shifts(ctl.q, ctl'.q, {}, {})
    BY <1>2, SameLineShifts
<1> QED BY <1>2, <1>3, Slid

\* The drain takes the head of the queue as it is.
LEMMA ReadyRanked ==
    ASSUME OrderInv, Ready
    PROVE  Ranked'
<1> DEFINE d == [ctl EXCEPT !.link = "ready"]
<1>1. WellFormed(ctl) /\ ctl.link = "draining" /\ admitted' = admitted /\ gone' = gone
    BY OrderFacts DEF Ready, history
<1>2. WellFormed(d) /\ Unsent(d) = Unsent(ctl)
    BY <1>1, RelinkKeeps DEF Links
<1>3. d.q = ctl.q /\ d.steerAdmitted = ctl.steerAdmitted
    BY <1>1 DEF WellFormed, Controllers
<1>4. ctl' = StartTurn(d, Active(d))
    BY DEF Ready, ResumePendingTurn
<1> HIDE DEF d
<1>5. ctl'.q = d.q /\ Keeps(d, ctl')
    BY <1>2, <1>4, StartTurnLine, StartTurnKeeps
<1>6. Shifts(ctl.q, ctl'.q, {}, {})
    BY <1>3, <1>5, SameLineShifts
<1>7. Unsent(ctl') \subseteq Unsent(ctl) /\ ctl'.steerAdmitted = ctl.steerAdmitted
    BY <1>2, <1>3, <1>5 DEF Keeps
<1> QED BY <1>1, <1>6, <1>7, Slid

\* What hydrate puts first, or takes out as ended, is known to Core.
LEMMA HydratedRanked ==
    ASSUME OrderInv, Hydrated
    PROVE  Ranked'
<1> DEFINE d == [ctl EXCEPT !.link = "draining"]
<1>1. /\ WellFormed(ctl) /\ Orderly(ctl) /\ TypeOK /\ KnownInv
      /\ ctl.link \in {"opening", "recovering"} /\ admitted' = admitted /\ gone' = gone
    BY OrderFacts DEF Hydrated, history
<1>2. WellFormed(d) /\ Unsent(d) = Unsent(ctl) /\ d.link = "draining"
    BY <1>1, RelinkKeeps DEF Links
<1>3. /\ d.q = ctl.q /\ d.steerAdmitted = ctl.steerAdmitted /\ d.local = ctl.local
      /\ d.hydrated = ctl.hydrated
    BY <1>1 DEF WellFormed, Controllers
<1>4. Orderly(d)
    BY <1>1, RelinkOrders DEF Links, Orders
<1>5. PICK b \in BOOLEAN : /\ b = (ctl.link = "recovering")
                           /\ ctl' = ReconcileFromHydrate(d, snap, b)
    BY DEF Hydrated
<1> HIDE DEF d
<1>6. b \/ d.local = NoTurn
    BY <1>1, <1>3, <1>5 DEF Orderly, Leased, Linked
<1>7. \A t \in Turns : snap[t] \in {"active", "interrupting", "done"} => t \in Spent(ctl)
    BY <1>1, OrderFacts DEF KnownInv, StreamKnows
<1>8. Keeps(d, ctl')
    BY <1>2, <1>5, ReconcileFromHydrateKeeps
<1>9. /\ Unsent(ctl') \subseteq Unsent(ctl) /\ ctl'.steerAdmitted = ctl.steerAdmitted
      /\ Spent(ctl) \subseteq Spent(ctl')
    BY <1>2, <1>3, <1>8, SpentStays DEF Keeps
<1>10. /\ ServerForeground(snap) \subseteq Spent(ctl)
       /\ \A t \in ServerForeground(snap) : Sure(d, t)
  <2>1. ServerForeground(snap) \subseteq Spent(ctl)
    BY <1>7 DEF ServerForeground
  <2> QED BY <1>2, <2>1 DEF Spent, Sure
<1>11. Active(d) # NoTurn /\ Active(d) \in d.attempted /\ snap[Active(d)] = "done" => Active(d) \in Spent(ctl')
  <2>1. Active(d) \in Turns \cup {NoTurn}
    BY <1>1, <1>3, OrderFacts DEF Active
  <2> QED BY <1>7, <1>9, <2>1
<1>12. Linked(d)
    BY <1>2 DEF Linked
<1>13. Shifts(d.q, ctl'.q, Spent(ctl), Spent(ctl'))
    BY <1>2, <1>4, <1>5, <1>6, <1>10, <1>11, <1>12, ReconcileFromHydrateShifts
<1> QED BY <1>1, <1>3, <1>9, <1>13, Slid

\* The stream mentions only turns that Core knows, and what it returns is steering text.
LEMMA ObserveRanked ==
    ASSUME OrderInv, Observe
    PROVE  Ranked'
<1>1. /\ WellFormed(ctl) /\ Orderly(ctl) /\ TypeOK /\ KnownInv /\ SteersOnce /\ Watched
      /\ ctl.link # "closed" /\ notes # <<>> /\ notes' = Tail(notes)
      /\ admitted' = admitted /\ gone' = gone
    BY OrderFacts DEF Observe, history, KnownInv
<1>2. PICK n : n = notes[1]
    OBVIOUS
<1>3. PICK t : t = n.turn
    OBVIOUS
<1>4. n \in Notes /\ 1 \in DOMAIN notes /\ Head(notes) = n
    BY <1>1, <1>2, TailAt
<1>5. /\ t \in Turns
      /\ n.kind \in {"started", "terminal", "dropped"}
      /\ n.kind = "dropped" => n.inputs \in Seq(Locals)
    BY <1>3, <1>4 DEF Notes
<1>6. t \in Spent(ctl)
  <2>1. srv[t] # "none"
    BY <1>1, <1>2, <1>3, <1>4 DEF KnownInv, StreamKnows
  <2> QED BY <1>1, <1>5, <2>1, OrderFacts
<1>7. CASE ctl' = ctl
    BY <1>1, <1>7, SameRanked
<1>8. CASE ctl' \in {ObserveTurnStarted(ctl, t), ObserveTerminal(ctl, t)}
  <2>1. Keeps(ctl, ctl')
    BY <1>1, <1>5, <1>8, ObserveTurnStartedKeeps, ObserveTerminalKeeps
  <2>2. t \in Spent(ctl')
    BY <1>6, <2>1, SpentStays DEF Keeps
  <2>3. ctl.hydrated.turn \in Spent(ctl) \cup {NoTurn, t}
    BY <1>1, OrderFacts
  <2>4. Shifts(ctl.q, ctl'.q, Spent(ctl), Spent(ctl'))
    BY <1>1, <1>5, <1>6, <1>8, <2>2, <2>3, ObservesShift
  <2> QED BY <1>1, <2>1, <2>4, KeptSlid
<1>9. CASE n.kind = "dropped"
  <2>1. PICK given : given = n.inputs
    OBVIOUS
  <2>2. ctl' = ObserveSteerDropped(ctl, t, given)
    BY <1>3, <1>4, <1>9, <2>1 DEF Observe
  <2>3. given \in Seq(Turns) /\ NoRepeat(given)
    <3>1. \A s \in Seq(Locals) : s \in Seq(Turns)
        BY DEF Turns
    <3> QED BY <1>1, <1>2, <1>4, <1>5, <1>9, <2>1, <3>1 DEF SteersOnce
  <2>4. Keeps(ctl, ctl')
    BY <1>1, <1>5, <2>2, <2>3, ObserveSteerDroppedKeeps
  <2>5. PICK N : N = ctl.steerAdmitted \cup Spent(ctl)
    OBVIOUS
  <2>6. RetainedTurns(ctl) \subseteq N
    BY <1>1, <2>5 DEF Orderly, Fifo
  <2>7. t \in SteerOwners(ctl) /\ Active(ctl) \in ctl.attempted => Active(ctl) \in N
    <3> SUFFICES ASSUME t \in SteerOwners(ctl), Active(ctl) \in ctl.attempted
                 PROVE  Sure(ctl, Active(ctl))
        BY <2>5 DEF Spent, Sure
    <3>1. ctl.local # NoTurn => t \in QuietTurns
        BY <1>1 DEF Watched, Tended, Tends, View
    <3>2. t \notin QuietTurns
        BY <1>2, <1>3, <1>4 DEF QuietTurns
    <3> QED BY <1>1, <3>1, <3>2, UnleasedIsSent
  <2>8. Shifts(ctl.q, ctl'.q, N, {})
    BY <1>1, <1>5, <2>2, <2>3, <2>6, <2>7, ObserveSteerDroppedShifts
  <2> QED BY <1>1, <2>4, <2>5, <2>8, KeptSlid
<1>10. n.kind # "dropped" => ctl' \in {ctl, ObserveTurnStarted(ctl, t), ObserveTerminal(ctl, t)}
    BY <1>3, <1>4, <1>5 DEF Observe
<1> QED BY <1>7, <1>8, <1>9, <1>10

LEMMA TransportRanked ==
    ASSUME OrderInv, Transport, ctl.link # "closed"
    PROVE  Ranked'
<1>1. CASE LoseTransport \/ Reopen
  <2>1. PICK l \in {"down", "opening"} : Suspend(l)
    BY <1>1 DEF LoseTransport, Reopen
  <2>2. admitted' = admitted /\ gone' = gone
    BY <1>1 DEF LoseTransport, Reopen
  <2> QED BY <2>1, <2>2, SuspendRanked
<1>2. CASE ReopenFails \/ Gap \/ GapFails
  <2>1. \E l : ctl' = [ctl EXCEPT !.link = l]
    BY <1>2 DEF ReopenFails, Gap, GapFails
  <2>2. admitted' = admitted /\ gone' = gone
    BY <1>2 DEF ReopenFails, Gap, GapFails, history
  <2> QED BY <2>1, <2>2, RelinkedRanked
<1>3. CASE AnswerHydrate \/ \E m \in wire : LoseRequest(m)
    BY <1>3, SameRanked DEF AnswerHydrate, LoseRequest, history
<1> QED BY <1>1, <1>2, <1>3, HydratedRanked, ReadyRanked, ObserveRanked DEF Transport
-----------------------------------------------------------------------------
LEMMA InitOrderInv == Init => OrderInv
<1> SUFFICES ASSUME Init PROVE OrderInv
    OBVIOUS
<1>1. ctl = InitController /\ admitted = <<>>
    BY DEF Init
<1>2. ctl.q = EmptyQueue /\ ctl.steerAdmitted = {}
    BY <1>1 DEF InitController
<1>3. InOrder
    BY <1>1, <1>2 DEF InOrder, GoesFirst
<1>4. Places /\ Packed(ctl.q)
    BY <1>1, <1>2 DEF Places, Packed, EmptyQueue
<1> QED BY <1>3, <1>4, InitLostInv DEF OrderInv, Ranked

LEMMA NextOrderInv == OrderInv /\ [Next]_vars => OrderInv'
<1> SUFFICES ASSUME OrderInv, [Next]_vars PROVE OrderInv'
    OBVIOUS
<1>1. LostInv'
    BY NextLostInv DEF OrderInv
<1>2. CASE User \/ Client \/ Transport
  <2>1. CASE ctl.link = "closed"
    <3>1. ctl' = [ctl EXCEPT !.steering = ~@]
        BY <1>2, <2>1, ClosedStep DEF OrderInv, SetSteeringEnabled
    <3>2. ctl'.link = "closed"
        BY <2>1, <3>1 DEF OrderInv, LostInv, TurnInv, KnownInv, SentInv, TypeOK, Controllers
    <3> QED BY <1>1, <3>2 DEF OrderInv, Ranked
  <2>2. CASE ctl.link # "closed"
    BY <1>1, <1>2, <2>2, UserRanked, ClientRanked, TransportRanked DEF OrderInv
  <2> QED BY <2>1, <2>2
<1>3. CASE Core
  <2>1. ctl' = ctl /\ admitted' = admitted /\ gone' = gone
    BY <1>3 DEF Core, CoreStart, CoreInterrupt, CoreSteer, ForeignStart, CoreDrain, CoreEnd, history
  <2> QED BY <1>1, <2>1, SameRanked DEF OrderInv
<1>4. CASE UNCHANGED vars
  <2>1. ctl' = ctl /\ admitted' = admitted /\ gone' = gone
    BY <1>4 DEF vars, history
  <2> QED BY <1>1, <2>1, SameRanked DEF OrderInv
<1> QED BY <1>2, <1>3, <1>4 DEF Next

\* A start frame is written for the head of the queue, which was not sent before.
LEMMA OnlyDispatchSends ==
    ASSUME OrderInv, [Next]_vars, NEW t \in Locals, sends'[t] > sends[t]
    PROVE  ctl.link # "closed" /\ Active(ctl) = t /\ t \in Unsent(ctl)
<1>1. sends \in [Turns -> Nat]
    BY DEF OrderInv, LostInv, TurnInv, KnownInv, SentInv, TypeOK
<1>2. sends' # sends
    BY <1>1 DEF Turns
<1>3. \E u \in Locals : Dispatch(u)
  <2>1. CASE User
    BY <1>2, <2>1 DEF User, Admit, Cancel, Submit, Stop, SendPendingNow, SendInterrupt, RetryRecovery,
       Continue, RetrySteer, SetSteeringEnabled, Retire, history
  <2>2. CASE Client
    BY <1>2, <2>2 DEF Client, PreflightEndsNotReady, SeatRefused, StartTimeout, StartReply, SteerReply,
       SteerDispatch, SteerTimeout, InterruptReply, OwnerInteraction, LookupReply, history
  <2>3. CASE Transport
    BY <1>2, <2>3 DEF Transport, LoseTransport, Reopen, ReopenFails, Gap, GapFails, LoseRequest,
       AnswerHydrate, Hydrated, Ready, Observe, history
  <2>4. CASE Core
    BY <1>2, <2>4 DEF Core, CoreStart, CoreInterrupt, CoreSteer, ForeignStart, CoreDrain, CoreEnd, history
  <2> QED BY <1>2, <2>1, <2>2, <2>3, <2>4 DEF Next, vars, history
<1>4. PICK u \in Locals : Dispatch(u)
    BY <1>3
<1>5. u = t
    BY <1>1, <1>4 DEF Dispatch, Turns
<1> QED BY <1>4, <1>5 DEF Dispatch, InPreflight, StartCurrent, Unsent, Turns

\* A prompt that waits was never sent, and the active turn is ahead of it.
LEMMA WaitsBehind ==
    ASSUME OrderInv, ctl.link # "closed", NEW x \in Ids(ctl.q.pending)
    PROVE  x \in Unsent(ctl) /\ Ahead(ctl.q, Active(ctl), x)
<1>1. Orderly(ctl)
    BY OrderFacts
<1>2. x \in Turns /\ x \notin ctl.attempted
    BY <1>1 DEF Orderly, Fifo, Turns
<1> QED BY <1>2 DEF Unsent, Ahead, Active

\* Prompts leave in the order in which they were admitted, however cancels, interrupts,
\* refused and collided starts, suspends and hydrates interleave: StartTurn sends the head
\* of the queue only, and nothing puts an unsent prompt ahead of an earlier one.
THEOREM NothingOvertakes == Spec => NoOvertaking
<1>1. OrderInv /\ [Next]_vars
      => [\A i, j \in DOMAIN admitted :
            i < j /\ sends'[admitted[j]] > sends[admitted[j]]
            => admitted[i] \notin Ids(ctl.q.pending)]_vars
  <2> SUFFICES ASSUME OrderInv, [Next]_vars, NEW i \in DOMAIN admitted, NEW j \in DOMAIN admitted,
                      i < j, sends'[admitted[j]] > sends[admitted[j]],
                      admitted[i] \in Ids(ctl.q.pending)
               PROVE  FALSE
    OBVIOUS
  <2>1. PICK t : t = admitted[j]
    OBVIOUS
  <2>2. PICK x : x = admitted[i]
    OBVIOUS
  <2>3. t \in Locals
    BY <2>1 DEF OrderInv, LostInv, TurnInv, KnownInv, SentInv, TypeOK
  <2>4. ctl.link # "closed" /\ Active(ctl) = t /\ t \in Unsent(ctl)
    BY <2>1, <2>3, OnlyDispatchSends
  <2>5. x \in Unsent(ctl) /\ Ahead(ctl.q, t, x)
    BY <2>2, <2>4, WaitsBehind
  <2>6. GoesFirst(x, t)
    BY <2>1, <2>2 DEF GoesFirst
  <2> QED BY <2>4, <2>5, <2>6, OrderFacts DEF InOrder
<1>2. Spec => []OrderInv
    BY InitOrderInv, NextOrderInv, PTL DEF Spec
<1> QED BY <1>1, <1>2, PTL DEF Spec, NoOvertaking

\* Text that the controller took back from steering goes ahead of the prompts that were
\* submitted as such: RestageSteers puts it before everything that was not sent.
THEOREM ReturnedTextFirst == Spec => ReturnedTextGoesFirst
<1>1. OrderInv /\ [Next]_vars
      => [\A q \in Locals :
            sends'[q] > sends[q] /\ q \notin ctl.steerAdmitted
            => Ids(ctl.q.pending) \cap ctl.steerAdmitted = {}]_vars
  <2> SUFFICES ASSUME OrderInv, [Next]_vars, NEW t \in Locals, sends'[t] > sends[t],
                      t \notin ctl.steerAdmitted, NEW x \in Ids(ctl.q.pending) \cap ctl.steerAdmitted
               PROVE  FALSE
    OBVIOUS
  <2>1. ctl.link # "closed" /\ Active(ctl) = t /\ t \in Unsent(ctl)
    BY OnlyDispatchSends
  <2>2. x \in Unsent(ctl) /\ Ahead(ctl.q, t, x)
    BY <2>1, WaitsBehind
  <2>3. GoesFirst(x, t)
    BY DEF GoesFirst
  <2> QED BY <2>1, <2>2, <2>3, OrderFacts DEF InOrder
<1>2. Spec => []OrderInv
    BY InitOrderInv, NextOrderInv, PTL DEF Spec
<1> QED BY <1>1, <1>2, PTL DEF Spec, ReturnedTextGoesFirst
-----------------------------------------------------------------------------
(* The queue does not advance over the foreground turn of hydrate.         *)

\* The prompts that Core does not know and will not hear of.
NeverTurns == {x \in Locals : srv[x] = "none" /\ ~StartFrame(x)}

ForegroundInv ==
    /\ LostInv
    /\ ctl.link # "closed" => Barred(ctl, gone, NeverTurns, KnownTurns)

\* What a step may do: nothing starts beside hydrate's foreground turn.
Waits == Barred(ctl', gone', NeverTurns, KnownTurns) /\ StartsClear(ctl, ctl', gone')

\* What holds of fewer prompts holds of more, and more is let go and known.
LEMMA BarredGrows ==
    ASSUME NEW c, NEW G, NEW D, NEW K, NEW H, NEW E, NEW L, Barred(c, G, D, K),
           G \subseteq H, D \subseteq E, K \subseteq L
    PROVE  Barred(c, H, E, L)
<1>1. Open(c, H) => Open(c, G)
    BY DEF Open
<1> QED BY <1>1 DEF Barred

LEMMA ForegroundFacts ==
    ASSUME ForegroundInv, ctl.link # "closed", gone \subseteq gone'
    PROVE  /\ WellFormed(ctl) /\ Orderly(ctl) /\ TypeOK /\ KnownInv /\ Watched /\ TurnInv
           /\ CoreInvariant
           /\ Told(ctl, NeverTurns, KnownTurns) /\ Barred(ctl, gone', NeverTurns, KnownTurns)
<1>1. /\ WellFormed(ctl) /\ Orderly(ctl) /\ TypeOK /\ KnownInv /\ Watched /\ TurnInv
      /\ CoreInvariant /\ StartsKnow
    BY DEF ForegroundInv, LostInv, TurnInv, KnownInv, SentInv
<1>2. \A t \in KnownTurns : Sure(ctl, t)
    BY <1>1, KnownIsSure DEF KnownTurns
<1>3. ASSUME NEW t \in Unsent(ctl) \cap Locals PROVE t \in NeverTurns
  <2>1. sends[t] = 0 /\ srv[t] = "none"
    BY <1>1, UnsentUnknown
  <2> QED BY <1>1, <2>1 DEF StartsKnow, StartFrame, NeverTurns
<1>4. NeverTurns \cap KnownTurns = {}
    BY DEF NeverTurns, KnownTurns
<1>5. Barred(ctl, gone, NeverTurns, KnownTurns)
    BY DEF ForegroundInv
<1>6. Barred(ctl, gone', NeverTurns, KnownTurns)
    BY <1>5, BarredGrows
<1> QED BY <1>1, <1>2, <1>3, <1>4, <1>6 DEF Told

LEMMA BarsWaits ==
    ASSUME Bars(ctl, ctl', gone', NeverTurns, KnownTurns)
    PROVE  Waits
BY DEF Bars, Waits

LEMMA SameWaits ==
    ASSUME ForegroundInv, ctl.link # "closed", ctl' = ctl, gone \subseteq gone'
    PROVE  Waits
BY ForegroundFacts DEF Waits, StartsClear
-----------------------------------------------------------------------------
(* The user *)

LEMMA UserWaits ==
    ASSUME ForegroundInv, User, ctl.link # "closed"
    PROVE  Waits
<1>1. gone \subseteq gone'
    BY DEF User, Admit, Cancel, Submit, Stop, SendPendingNow, SendInterrupt, RetryRecovery,
           Continue, RetrySteer, SetSteeringEnabled, Retire, history
<1>2. /\ WellFormed(ctl) /\ Orderly(ctl) /\ Told(ctl, NeverTurns, KnownTurns)
      /\ Barred(ctl, gone', NeverTurns, KnownTurns)
    BY <1>1, ForegroundFacts
<1>3. ASSUME NEW t \in Locals, Admit(t) PROVE Waits
  <2>1. ctl' = EnqueueTurn(ctl, t) /\ ~Recovering(ctl) /\ t \in Turns
    BY <1>3 DEF Admit, MayEnqueue, Turns
  <2> QED BY <1>2, <2>1, EnqueueTurnBars, BarsWaits
<1>4. ASSUME NEW t \in Locals, Cancel(t) PROVE Waits
    BY <1>2, <1>4, CancelSubmitBars, BarsWaits DEF Cancel
<1>5. ASSUME NEW t \in Steerable, Submit(t) PROVE Waits
  <2>1. ctl' = SubmitSteer(ctl, t) /\ t \in Locals /\ Active(ctl) \in ctl.attempted
    BY <1>5, SystemAssumption DEF Submit, CanSteerText
  <2>2. Active(ctl) \in Turns
    BY <1>2, <2>1 DEF WellFormed, Controllers
  <2> QED BY <1>2, <2>1, <2>2, CancelSubmitBars, BarsWaits
<1>6. PICK u \in Turns \cup {NoTurn} : u = Active(ctl)
    BY <1>2, ActiveType DEF WellFormed, OptTurn
<1>7. CASE Stop \/ SendPendingNow
  <2>1. PICK b \in BOOLEAN : ctl' = Interrupt(ctl, b)
    BY <1>7 DEF Stop, SendPendingNow, SendInterrupt
  <2>2. u \in Turns
    BY <1>6, <1>7 DEF Stop, SendPendingNow, MayInterrupt
  <2> QED BY <1>2, <2>1, <2>2, QuietBars, BarsWaits
<1>8. CASE RetryRecovery
    BY <1>2, <1>8, RetryTurnRecoveryBars, BarsWaits DEF RetryRecovery
<1>9. CASE Continue
  <2>1. ctl' = ContinueWithoutTurn(ctl) /\ Active(ctl) # NoTurn /\ Active(ctl) \in gone'
    BY <1>9 DEF Continue, MayContinueWithoutTurn
  <2> QED BY <1>2, <2>1, ContinueWithoutTurnBars, BarsWaits
<1>10. CASE RetrySteer
  <2>1. Bars(ctl, ctl, gone', NeverTurns, KnownTurns)
    BY <1>2 DEF Bars, StartsClear
  <2> QED BY <1>2, <1>10, <2>1, FinishSteerBars, BarsWaits DEF RetrySteer
<1>11. CASE SetSteeringEnabled
  <2>1. ctl' = [ctl EXCEPT !.steering = ~@]
    BY <1>11 DEF SetSteeringEnabled
  <2>2. PICK t \in Turns : TRUE
    BY <1>11, SystemAssumption DEF SetSteeringEnabled, Turns
  <2>3. TRUE \in BOOLEAN
    OBVIOUS
  <2> QED BY <1>2, <2>1, <2>2, <2>3, QuietBars, BarsWaits
<1>12. CASE Retire
  <2>1. ctl'.startReq = NoTurn /\ ctl'.hydrated = NoHydrated
    BY <1>12 DEF Retire, Reset, InitController
  <2> QED BY <2>1 DEF Waits, Barred, StartsClear, Open, NoHydrated
<1> QED BY <1>3, <1>4, <1>5, <1>7, <1>8, <1>9, <1>10, <1>11, <1>12 DEF User
-----------------------------------------------------------------------------
(* The client *)

\* A reply to a start is an acknowledgement of a turn that Core knows, or a refusal of a
\* prompt that Core will not hear of again.
LEMMA StartReplyWaits ==
    ASSUME ForegroundInv, ctl.link # "closed", NEW r \in replies, StartReply(r)
    PROVE  Waits
<1>1. gone' = gone
    BY DEF StartReply, history
<1>2. /\ WellFormed(ctl) /\ Orderly(ctl) /\ Told(ctl, NeverTurns, KnownTurns) /\ TypeOK
      /\ Barred(ctl, gone', NeverTurns, KnownTurns) /\ RepliesKnow
    BY <1>1, ForegroundFacts DEF KnownInv
<1>3. r \in Replies /\ r.kind = "start" /\ wire \subseteq Requests
    BY <1>2 DEF StartReply, TypeOK
<1>4. r.turn \in Turns /\ r.turn \in Locals /\ (r.result = "busy" => r.by \in Turns)
    BY <1>3, ReplyForms
<1>5. /\ [kind |-> "start", turn |-> r.turn] \notin wire
      /\ IF r.result = "ack" THEN srv[r.turn] # "none" ELSE srv[r.turn] = "none"
    BY <1>2, <1>3 DEF RepliesKnow
<1>6. ~StartFrame(r.turn)
    BY <1>3, <1>5, RequestForms DEF StartFrame
<1>7. \/ ctl' = ctl
      \/ OnWire(r.turn) /\ r.result = "ack" /\ ctl' = StartAcked(ctl, r.turn)
      \/ /\ OnWire(r.turn) /\ r.result = "busy" /\ StartCurrent(ctl, r.turn)
         /\ ctl' = StartCollided(ctl, r.turn, r.by)
      \/ OnWire(r.turn) /\ r.result # "ack" /\ ctl' = StartRejected(ctl, r.turn)
    BY DEF StartReply
<1>8. CASE ctl' = ctl
    BY <1>1, <1>8, SameWaits
<1>9. CASE r.result = "ack" /\ ctl' = StartAcked(ctl, r.turn)
  <2>1. r.turn \in KnownTurns
    BY <1>4, <1>5, <1>9 DEF KnownTurns
  <2> QED BY <1>2, <1>9, <2>1, StartAckedBars, BarsWaits
<1>10. CASE /\ r.result = "busy" /\ StartCurrent(ctl, r.turn)
            /\ ctl' = StartCollided(ctl, r.turn, r.by)
  <2>1. r.turn \in NeverTurns /\ r.turn \notin KnownTurns
    BY <1>4, <1>5, <1>6, <1>10 DEF KnownTurns, NeverTurns
  <2>2. Active(ctl) = r.turn /\ ctl.startReq = r.turn
    BY <1>10 DEF StartCurrent
  <2> QED BY <1>2, <1>4, <1>10, <2>1, <2>2, StartCollidedBars, BarsWaits
<1>11. CASE ctl' = StartRejected(ctl, r.turn)
    BY <1>2, <1>4, <1>11, StartRejectedBars, BarsWaits
<1> QED BY <1>7, <1>8, <1>9, <1>10, <1>11

\* The turn that Core made of the steer, and the one it was sent to, are known to Core.
LEMMA SteerReplyWaits ==
    ASSUME ForegroundInv, ctl.link # "closed", NEW r \in replies, SteerReply(r)
    PROVE  Waits
<1>1. gone' = gone
    BY DEF SteerReply, history
<1>2. /\ WellFormed(ctl) /\ Orderly(ctl) /\ Told(ctl, NeverTurns, KnownTurns) /\ TypeOK
      /\ Barred(ctl, gone', NeverTurns, KnownTurns) /\ RepliesKnow /\ CoreInvariant /\ Watched
      /\ r.kind = "steer"
    BY <1>1, ForegroundFacts DEF KnownInv, SteerReply
<1>3. r.turn # NoTurn /\ r.result \in {"steered", "reject", "fellback"}
    BY <1>2, ReplyForms, TurnsAssumption DEF TypeOK
<1>4. CASE ctl' = ctl
    BY <1>1, <1>4, SameWaits
<1>5. CASE ctl.steerReq # NoTurn /\ ctl' \in {SteerAccepted(ctl), SteerNotAdmitted(ctl)}
    BY <1>2, <1>5, SteerEndsBars, BarsWaits
<1>6. CASE ctl.steerReq # NoTurn /\ r.result = "fellback" /\ ctl' = SteerFellBack(ctl, r.by)
  <2>1. r.by \in Foreign /\ srv[r.by] # "none"
    BY <1>2, <1>6 DEF RepliesKnow, CoreInvariant, ReturnedOnce
  <2>2. r.by \in KnownTurns
    BY <2>1 DEF KnownTurns, Turns
  <2>3. ctl.steerOwner \in KnownTurns
    BY <1>2, <1>6 DEF Watched, Tended, Sound, View
  <2> QED BY <1>2, <1>6, <2>1, <2>2, <2>3, SteerFellBackBars, BarsWaits
<1> QED BY <1>3, <1>4, <1>5, <1>6 DEF SteerReply

LEMMA LookupReplyWaits ==
    ASSUME ForegroundInv, ctl.link # "closed", NEW s \in LookupStates, LookupReply(s)
    PROVE  Waits
<1>1. gone' = gone
    BY DEF LookupReply, history
<1>2. /\ WellFormed(ctl) /\ Orderly(ctl) /\ Told(ctl, NeverTurns, KnownTurns) /\ TypeOK
      /\ Barred(ctl, gone', NeverTurns, KnownTurns) /\ KnownInv
    BY <1>1, ForegroundFacts
<1>3. PICK t : t = ctl.lookup
    OBVIOUS
<1>4. t \in Turns /\ ctl' = LookupReturned(ctl, t, s) /\ s \in LookupResults(t)
    BY <1>2, <1>3 DEF LookupReply, WellFormed, Controllers, OptTurn
<1>5. s \notin {"unknown", "error"} => srv[t] # "none"
  <2>1. ASSUME NEW i \in DOMAIN notes, notes[i] = [kind |-> "terminal", turn |-> t]
        PROVE  srv[t] # "none"
    BY <1>2, <2>1 DEF KnownInv, StreamKnows
  <2> QED BY <1>4, <2>1 DEF LookupResults
<1>6. s \in {"unknown", "error"} \/ t \in KnownTurns
    BY <1>4, <1>5 DEF KnownTurns
<1> QED BY <1>2, <1>4, <1>6, LookupReturnedBars, BarsWaits

LEMMA ClientWaits ==
    ASSUME ForegroundInv, Client, ctl.link # "closed"
    PROVE  Waits
<1>1. gone \subseteq gone'
    BY DEF Client, Dispatch, PreflightEndsNotReady, SeatRefused, StartTimeout, StartReply, SteerReply,
           SteerDispatch, SteerTimeout, InterruptReply, OwnerInteraction, LookupReply, history
<1>2. /\ WellFormed(ctl) /\ Orderly(ctl) /\ Told(ctl, NeverTurns, KnownTurns)
      /\ Barred(ctl, gone', NeverTurns, KnownTurns) /\ TypeOK
    BY <1>1, ForegroundFacts
<1>3. ASSUME NEW t \in Locals, Dispatch(t) PROVE Waits
  <2>1. ctl' = MarkSent(ctl, t) /\ ctl.startReq = t /\ ctl.stage = "preflight" /\ t \in Turns
    BY <1>3 DEF Dispatch, InPreflight, Turns
  <2>2. TRUE \in BOOLEAN
    OBVIOUS
  <2> QED BY <1>2, <2>1, <2>2, QuietBars, BarsWaits
<1>4. ASSUME NEW t \in Locals, PreflightEndsNotReady(t) \/ SeatRefused(t) PROVE Waits
  <2>1. /\ ctl.startReq = t /\ ctl.stage = "preflight" /\ Active(ctl) = t /\ t \in Turns
        /\ ctl' = StartRefused(ctl, t) \/ ctl' = PreflightNotReady(ctl, t)
    BY <1>4 DEF PreflightEndsNotReady, SeatRefused, InPreflight, StartCurrent, Turns
  <2> QED BY <1>2, <2>1, StartRefusedBars, PreflightNotReadyBars, BarsWaits
<1>5. ASSUME NEW t \in Locals, StartTimeout(t) PROVE Waits
  <2>1. ctl' = StartUnconfirmed(ctl, t) /\ t \in Turns /\ TRUE \in BOOLEAN
    BY <1>5 DEF StartTimeout, Turns
  <2> QED BY <1>2, <2>1, QuietBars, BarsWaits
<1>6. CASE SteerDispatch
  <2>1. /\ ctl.steerReq # NoTurn
        /\ ctl' \in {UpdateSteer(ctl, ctl.steerReq, "sent"), SteerNotAdmitted(ctl)}
    BY <1>6 DEF SteerDispatch
  <2> QED BY <1>2, <2>1, SteerEndsBars, BarsWaits
<1>7. CASE SteerTimeout
  <2>1. ctl.steerReq # NoTurn /\ ctl' = SteerUnconfirmed(ctl)
    BY <1>2, <1>7, TurnsAssumption DEF SteerTimeout, TypeOK
  <2> QED BY <1>2, <2>1, SteerEndsBars, BarsWaits
<1>8. ASSUME NEW b \in BOOLEAN, InterruptReply(b) PROVE Waits
  <2>1. ctl' = InterruptReturned(ctl, ctl.interruptReq, b) /\ ctl.interruptReq \in Turns
    BY <1>2, <1>8 DEF InterruptReply, WellFormed, Controllers, OptTurn
  <2> QED BY <1>2, <2>1, QuietBars, BarsWaits
<1>9. ASSUME NEW b \in BOOLEAN, OwnerInteraction(b) PROVE Waits
  <2>1. ctl' = SetAcceptedOwnerInteraction(ctl, b) /\ ctl.owner.turn \in Turns
    BY <1>2, <1>9 DEF OwnerInteraction, WellFormed, Controllers, Owners, OptTurn
  <2> QED BY <1>2, <2>1, QuietBars, BarsWaits
<1> QED BY <1>3, <1>4, <1>5, <1>6, <1>7, <1>8, <1>9, StartReplyWaits, SteerReplyWaits,
           LookupReplyWaits DEF Client

-----------------------------------------------------------------------------
(* Transport and recovery *)

LEMMA SuspendWaits ==
    ASSUME ForegroundInv, ctl.link # "closed", NEW l \in {"down", "opening"}, Suspend(l),
           gone' = gone
    PROVE  Waits
<1> DEFINE d == SuspendTransport(ctl)
<1>1. /\ WellFormed(ctl) /\ Orderly(ctl) /\ Told(ctl, NeverTurns, KnownTurns)
      /\ Barred(ctl, gone', NeverTurns, KnownTurns)
    BY ForegroundFacts
<1>2. Bars(ctl, d, gone', NeverTurns, KnownTurns) /\ WellFormed(d)
    BY <1>1, SuspendTransportBars
<1>3. PICK o : ctl' = [d EXCEPT !.link = l, !.lookup = o]
  <2>1. ctl' = [d EXCEPT !.link = l, !.lookup = IF l = "down" THEN NoTurn ELSE @]
    BY DEF Suspend
  <2>2. \/ ctl' = [d EXCEPT !.link = l, !.lookup = NoTurn]
        \/ ctl' = [d EXCEPT !.link = l, !.lookup = d.lookup]
    BY <2>1
  <2> QED BY <2>2
<1> HIDE DEF d
<1>4. Bars(d, ctl', gone', NeverTurns, KnownTurns)
  <2>1. Barred(d, gone', NeverTurns, KnownTurns)
    BY <1>2 DEF Bars
  <2>2. Bars(d, [d EXCEPT !.link = l, !.lookup = o], gone', NeverTurns, KnownTurns)
    BY <1>2, <2>1, RelinkBars
  <2> QED BY <1>3, <2>2
<1> QED BY <1>2, <1>4, BarsTransitive, BarsWaits

\* The drain starts the head of the queue as any other handler would.
LEMMA ReadyWaits ==
    ASSUME ForegroundInv, Ready
    PROVE  Waits
<1> DEFINE d == [ctl EXCEPT !.link = "ready"]
<1>1. ctl.link = "draining" /\ gone' = gone
    BY DEF Ready, history
<1>2. WellFormed(ctl) /\ Barred(ctl, gone', NeverTurns, KnownTurns)
    BY <1>1, ForegroundFacts
<1>3. WellFormed(d)
    BY <1>1, <1>2, RelinkKeeps DEF Links
<1>4. Bars(ctl, d, gone', NeverTurns, KnownTurns)
    BY <1>2, RelinkBars
<1>5. ctl' = StartTurn(d, Active(d))
    BY DEF Ready, ResumePendingTurn
<1> HIDE DEF d
<1>6. Bars(ctl, StartTurn(d, Active(d)), gone', NeverTurns, KnownTurns)
    BY <1>3, <1>4, BarsThenStart
<1> QED BY <1>5, <1>6, BarsWaits

\* Hydrate reports a turn that Core knows.
LEMMA HydratedWaits ==
    ASSUME ForegroundInv, Hydrated
    PROVE  Waits
<1> DEFINE d == [ctl EXCEPT !.link = "draining"]
<1>1. ctl.link \in {"opening", "recovering"} /\ gone' = gone
    BY DEF Hydrated, history
<1>2. /\ WellFormed(ctl) /\ Orderly(ctl) /\ KnownInv /\ Told(ctl, NeverTurns, KnownTurns)
      /\ Barred(ctl, gone', NeverTurns, KnownTurns)
    BY <1>1, ForegroundFacts
<1>3. WellFormed(d) /\ Unsent(d) = Unsent(ctl) /\ d.link = "draining"
    BY <1>1, <1>2, RelinkKeeps DEF Links
<1>4. d.local = ctl.local /\ d.startReq = ctl.startReq
    BY <1>2 DEF WellFormed, Controllers
<1>5. Orderly(d)
    BY <1>1, <1>2, RelinkOrders DEF Links, Orders
<1>6. Barred(d, gone', NeverTurns, KnownTurns)
    BY <1>2, RelinkBars DEF Bars
<1>7. PICK b \in BOOLEAN : /\ b = (ctl.link = "recovering")
                           /\ ctl' = ReconcileFromHydrate(d, snap, b)
    BY DEF Hydrated
<1> HIDE DEF d
<1>8. (b \/ d.local = NoTurn) /\ Linked(d)
    BY <1>1, <1>2, <1>3, <1>4, <1>7 DEF Orderly, Leased, Linked
<1>9. ASSUME NEW x \in ServerForeground(snap) PROVE Sure(d, x)
  <2>1. x \in Turns /\ snap[x] \in {"active", "interrupting"}
    BY DEF ServerForeground
  <2>2. x \in KnownTurns
    BY <1>2, <2>1 DEF KnownInv, StreamKnows, KnownTurns
  <2>3. Sure(ctl, x)
    BY <1>2, <2>2 DEF Told
  <2> QED BY <1>3, <2>3 DEF Sure
<1>10. Barred(ctl', gone', NeverTurns, KnownTurns) /\ StartsClear(d, ctl', gone')
    BY <1>3, <1>5, <1>6, <1>7, <1>8, <1>9, ReconcileFromHydrateBars
<1> QED BY <1>4, <1>10 DEF Waits, StartsClear

LEMMA ObserveWaits ==
    ASSUME ForegroundInv, Observe
    PROVE  Waits
<1>1. ctl.link # "closed" /\ notes # <<>> /\ gone' = gone
    BY DEF Observe, history
<1>2. /\ WellFormed(ctl) /\ Orderly(ctl) /\ TypeOK /\ KnownInv /\ Told(ctl, NeverTurns, KnownTurns)
      /\ Barred(ctl, gone', NeverTurns, KnownTurns)
    BY <1>1, ForegroundFacts
<1>3. PICK n : n = notes[1]
    OBVIOUS
<1>4. PICK t : t = n.turn
    OBVIOUS
<1>5. n \in Notes /\ 1 \in DOMAIN notes /\ Head(notes) = n
    BY <1>1, <1>2, <1>3, TailAt DEF TypeOK
<1>6. /\ t \in Turns
      /\ n.kind \in {"started", "terminal", "dropped"}
      /\ n.kind = "dropped" => n.inputs \in Seq(Locals)
    BY <1>4, <1>5 DEF Notes
<1>7. t \in KnownTurns
  <2>1. srv[t] # "none"
    BY <1>2, <1>3, <1>4, <1>5 DEF KnownInv, StreamKnows
  <2> QED BY <1>6, <2>1 DEF KnownTurns
<1>8. CASE ctl' = ctl
    BY <1>1, <1>8, SameWaits
<1>9. CASE ctl' \in {ObserveTurnStarted(ctl, t), ObserveTerminal(ctl, t)}
    BY <1>2, <1>7, <1>9, ObservesBars, BarsWaits
<1>10. CASE n.kind = "dropped"
  <2>1. PICK given : given = n.inputs
    OBVIOUS
  <2>2. ctl' \in {ctl, ObserveSteerDropped(ctl, t, given)}
    BY <1>4, <1>5, <1>10, <2>1 DEF Observe
  <2>3. given \in Seq(Turns)
    <3>1. \A s \in Seq(Locals) : s \in Seq(Turns)
        BY DEF Turns
    <3> QED BY <1>6, <1>10, <2>1, <3>1
  <2>4. Bars(ctl, ObserveSteerDropped(ctl, t, given), gone', NeverTurns, KnownTurns)
    BY <1>2, <1>7, <2>3, ObserveSteerDroppedBars
  <2> QED BY <1>8, <2>2, <2>4, BarsWaits
<1>11. n.kind # "dropped" => ctl' \in {ctl, ObserveTurnStarted(ctl, t), ObserveTerminal(ctl, t)}
    BY <1>4, <1>5, <1>6 DEF Observe
<1> QED BY <1>8, <1>9, <1>10, <1>11

LEMMA TransportWaits ==
    ASSUME ForegroundInv, Transport, ctl.link # "closed"
    PROVE  Waits
<1>1. CASE LoseTransport \/ Reopen
  <2>1. PICK l \in {"down", "opening"} : Suspend(l)
    BY <1>1 DEF LoseTransport, Reopen
  <2>2. gone' = gone
    BY <1>1 DEF LoseTransport, Reopen
  <2> QED BY <2>1, <2>2, SuspendWaits
<1>2. CASE ReopenFails \/ Gap \/ GapFails
  <2>1. PICK l : ctl' = [ctl EXCEPT !.link = l]
    BY <1>2 DEF ReopenFails, Gap, GapFails
  <2>2. gone' = gone
    BY <1>2 DEF ReopenFails, Gap, GapFails, history
  <2>3. WellFormed(ctl) /\ Barred(ctl, gone', NeverTurns, KnownTurns)
    BY <2>2, ForegroundFacts
  <2> QED BY <2>1, <2>3, RelinkBars, BarsWaits
<1>3. CASE AnswerHydrate \/ \E m \in wire : LoseRequest(m)
    BY <1>3, SameWaits DEF AnswerHydrate, LoseRequest, history
<1> QED BY <1>1, <1>2, <1>3, HydratedWaits, ReadyWaits, ObserveWaits DEF Transport
-----------------------------------------------------------------------------
LEMMA InitForegroundInv == Init => ForegroundInv
<1> SUFFICES ASSUME Init PROVE ForegroundInv
    OBVIOUS
<1>1. ctl.startReq = NoTurn /\ ctl.hydrated.turn = NoTurn
    BY DEF Init, InitController, NoHydrated
<1> QED BY <1>1, InitLostInv DEF ForegroundInv, Barred, Open

\* Each step but the one that writes a start frame leaves the turns that Core knows and
\* those it will not hear of as they are, or adds to them.
LEMMA KnownGrows ==
    ASSUME CoreInvariant, KnownInv, TypeOK, [Next]_vars
    PROVE  KnownTurns \subseteq KnownTurns'
<1>1. CASE Core
  <2>1. ASSUME NEW m \in wire, CoreStart(m) \/ CoreInterrupt(m) \/ CoreSteer(m)
        PROVE  \A t \in Turns : srv[t] # "none" => srv'[t] # "none"
    BY <2>1 DEF TypeOK, CoreStart, CoreInterrupt, CoreSteer
  <2>2. ASSUME NEW f \in Foreign, ForeignStart(f)
        PROVE  \A t \in Turns : srv[t] # "none" => srv'[t] # "none"
    BY <2>2 DEF TypeOK, ForeignStart
  <2>3. ASSUME NEW u \in Turns, CoreEnd(u)
        PROVE  \A t \in Turns : srv[t] # "none" => srv'[t] # "none"
    BY <2>3 DEF TypeOK, CoreEnd
  <2>4. CoreDrain => srv' = srv
    BY DEF CoreDrain
  <2> QED BY <1>1, <2>1, <2>2, <2>3, <2>4 DEF Core, KnownTurns
<1>2. CASE ~Core
  <2>1. srv' = srv
    BY <1>2 DEF Next, vars, User, Admit, Cancel, Submit, Stop, SendPendingNow, SendInterrupt,
       RetryRecovery, Continue, RetrySteer, SetSteeringEnabled, Retire, history, channels,
       Client, Dispatch, PreflightEndsNotReady, SeatRefused, StartTimeout, StartReply, SteerReply,
       SteerDispatch, SteerTimeout, InterruptReply, OwnerInteraction, LookupReply,
       Transport, LoseTransport, Reopen, ReopenFails, Gap, GapFails, LoseRequest,
       AnswerHydrate, Hydrated, Ready, Observe
  <2> QED BY <2>1 DEF KnownTurns
<1> QED BY <1>1, <1>2

LEMMA NeverGrows ==
    ASSUME TypeOK, [Next]_vars, \A t \in Locals : ~Dispatch(t)
    PROVE  NeverTurns \subseteq NeverTurns'
<1>1. CASE Core
  <2>1. ASSUME NEW m \in wire, CoreStart(m) \/ CoreInterrupt(m) \/ CoreSteer(m)
        PROVE  wire' \subseteq wire /\ \A x \in NeverTurns : srv'[x] = "none"
    <3>1. CASE CoreStart(m)
        BY <3>1 DEF TypeOK, CoreStart, NeverTurns, StartFrame, Turns
    <3>2. CASE CoreInterrupt(m)
        BY <3>2 DEF TypeOK, CoreInterrupt, NeverTurns, Turns
    <3>3. CASE CoreSteer(m)
        BY <3>3, TurnsAssumption DEF TypeOK, CoreSteer, NeverTurns, Turns
    <3> QED BY <2>1, <3>1, <3>2, <3>3
  <2>2. ASSUME NEW f \in Foreign, ForeignStart(f)
        PROVE  wire' \subseteq wire /\ \A x \in NeverTurns : srv'[x] = "none"
    BY <2>2, TurnsAssumption DEF TypeOK, ForeignStart, NeverTurns, Turns
  <2>3. ASSUME NEW u \in Turns, CoreEnd(u)
        PROVE  wire' \subseteq wire /\ \A x \in NeverTurns : srv'[x] = "none"
    BY <2>3 DEF TypeOK, CoreEnd, Foreground, NeverTurns, Turns
  <2>4. CoreDrain => wire' = wire /\ srv' = srv
    BY DEF CoreDrain, channels
  <2>5. wire' \subseteq wire /\ \A x \in NeverTurns : srv'[x] = "none"
    BY <1>1, <2>1, <2>2, <2>3, <2>4 DEF Core, NeverTurns
  <2> QED BY <2>5 DEF NeverTurns, StartFrame
<1>2. CASE ~Core
  <2>1. srv' = srv /\ \A m \in wire' : m \in wire \/ m.kind # "start"
    <3>1. CASE User
      <4>1. CASE Stop \/ SendPendingNow
        <5>1. srv' = srv /\ wire' = wire \cup {[kind |-> "interrupt", turn |-> Active(ctl)]}
            BY <4>1 DEF Stop, SendPendingNow, SendInterrupt
        <5>2. [kind |-> "interrupt", turn |-> Active(ctl)].kind # "start"
            OBVIOUS
        <5> QED BY <5>1, <5>2
      <4>2. CASE ~(Stop \/ SendPendingNow)
        BY <3>1, <4>2 DEF User, Admit, Cancel, Submit, RetryRecovery, Continue, RetrySteer,
           SetSteeringEnabled, Retire, channels
      <4> QED BY <4>1, <4>2
    <3>2. CASE Client
        BY <3>2 DEF Client, PreflightEndsNotReady, SeatRefused, StartTimeout, StartReply, SteerReply,
           SteerDispatch, SteerTimeout, InterruptReply, OwnerInteraction, LookupReply, history, channels
    <3>3. CASE Transport
        BY <3>3 DEF Transport, LoseTransport, Reopen, ReopenFails, Gap, GapFails, LoseRequest,
           AnswerHydrate, Hydrated, Ready, Observe, history, channels, Suspend
    <3>4. CASE UNCHANGED vars
        BY <3>4 DEF vars, channels
    <3> QED BY <1>2, <3>1, <3>2, <3>3, <3>4 DEF Next
  <2> QED BY <2>1 DEF NeverTurns, StartFrame
<1> QED BY <1>1, <1>2

\* The prompt that is sent holds the queue from then on.
LEMMA DispatchBarred ==
    ASSUME TypeOK, NEW t \in Locals, Dispatch(t), NEW G, NEW D, NEW K, NEW E,
           Barred(ctl', G, D, K)
    PROVE  Barred(ctl', G, E, K)
<1>1. ctl' = MarkSent(ctl, t) /\ ctl.startReq = t /\ ctl.stage = "preflight" /\ Active(ctl) = t
      /\ t \in Turns /\ t # NoTurn
    BY TurnsAssumption DEF Dispatch, InPreflight, StartCurrent, Turns
<1>2. ctl \in Controllers
    BY DEF TypeOK
<1>3. Active(ctl') = t /\ ctl'.stage # "preflight" /\ ctl'.preflight # t /\ ctl'.startReq = t
      /\ ctl'.attempted = ctl.attempted
    BY <1>1, <1>2 DEF MarkSent, Controllers, Active
<1>4. t \in ctl'.attempted
    BY <1>1, <1>3 DEF Barred
<1>5. Held(ctl')
    BY <1>1, <1>3, <1>4 DEF Held, Unsent
<1> QED BY <1>1, <1>3, <1>4, <1>5 DEF Barred

\* A record that is closed stays so, and its controller idle; any other step waits.
LEMMA StepWaits ==
    ASSUME ForegroundInv, [Next]_vars
    PROVE  \/ ctl.link # "closed" /\ Waits
           \/ ctl.link = "closed" /\ ctl'.link = "closed" /\ ctl'.attempted = ctl.attempted
<1>1. ctl \in Controllers /\ LostInv
    BY DEF ForegroundInv, LostInv, TurnInv, KnownInv, SentInv, TypeOK
<1>2. CASE User \/ Client \/ Transport
  <2>1. CASE ctl.link = "closed"
    <3>1. ctl' = [ctl EXCEPT !.steering = ~@]
        BY <1>1, <1>2, <2>1, ClosedStep DEF SetSteeringEnabled
    <3> QED BY <1>1, <2>1, <3>1 DEF Controllers
  <2>2. CASE ctl.link # "closed"
    BY <1>2, <2>2, UserWaits, ClientWaits, TransportWaits
  <2> QED BY <2>1, <2>2
<1>3. CASE Core \/ UNCHANGED vars
  <2>1. ctl' = ctl /\ gone' = gone
    BY <1>3 DEF Core, CoreStart, CoreInterrupt, CoreSteer, ForeignStart, CoreDrain, CoreEnd, history, vars
  <2> QED BY <2>1, SameWaits
<1> QED BY <1>2, <1>3 DEF Next

LEMMA NextForegroundInv == ForegroundInv /\ [Next]_vars => ForegroundInv'
<1> SUFFICES ASSUME ForegroundInv, [Next]_vars PROVE ForegroundInv'
    OBVIOUS
<1>1. LostInv'
    BY NextLostInv DEF ForegroundInv
<1>2. TypeOK /\ KnownInv /\ CoreInvariant /\ LostInv
    BY DEF ForegroundInv, LostInv, TurnInv, KnownInv, SentInv
<1>3. ASSUME ctl'.link # "closed", Waits PROVE Barred(ctl, gone, NeverTurns, KnownTurns)'
  <2>1. KnownTurns \subseteq KnownTurns'
    BY <1>2, KnownGrows
  <2>2. CASE \E t \in Locals : Dispatch(t)
    <3>1. PICK t \in Locals : Dispatch(t)
        BY <2>2
    <3>2. Barred(ctl', gone', NeverTurns', KnownTurns)
        BY <1>2, <1>3, <3>1, DispatchBarred DEF Waits
    <3> QED BY <2>1, <3>2, BarredGrows
  <2>3. CASE \A t \in Locals : ~Dispatch(t)
    <3>1. NeverTurns \subseteq NeverTurns'
        BY <1>2, <2>3, NeverGrows
    <3> QED BY <1>3, <2>1, <3>1, BarredGrows DEF Waits
  <2> QED BY <2>2, <2>3
<1>4. ctl'.link # "closed" => Waits
    BY <1>2, StepWaits
<1> QED BY <1>1, <1>3, <1>4 DEF ForegroundInv

\* Hydrate's foreground turn holds the queue: no dispatch begins while it is live for the
\* client and the user did not let it go, however recoveries, lookups, collisions, steering
\* and the events of the stream interleave (hydratedForegroundRef, startTurn, reconcile).
THEOREM ForegroundComesFirst == Spec => NeverAdvancesOverForeground
<1>1. ForegroundInv /\ [Next]_vars
      => [\A t \in Locals :
            t \in ctl'.attempted /\ t \notin ctl.attempted /\ ctl'.startReq = t
            => ctl'.hydrated.turn \in {NoTurn} \cup gone']_vars
  <2> SUFFICES ASSUME ForegroundInv, [Next]_vars, NEW t \in Locals, t \in ctl'.attempted,
                      t \notin ctl.attempted, ctl'.startReq = t
               PROVE  ctl'.hydrated.turn \in {NoTurn} \cup gone'
    OBVIOUS
  <2>1. t # NoTurn
    BY TurnsAssumption DEF Turns
  <2>2. CASE ctl.link # "closed" /\ Waits
    <3>1. ctl.startReq # t
        BY <2>1, <2>2 DEF ForegroundInv, Barred
    <3> QED BY <2>1, <2>2, <3>1 DEF Waits, StartsClear, Open
  <2>3. CASE ctl'.attempted = ctl.attempted
    BY <2>3
  <2> QED BY <2>2, <2>3, StepWaits
<1>2. Spec => []ForegroundInv
    BY InitForegroundInv, NextForegroundInv, PTL DEF Spec
<1> QED BY <1>1, <1>2, PTL DEF Spec, NeverAdvancesOverForeground

-----------------------------------------------------------------------------
(* Client and Core agree at rest. *)

\* Of t the client has yet to observe the terminal: it comes after what precedes the
\* hydrate in flight, or no hydrate is.
Ending(t) == \E i \in DOMAIN notes : i > buffered /\ notes[i] = [kind |-> "terminal", turn |-> t]
EndingTurns == {t \in Turns : Ending(t)}
LiveTurns == Foreground \cup EndingTurns

\* The turns that run for the client: all may, until a hydrate commits on a stream that
\* was cut or that the client stopped listening to.
Settled == ctl.link \in {"draining", "ready"}
RunningTurns == IF Settled THEN LiveTurns ELSE Turns

\* What Core and the stream say of the turns that do not run.
Acknowledged(t) == \E r \in replies : r.kind = "start" /\ r.turn = t /\ r.result = "ack"
SilentTurns == {t \in Turns \ Foreground : /\ \A i \in DOMAIN notes : notes[i].turn # t
                                           /\ ~Acknowledged(t)}
BusyStarts == {<<r.turn, r.by>> : r \in {x \in replies : x.kind = "start" /\ x.result = "busy"}}
Sight == [silent |-> SilentTurns, never |-> NeverTurns, busy |-> BusyStarts]

\* The hydrate in flight still says what runs.
SnapFresh ==
    \A t \in Turns : /\ snap[t] \in {"active", "interrupting"} => t \in LiveTurns
                     /\ snap[t] = "absent" => t \in LiveTurns \cup SilentTurns

AgreeInv ==
    /\ ForegroundInv
    /\ buffered <= Len(notes)
    /\ snap # NoSnap => SnapFresh
    /\ ctl.link # "closed" => Agrees(ctl, RunningTurns, Sight)

\* What a step does: client and Core agree on turns that still run after it.
Agreed == \E L \in SUBSET RunningTurns' : Agrees(ctl', L, Sight)

LEMMA LiveTypes ==
    /\ Foreground \subseteq Turns /\ LiveTurns \subseteq Turns /\ LiveTurns \subseteq RunningTurns
    /\ RunningTurns \subseteq Turns /\ SilentTurns \subseteq Turns
BY DEF Foreground, LiveTurns, EndingTurns, RunningTurns, SilentTurns

\* The controller is told nothing of a prompt that it never attempted, and a start that
\* Core refused is the one it will not hear of again.
LEMMA AgreeFacts ==
    ASSUME AgreeInv, ctl.link # "closed"
    PROVE  /\ WellFormed(ctl) /\ Orderly(ctl) /\ TypeOK /\ KnownInv /\ CoreInvariant /\ LostInv
           /\ ForegroundInv /\ SentInv
           /\ Briefed(ctl, Sight) /\ Agrees(ctl, RunningTurns, Sight)
           /\ NoRepeat(ctl.receipts)
           /\ ctl.startReq # NoTurn => ctl.startReq \in ctl.attempted
<1>1. /\ WellFormed(ctl) /\ Orderly(ctl) /\ TypeOK /\ KnownInv /\ CoreInvariant /\ LostInv
      /\ ForegroundInv /\ SentInv /\ StreamKnows /\ RepliesKnow
    BY DEF AgreeInv, ForegroundInv, LostInv, TurnInv, KnownInv, SentInv
<1>2. /\ Agrees(ctl, RunningTurns, Sight)
      /\ Barred(ctl, gone, NeverTurns, KnownTurns)
    BY <1>1 DEF AgreeInv, ForegroundInv
<1>3. \A b \in BusyStarts : \E r \in replies :
         r.kind = "start" /\ r.result = "busy" /\ b = <<r.turn, r.by>>
    BY DEF BusyStarts
<1>4. ASSUME NEW t \in Locals \ ctl.attempted PROVE Unheard(t, Sight)
  <2>1. t \in Unsent(ctl) /\ t \in Turns
    BY <1>4 DEF Unsent, Turns
  <2>2. sends[t] = 0 /\ srv[t] = "none"
    BY <1>1, <2>1, <1>4, UnsentUnknown
  <2>3. t \notin Foreground /\ \A i \in DOMAIN notes : notes[i].turn # t
    BY <1>1, <2>2 DEF Foreground, StreamKnows
  <2>4. \A r \in replies : r.kind = "start" => r.turn # t
    <3> SUFFICES ASSUME NEW r \in replies, r.kind = "start", r.turn = t PROVE FALSE
        OBVIOUS
    <3>1. sends[r.turn] > 0
        BY <1>1 DEF RepliesKnow
    <3>2. sends[t] > 0
        BY <3>1
    <3> QED BY <2>2, <3>2
  <2>5. t \in SilentTurns
    BY <2>1, <2>3, <2>4 DEF SilentTurns, Acknowledged
  <2>6. \A x : <<t, x>> \notin BusyStarts
    BY <1>3, <2>4
  <2> QED BY <2>5, <2>6 DEF Unheard, Sight
<1>5. ASSUME NEW t, NEW x, <<t, x>> \in BusyStarts PROVE t \in NeverTurns /\ t \notin KnownTurns
  <2>1. PICK r \in replies : r.kind = "start" /\ r.result = "busy" /\ r.turn = t /\ r.by = x
    BY <1>3, <1>5
  <2>2. t \in Locals /\ srv[t] = "none" /\ [kind |-> "start", turn |-> t] \notin wire
    BY <1>1, <2>1, ReplyForms DEF TypeOK, RepliesKnow
  <2>3. ~StartFrame(t)
    BY <1>1, <2>2, RequestForms DEF TypeOK, StartFrame
  <2> QED BY <2>2, <2>3 DEF NeverTurns, KnownTurns
<1>6. ASSUME ctl.startReq # NoTurn, NEW x \in Turns, <<ctl.startReq, x>> \in BusyStarts
      PROVE  ctl.startReq = Active(ctl)
    BY <1>2, <1>5, <1>6 DEF Barred
<1>7. Briefed(ctl, Sight)
    BY <1>4, <1>5, <1>6 DEF Briefed, Sight
<1>8. ctl.startReq # NoTurn => ctl.startReq \in ctl.attempted
    BY <1>2 DEF Barred
<1> QED BY <1>1, <1>2, <1>7, <1>8 DEF Agrees

\* A handler leaves the link as it is.
LEMMA LinkKept ==
    ASSUME SentInv, (User /\ ~Retire) \/ Client \/ Observe
    PROVE  ctl'.link = ctl.link
<1> USE DEF SentInv
<1>1. CASE User /\ ~Retire
  <2>1. ASSUME NEW t \in Locals, Admit(t) PROVE Keeps(ctl, ctl')
    BY <2>1, EnqueueTurnKeeps DEF Admit, Turns
  <2>2. ASSUME NEW t \in Locals, Cancel(t) PROVE Keeps(ctl, ctl')
    BY <2>2, CancelQueuedPromptKeeps DEF Cancel
  <2>3. ASSUME NEW t \in Steerable, Submit(t) PROVE ctl'.link = ctl.link
    <3>1. t \in Locals /\ Active(ctl) \in Turns
        BY <2>3, SystemAssumption DEF Submit, CanSteerText, TypeOK, Controllers, Turns
    <3> QED BY <2>3, <3>1, SubmitSteerKeeps DEF Submit
  <2>4. ASSUME NEW b \in BOOLEAN, Active(ctl) # NoTurn, SendInterrupt(b) PROVE Keeps(ctl, ctl')
    BY <2>4, InterruptKeeps DEF SendInterrupt
  <2>5. CASE Stop \/ SendPendingNow
    BY <2>4, <2>5 DEF Stop, SendPendingNow, MayInterrupt, Keeps
  <2>6. CASE RetryRecovery
    BY <2>6, RetryTurnRecoveryKeeps DEF RetryRecovery, Keeps
  <2>7. CASE Continue
    BY <2>7, ContinueWithoutTurnKeeps DEF Continue, MayContinueWithoutTurn, Keeps
  <2>8. CASE RetrySteer
    BY <2>8, RetrySteerDeliveryKeeps DEF RetrySteer, Keeps
  <2>9. CASE SetSteeringEnabled
    BY <2>9 DEF SetSteeringEnabled, TypeOK, Controllers
  <2> QED BY <1>1, <2>1, <2>2, <2>3, <2>5, <2>6, <2>7, <2>8, <2>9 DEF User, Keeps
<1>2. CASE Client
  <2>1. ASSUME NEW t \in Locals, Dispatch(t) PROVE Keeps(ctl, ctl')
    BY <2>1, MarkSentKeeps DEF Dispatch, InPreflight, Turns
  <2>2. ASSUME NEW t \in Locals, PreflightEndsNotReady(t) \/ SeatRefused(t) \/ StartTimeout(t)
        PROVE  Keeps(ctl, ctl')
    BY <2>2, PreflightNotReadyKeeps, StartRefusedKeeps, StartUnconfirmedKeeps
       DEF PreflightEndsNotReady, SeatRefused, StartTimeout, InPreflight, Turns
  <2>3. ASSUME NEW r \in replies, StartReply(r) PROVE Keeps(ctl, ctl')
    <3>1. r \in Replies /\ r.kind = "start"
        BY <2>3 DEF StartReply, TypeOK
    <3>2. r.turn \in Turns /\ (r.result = "busy" => r.by \in Turns)
        BY <3>1, ReplyForms
    <3>3. /\ Keeps(ctl, StartAcked(ctl, r.turn)) /\ Keeps(ctl, StartRejected(ctl, r.turn))
          /\ Keeps(ctl, ctl)
        BY <3>2, StartAckedKeeps, StartRefusedKeeps, KeepsReflexive
    <3>4. r.result = "busy" => Keeps(ctl, StartCollided(ctl, r.turn, r.by))
        BY <3>2, StartCollidedKeeps
    <3> QED BY <2>3, <3>3, <3>4 DEF StartReply
  <2>4. ASSUME NEW r \in replies, SteerReply(r) PROVE Keeps(ctl, ctl')
    <3>1. r \in Replies /\ r.kind = "steer"
        BY <2>4 DEF SteerReply, TypeOK
    <3>2. r.turn \in Turns /\ r.turn # NoTurn /\ (r.result = "fellback" => r.by \in Turns)
        BY <3>1, TurnsAssumption DEF Replies, Turns
    <3>3. ctl.steerReq = r.turn => Keeps(ctl, SteerAccepted(ctl)) /\ Keeps(ctl, SteerNotAdmitted(ctl))
        BY <3>2, SteerEndsKeep
    <3>4. r.result = "fellback" => Keeps(ctl, SteerFellBack(ctl, r.by))
        BY <3>2, SteerFellBackKeeps
    <3>5. Keeps(ctl, ctl)
        BY KeepsReflexive
    <3> QED BY <2>4, <3>3, <3>4, <3>5 DEF SteerReply
  <2>5. CASE SteerDispatch
    <3>1. ctl.steerReq \in Locals /\ ctl.steerReq # NoTurn
        BY <2>5 DEF SteerDispatch, TypeOK, Controllers, OptLocal
    <3> QED BY <2>5, <3>1, UpdateSteerKeeps, SteerEndsKeep DEF SteerDispatch, Keeps
  <2>6. CASE SteerTimeout
    <3>1. ctl.steerReq # NoTurn
        BY <2>6, TurnsAssumption DEF SteerTimeout, TypeOK
    <3> QED BY <2>6, <3>1, SteerEndsKeep DEF SteerTimeout, Keeps
  <2>7. ASSUME NEW b \in BOOLEAN, InterruptReply(b) \/ OwnerInteraction(b) PROVE Keeps(ctl, ctl')
    BY <2>7, InterruptKeeps, SetAcceptedOwnerInteractionKeeps DEF InterruptReply, OwnerInteraction
  <2>8. ASSUME NEW s \in LookupStates, LookupReply(s) PROVE Keeps(ctl, ctl')
    <3>1. ctl.lookup \in Turns
        BY <2>8 DEF LookupReply, TypeOK, Controllers, OptTurn
    <3> QED BY <2>8, <3>1, LookupReturnedKeeps DEF LookupReply
  <2> QED BY <1>2, <2>1, <2>2, <2>3, <2>4, <2>5, <2>6, <2>7, <2>8 DEF Client, Keeps
<1>3. CASE Observe
  <2>1. PICK n : n = Head(notes)
    OBVIOUS
  <2>2. n \in Notes
    BY <1>3, <2>1 DEF Observe, TypeOK
  <2>3. n.turn \in Turns /\ (n.kind \notin {"started", "terminal"} => n.inputs \in Seq(Locals))
    BY <2>2 DEF Notes
  <2>4. /\ Keeps(ctl, ObserveTurnStarted(ctl, n.turn)) /\ Keeps(ctl, ObserveTerminal(ctl, n.turn))
        /\ Keeps(ctl, ctl)
    BY <2>3, ObserveTurnStartedKeeps, ObserveTerminalKeeps, KeepsReflexive
  <2>5. ASSUME n.kind \notin {"started", "terminal"}
        PROVE  Keeps(ctl, ObserveSteerDropped(ctl, n.turn, n.inputs))
    <3>1. \A s \in Seq(Locals) : s \in Seq(Turns)
        BY DEF Turns
    <3>2. n.inputs \in Seq(Turns)
        BY <2>3, <2>5, <3>1
    <3> QED BY <2>3, <3>2, ObserveSteerDroppedKeeps
  <2> QED BY <1>3, <2>1, <2>4, <2>5 DEF Observe, Keeps
<1> QED BY <1>1, <1>2, <1>3

LEMMA AgreedOn ==
    ASSUME NEW L, Agrees(ctl', L, Sight), L \subseteq RunningTurns'
    PROVE  Agreed
BY DEF Agreed

\* Nothing but the controller moves, and the turns that run for it are those that did.
LEMMA SameRunning ==
    ASSUME srv' = srv, notes' = notes, buffered' = buffered, Settled' => Settled
    PROVE  RunningTurns \subseteq RunningTurns'
<1>1. Foreground' = Foreground /\ EndingTurns' = EndingTurns
    BY DEF Foreground, EndingTurns, Ending
<1> QED BY <1>1, LiveTypes DEF RunningTurns, LiveTurns

LEMMA HandledAgreed ==
    ASSUME SentInv, (User /\ ~Retire) \/ Client, Agrees(ctl', RunningTurns, Sight)
    PROVE  Agreed
<1>1. Settled' => Settled
    BY LinkKept DEF Settled
<1>2. srv' = srv /\ notes' = notes /\ buffered' = buffered
    BY DEF User, Admit, Cancel, Submit, Stop, SendPendingNow, SendInterrupt, RetryRecovery, Continue,
           RetrySteer, SetSteeringEnabled, history, channels,
           Client, Dispatch, PreflightEndsNotReady, SeatRefused, StartTimeout, StartReply, SteerReply,
           SteerDispatch, SteerTimeout, InterruptReply, OwnerInteraction, LookupReply
<1> QED BY <1>1, <1>2, SameRunning, AgreedOn

\* Where every turn may run there is nothing left to agree upon.
LEMMA UnsettledAgreed ==
    ASSUME AgreeInv, ctl.link # "closed", ctl' = [ctl EXCEPT !.link = ctl'.link],
           ctl'.link \in {"recovering", "faulted", "down", "deaf"}
    PROVE  Agreed
<1>1. WellFormed(ctl) /\ NoRepeat(ctl.receipts)
    BY AgreeFacts
<1>2. ctl' \in Controllers /\ WellFormed(ctl') /\ ctl'.receipts = ctl.receipts
  <2>1. ctl'.link \in Links
    BY DEF Links
  <2>2. WellFormed(ctl')
    BY <1>1, <2>1, RelinkKeeps
  <2>3. PICK l : l = ctl'.link
    OBVIOUS
  <2>4. ctl' = [ctl EXCEPT !.link = l]
    BY <2>3
  <2> QED BY <1>1, <2>2, <2>4 DEF WellFormed, Controllers
<1>3. NoRepeat(ctl'.receipts)
    BY <1>1, <1>2
<1>4. Agrees(ctl', Turns, Sight)
    BY <1>2, <1>3, AgreesBlindly
<1>5. RunningTurns' = Turns
    BY DEF RunningTurns, Settled
<1> QED BY <1>4, <1>5, AgreedOn
-----------------------------------------------------------------------------
(* The user *)

LEMMA UserAgreed ==
    ASSUME AgreeInv, User, ctl.link # "closed", ctl'.link # "closed"
    PROVE  Agreed
<1> DEFINE L == RunningTurns
<1>1. /\ WellFormed(ctl) /\ Orderly(ctl) /\ Agrees(ctl, L, Sight) /\ Briefed(ctl, Sight) /\ SentInv
    BY AgreeFacts
<1>2. ~Retire
  <2>1. SUFFICES ASSUME Retire PROVE ctl'.link = "closed"
    OBVIOUS
  <2>2. ctl' = [Reset(ctl) EXCEPT !.link = "closed"]
    BY <2>1 DEF Retire
  <2> QED BY <2>2 DEF Reset, InitController
<1> HIDE DEF L
<1> SUFFICES Agrees(ctl', L, Sight)
    BY <1>1, <1>2, HandledAgreed DEF L
<1>3. ASSUME NEW t \in Locals, Admit(t) PROVE Agrees(ctl', L, Sight)
  <2>1. ctl' = EnqueueTurn(ctl, t) /\ t \notin ctl.attempted
    BY <1>3 DEF Admit, MayEnqueue
  <2> QED BY <1>1, <2>1, EnqueueTurnAgrees
<1>4. ASSUME NEW t \in Locals, Cancel(t) PROVE Agrees(ctl', L, Sight)
    BY <1>1, <1>4, CancelSubmitAgrees DEF Cancel
<1>5. ASSUME NEW t \in Steerable, Submit(t) PROVE Agrees(ctl', L, Sight)
    BY <1>1, <1>5, CancelSubmitAgrees, SystemAssumption DEF Submit
<1>6. CASE Stop \/ SendPendingNow
  <2>1. PICK b \in BOOLEAN : ctl' = Interrupt(ctl, b)
    BY <1>6 DEF Stop, SendPendingNow, SendInterrupt
  <2>2. Active(ctl) \in Turns
    BY <1>1, <1>6, ActiveType DEF WellFormed, Stop, SendPendingNow, MayInterrupt
  <2>3. PICK t \in Turns : TRUE
    BY <2>2
  <2> QED BY <1>1, <2>1, <2>3, QuietAgrees
<1>7. CASE RetryRecovery
    BY <1>1, <1>7, RetryTurnRecoveryAgrees DEF RetryRecovery
<1>8. CASE Continue
  <2>1. ctl' = ContinueWithoutTurn(ctl) /\ Active(ctl) # NoTurn
    BY <1>8 DEF Continue, MayContinueWithoutTurn
  <2> QED BY <1>1, <2>1, ContinueWithoutTurnAgrees
<1>9. CASE RetrySteer
  <2>1. HeadUnheard(ctl, Sight)
    BY <1>1, UnheardHead DEF Orderly, Fifo
  <2> QED BY <1>1, <1>9, <2>1, FinishSteerAgrees DEF RetrySteer
<1>10. CASE SetSteeringEnabled
  <2>1. ctl' = [ctl EXCEPT !.steering = ~@]
    BY <1>10 DEF SetSteeringEnabled
  <2>2. PICK t \in Turns : TRUE
    BY <1>10, SystemAssumption DEF SetSteeringEnabled, Turns
  <2>3. TRUE \in BOOLEAN
    OBVIOUS
  <2> QED BY <1>1, <2>1, <2>2, <2>3, QuietAgrees
<1> QED BY <1>2, <1>3, <1>4, <1>5, <1>6, <1>7, <1>8, <1>9, <1>10 DEF User

-----------------------------------------------------------------------------
(* The client *)

\* A turn that Core acknowledged or that the stream mentions was started.
LEMMA SpokenProven ==
    ASSUME KnownInv, NEW t \in Turns, srv[t] # "none",
           Acknowledged(t) \/ \E i \in DOMAIN notes : notes[i].turn = t,
           NEW L
    PROVE  Proven(t, L, Sight)
<1>1. t \notin NeverTurns
    BY DEF NeverTurns
<1>2. t \notin SilentTurns
    BY DEF SilentTurns
<1> QED BY <1>1, <1>2 DEF Proven, Sight

LEMMA StartReplyAgreed ==
    ASSUME EveryReceiptKept, AgreeInv, ctl.link # "closed", NEW r \in replies, StartReply(r),
           NEW L, Agrees(ctl, L, Sight)
    PROVE  Agrees(ctl', L, Sight)
<1>1. /\ WellFormed(ctl) /\ Orderly(ctl) /\ Briefed(ctl, Sight) /\ TypeOK /\ KnownInv
      /\ RepliesKnow
    BY AgreeFacts DEF KnownInv
<1>2. r \in Replies /\ r.kind = "start"
    BY <1>1 DEF StartReply, TypeOK
<1>3. r.turn \in Turns /\ (r.result = "busy" => r.by \in Turns)
    BY <1>2, ReplyForms
<1>4. \/ ctl' = ctl
      \/ OnWire(r.turn) /\ r.result = "ack" /\ ctl' = StartAcked(ctl, r.turn)
      \/ /\ OnWire(r.turn) /\ r.result = "busy" /\ StartCurrent(ctl, r.turn)
         /\ ctl' = StartCollided(ctl, r.turn, r.by)
      \/ OnWire(r.turn) /\ r.result # "ack" /\ ctl' = StartRejected(ctl, r.turn)
    BY DEF StartReply
<1>5. CASE r.result = "ack" /\ ctl' = StartAcked(ctl, r.turn)
  <2>1. srv[r.turn] # "none" /\ Acknowledged(r.turn)
    BY <1>1, <1>2, <1>5 DEF RepliesKnow, Acknowledged
  <2>2. Proven(r.turn, L, Sight)
    BY <1>1, <1>3, <2>1, SpokenProven
  <2> QED BY <1>1, <1>5, <2>2, StartAckedAgrees
<1>6. CASE /\ r.result = "busy" /\ StartCurrent(ctl, r.turn) /\ OnWire(r.turn)
           /\ ctl' = StartCollided(ctl, r.turn, r.by)
  <2>1. <<r.turn, r.by>> \in Sight.busy
    BY <1>2, <1>6 DEF Sight, BusyStarts
  <2>2. Active(ctl) = r.turn /\ ctl.startReq = r.turn
    BY <1>6 DEF StartCurrent, OnWire
  <2>3. r.by \in Turns
    BY <1>3, <1>6
  <2> QED BY <1>1, <1>3, <1>6, <2>1, <2>2, <2>3, StartCollidedAgrees
<1>7. CASE ctl' = StartRejected(ctl, r.turn)
    BY <1>1, <1>3, <1>7, StartRejectedAgrees
<1> QED BY <1>4, <1>5, <1>6, <1>7

LEMMA SteerReplyAgreed ==
    ASSUME AgreeInv, ctl.link # "closed", NEW r \in replies, SteerReply(r),
           NEW L, Agrees(ctl, L, Sight)
    PROVE  Agrees(ctl', L, Sight)
<1>1. /\ WellFormed(ctl) /\ Orderly(ctl) /\ Briefed(ctl, Sight) /\ TypeOK /\ RepliesKnow
      /\ r.kind = "steer"
    BY AgreeFacts DEF KnownInv, SteerReply
<1>2. r.turn # NoTurn /\ r.result \in {"steered", "reject", "fellback"}
    BY <1>1, ReplyForms, TurnsAssumption DEF TypeOK
<1>3. CASE ctl.steerReq # NoTurn /\ ctl' \in {SteerAccepted(ctl), SteerNotAdmitted(ctl)}
    BY <1>1, <1>3, SteerEndsAgrees
<1>4. CASE r.result = "fellback" /\ ctl' = SteerFellBack(ctl, r.by)
  <2>1. r.by \in Foreign
    BY <1>1, <1>4 DEF RepliesKnow
  <2> QED BY <1>1, <1>4, <2>1, SteerFellBackAgrees
<1> QED BY <1>2, <1>3, <1>4 DEF SteerReply

\* A lookup says that a turn runs when it does, or when its terminal is still in a stream
\* that the record listens to.
LEMMA LookupReplyAgreed ==
    ASSUME EveryReceiptKept, AgreeInv, ctl.link # "closed", NEW s \in LookupStates, LookupReply(s)
    PROVE  Agrees(ctl', RunningTurns, Sight)
<1>1. /\ WellFormed(ctl) /\ Orderly(ctl) /\ Briefed(ctl, Sight) /\ TypeOK /\ Drained
      /\ Agrees(ctl, RunningTurns, Sight)
    BY AgreeFacts DEF CoreInvariant
<1>2. PICK t : t = ctl.lookup
    OBVIOUS
<1>3. /\ t \in Turns /\ ctl' = LookupReturned(ctl, t, s) /\ s \in LookupResults(t)
      /\ ctl.link # "draining"
    BY <1>1, <1>2 DEF LookupReply, WellFormed, Controllers, OptTurn, Yielded
<1>4. ASSUME s \in {"active", "interrupting"} PROVE t \in RunningTurns
  <2>1. CASE Settled
    <3>1. buffered = 0
        BY <1>1, <1>3, <2>1 DEF Settled, Drained
    <3>2. s = srv[t] \/ \E i \in DOMAIN notes : notes[i] = [kind |-> "terminal", turn |-> t]
        BY <1>3, <1>4 DEF LookupResults
    <3>3. \A i \in DOMAIN notes : i > 0
        BY <1>1 DEF TypeOK
    <3> QED BY <1>3, <1>4, <2>1, <3>1, <3>2, <3>3
            DEF RunningTurns, LiveTurns, Foreground, EndingTurns, Ending
  <2>2. CASE ~Settled
    BY <1>3, <2>2 DEF RunningTurns
  <2> QED BY <2>1, <2>2
<1> QED BY <1>1, <1>3, <1>4, LookupReturnedAgrees

LEMMA ClientAgreed ==
    ASSUME EveryReceiptKept, AgreeInv, Client, ctl.link # "closed"
    PROVE  Agreed
<1> DEFINE L == RunningTurns
<1>1. /\ WellFormed(ctl) /\ Orderly(ctl) /\ Agrees(ctl, L, Sight) /\ Briefed(ctl, Sight) /\ SentInv
      /\ TypeOK
    BY AgreeFacts
<1>2. CASE \E s \in LookupStates : LookupReply(s)
    BY <1>1, <1>2, LookupReplyAgreed, HandledAgreed
<1> HIDE DEF L
<1>3. Agrees(ctl', L, Sight) => Agreed
    BY <1>1, HandledAgreed DEF L
<1>4. ASSUME NEW t \in Locals, Dispatch(t) PROVE Agrees(ctl', L, Sight)
  <2>1. ctl' = MarkSent(ctl, t) /\ t \in Turns /\ TRUE \in BOOLEAN
    BY <1>4 DEF Dispatch, Turns
  <2> QED BY <1>1, <2>1, QuietAgrees
<1>5. ASSUME NEW t \in Locals, PreflightEndsNotReady(t) \/ SeatRefused(t)
      PROVE  Agrees(ctl', L, Sight)
  <2>1. /\ Active(ctl) = t /\ t \in Turns
        /\ ctl' = StartRefused(ctl, t) \/ ctl' = PreflightNotReady(ctl, t)
    BY <1>5 DEF PreflightEndsNotReady, SeatRefused, InPreflight, StartCurrent, Turns
  <2> QED BY <1>1, <2>1, StartRefusedAgrees, PreflightNotReadyAgrees
<1>6. ASSUME NEW t \in Locals, StartTimeout(t) PROVE Agrees(ctl', L, Sight)
  <2>1. ctl' = StartUnconfirmed(ctl, t) /\ t \in Turns /\ TRUE \in BOOLEAN
    BY <1>6 DEF StartTimeout, Turns
  <2> QED BY <1>1, <2>1, QuietAgrees
<1>7. CASE SteerDispatch
  <2>1. /\ ctl.steerReq # NoTurn
        /\ ctl' \in {UpdateSteer(ctl, ctl.steerReq, "sent"), SteerNotAdmitted(ctl)}
    BY <1>7 DEF SteerDispatch
  <2>2. Agrees(ctl', L, Sight)
    BY <1>1, <2>1, SteerEndsAgrees
  <2> QED BY <1>3, <2>2
<1>8. CASE SteerTimeout
  <2>1. ctl.steerReq # NoTurn /\ ctl' = SteerUnconfirmed(ctl)
    BY <1>1, <1>8, TurnsAssumption DEF SteerTimeout, TypeOK
  <2>2. Agrees(ctl', L, Sight)
    BY <1>1, <2>1, SteerEndsAgrees
  <2> QED BY <1>3, <2>2
<1>9. ASSUME NEW b \in BOOLEAN, InterruptReply(b) PROVE Agrees(ctl', L, Sight)
  <2>1. ctl' = InterruptReturned(ctl, ctl.interruptReq, b) /\ ctl.interruptReq \in Turns
    BY <1>1, <1>9 DEF InterruptReply, WellFormed, Controllers, OptTurn
  <2> QED BY <1>1, <2>1, QuietAgrees
<1>10. ASSUME NEW b \in BOOLEAN, OwnerInteraction(b) PROVE Agrees(ctl', L, Sight)
  <2>1. ctl' = SetAcceptedOwnerInteraction(ctl, b) /\ ctl.owner.turn \in Turns
    BY <1>1, <1>10 DEF OwnerInteraction, WellFormed, Controllers, Owners, OptTurn
  <2>2. PICK t \in Turns : TRUE
    BY <2>1
  <2> QED BY <1>1, <2>1, <2>2, QuietAgrees
<1>11. ASSUME NEW r \in replies, StartReply(r) \/ SteerReply(r) PROVE Agrees(ctl', L, Sight)
    BY <1>1, <1>11, StartReplyAgreed, SteerReplyAgreed
<1> QED BY <1>2, <1>3, <1>4, <1>5, <1>6, <1>7, <1>8, <1>9, <1>10, <1>11 DEF Client

-----------------------------------------------------------------------------
(* Transport and recovery *)

LEMMA SuspendAgreed ==
    ASSUME AgreeInv, ctl.link # "closed", NEW l \in {"down", "opening"}, Suspend(l)
    PROVE  Agreed
<1> DEFINE d == SuspendTransport(ctl)
<1>1. /\ WellFormed(ctl) /\ Orderly(ctl) /\ Agrees(ctl, RunningTurns, Sight)
    BY AgreeFacts
<1>2. Agrees(d, Turns, Sight) /\ WellFormed(d)
    BY <1>1, SuspendTransportAgrees, SuspendTransportKeeps DEF Keeps
<1>3. PICK o : ctl' = [d EXCEPT !.link = l, !.lookup = o]
  <2>1. ctl' = [d EXCEPT !.link = l, !.lookup = IF l = "down" THEN NoTurn ELSE @]
    BY DEF Suspend
  <2>2. \/ ctl' = [d EXCEPT !.link = l, !.lookup = NoTurn]
        \/ ctl' = [d EXCEPT !.link = l, !.lookup = d.lookup]
    BY <2>1
  <2> QED BY <2>2
<1> HIDE DEF d
<1>4. Agrees(ctl', Turns, Sight) /\ ctl'.link = l
  <2>1. ctl'.link = l
    BY <1>2, <1>3 DEF WellFormed, Controllers
  <2> QED BY <1>2, <1>3, <2>1, RelinkAgrees
<1>5. RunningTurns' = Turns
    BY <1>4 DEF RunningTurns, Settled
<1> QED BY <1>4, <1>5, AgreedOn

\* The drain starts the head of the queue, of which nobody spoke.
LEMMA ReadyAgreed ==
    ASSUME AgreeInv, Ready
    PROVE  Agreed
<1> DEFINE d == [ctl EXCEPT !.link = "ready"]
<1>1. ctl.link = "draining" /\ srv' = srv /\ notes' = notes /\ buffered' = buffered
    BY DEF Ready, channels
<1>2. /\ WellFormed(ctl) /\ Orderly(ctl) /\ Briefed(ctl, Sight) /\ Agrees(ctl, RunningTurns, Sight)
    BY <1>1, AgreeFacts
<1>3. WellFormed(d) /\ d.attempted = ctl.attempted /\ Active(d) = Active(ctl)
  <2>1. ctl \in Controllers
    BY <1>2 DEF WellFormed
  <2>2. d.attempted = ctl.attempted /\ d.q = ctl.q
    BY <2>1 DEF Controllers
  <2>3. "ready" \in Links
    BY DEF Links
  <2>4. WellFormed(d)
    BY <1>2, <2>3, RelinkKeeps
  <2> QED BY <2>2, <2>4 DEF Active
<1>4. Agrees(d, RunningTurns, Sight)
    BY <1>2, RelinkAgrees
<1>5. ctl' = StartTurn(d, Active(d))
    BY DEF Ready, ResumePendingTurn
<1> HIDE DEF d
<1>6. HeadUnheard(d, Sight)
    BY <1>2, <1>3, UnheardHead DEF Orderly, Fifo
<1>7. Agrees(StartTurn(d, Active(d)), RunningTurns, Sight)
    BY <1>3, <1>4, <1>6, StartAgrees
<1>8. RunningTurns \subseteq RunningTurns'
    BY <1>1, SameRunning DEF Settled
<1> QED BY <1>5, <1>7, <1>8, AgreedOn

\* Hydrate says what runs: the client agrees with it.
LEMMA HydratedAgreed ==
    ASSUME AgreeInv, Hydrated
    PROVE  Agreed
<1> DEFINE d == [ctl EXCEPT !.link = "draining"]
<1>1. /\ ctl.link \in {"opening", "recovering"} /\ snap # NoSnap
      /\ srv' = srv /\ notes' = notes /\ buffered' = buffered
    BY DEF Hydrated
<1>2. /\ WellFormed(ctl) /\ Orderly(ctl) /\ KnownInv /\ TypeOK /\ Briefed(ctl, Sight)
      /\ NoRepeat(ctl.receipts) /\ SnapFresh /\ SnapTells
      /\ ctl.startReq # NoTurn => ctl.startReq \in ctl.attempted
    BY <1>1, AgreeFacts DEF AgreeInv, CoreInvariant
<1>3. WellFormed(d) /\ Unsent(d) = Unsent(ctl) /\ d.link = "draining"
    BY <1>1, <1>2, RelinkKeeps DEF Links
<1>4. /\ d.local = ctl.local /\ d.startReq = ctl.startReq /\ d.receipts = ctl.receipts
      /\ d.attempted = ctl.attempted /\ d.q = ctl.q
    BY <1>2 DEF WellFormed, Controllers
<1>5. Orderly(d)
    BY <1>1, <1>2, RelinkOrders DEF Links, Orders
<1>6. PICK b \in BOOLEAN : /\ b = (ctl.link = "recovering")
                           /\ ctl' = ReconcileFromHydrate(d, snap, b)
    BY DEF Hydrated
<1> HIDE DEF d
<1>7. (b \/ d.local = NoTurn) /\ Linked(d)
    BY <1>1, <1>2, <1>3, <1>4, <1>6 DEF Orderly, Leased, Linked
<1>8. ASSUME NEW x \in ServerForeground(snap) PROVE Sure(d, x)
  <2>1. x \in Turns /\ snap[x] \in {"active", "interrupting"}
    BY DEF ServerForeground
  <2>2. srv[x] # "none"
    BY <1>2, <2>1 DEF KnownInv, StreamKnows
  <2>3. Sure(ctl, x)
    BY <1>1, <1>2, <2>1, <2>2, KnownIsSure
  <2> QED BY <1>3, <2>3 DEF Sure
<1>9. Briefed(d, Sight) /\ NoRepeat(d.receipts) /\ (d.startReq # NoTurn => d.startReq \in d.attempted)
    BY <1>2, <1>4 DEF Briefed, Active
<1>10. \A x \in Turns : /\ snap[x] \in {"active", "interrupting"} => x \in LiveTurns
                        /\ snap[x] = "absent" => x \in LiveTurns \cup Sight.silent
                        /\ snap[x] \in {"active", "interrupting", "absent", "done"}
  <2> SUFFICES ASSUME NEW x \in Turns
               PROVE  /\ snap[x] \in {"active", "interrupting"} => x \in LiveTurns
                      /\ snap[x] = "absent" => x \in LiveTurns \cup Sight.silent
                      /\ snap[x] \in {"active", "interrupting", "absent", "done"}
    OBVIOUS
  <2>1. snap[x] \in {"none", "absent", "active", "interrupting", "done"} /\ snap[x] # "none"
    BY <1>1, <1>2 DEF TypeOK, SnapTells
  <2>2. Sight.silent = SilentTurns
    BY DEF Sight
  <2> QED BY <1>2, <2>1, <2>2 DEF SnapFresh
<1>11. Agrees(ReconcileFromHydrate(d, snap, b), LiveTurns, Sight)
    BY <1>3, <1>5, <1>7, <1>8, <1>9, <1>10, ReconcileFromHydrateAgrees
<1>12. LiveTurns \subseteq RunningTurns'
  <2>1. Foreground' = Foreground /\ EndingTurns' = EndingTurns
    BY <1>1 DEF Foreground, EndingTurns, Ending
  <2>2. LiveTurns' = LiveTurns
    BY <2>1 DEF LiveTurns
  <2>3. LiveTurns' \subseteq Turns
    BY <2>2, LiveTypes
  <2> QED BY <2>2, <2>3 DEF RunningTurns
<1> QED BY <1>6, <1>11, <1>12, AgreedOn

\* The events that remain still end what they ended; an event that is replayed from
\* before the hydrate ends nothing.
LEMMA ObserveLive ==
    ASSUME TypeOK, Observe, NEW x \in LiveTurns
    PROVE  x \in LiveTurns' \/ (buffered = 0 /\ notes[1] = [kind |-> "terminal", turn |-> x])
<1>1. srv' = srv /\ notes # <<>> /\ notes' = Tail(notes)
      /\ buffered' = IF buffered = 0 THEN 0 ELSE buffered - 1
    BY DEF Observe
<1>2. CASE x \in Foreground
    BY <1>1, <1>2 DEF LiveTurns, Foreground
<1>3. CASE x \in EndingTurns
  <2>1. PICK i \in DOMAIN notes : i > buffered /\ notes[i] = [kind |-> "terminal", turn |-> x]
    BY <1>3 DEF EndingTurns, Ending
  <2>2. CASE i = 1
    <3>1. buffered \in Nat
        BY DEF TypeOK
    <3>2. buffered = 0
        BY <2>1, <2>2, <3>1
    <3> QED BY <2>1, <2>2, <3>2
  <2>3. CASE i # 1
    <3>1. i - 1 \in DOMAIN notes' /\ notes'[i - 1] = notes[i]
        BY <1>1, <2>3, TailAt
    <3>2. i \in Nat /\ buffered \in Nat /\ i > 1
        BY <2>3 DEF TypeOK
    <3>3. i - 1 > buffered'
        BY <1>1, <2>1, <3>2
    <3>4. x \in EndingTurns'
        BY <1>3, <2>1, <3>1, <3>3 DEF EndingTurns, Ending
    <3> QED BY <3>4 DEF LiveTurns
  <2> QED BY <2>2, <2>3
<1> QED BY <1>2, <1>3 DEF LiveTurns

LEMMA ObserveAgreed ==
    ASSUME EveryReceiptKept, AgreeInv, Observe
    PROVE  Agreed
<1>1. ctl.link # "closed" /\ notes # <<>>
    BY DEF Observe
<1>2. /\ WellFormed(ctl) /\ Orderly(ctl) /\ TypeOK /\ KnownInv /\ SentInv /\ Briefed(ctl, Sight)
      /\ Agrees(ctl, RunningTurns, Sight)
    BY <1>1, AgreeFacts
<1>3. PICK n : n = notes[1]
    OBVIOUS
<1>4. PICK t : t = n.turn
    OBVIOUS
<1>5. n \in Notes /\ 1 \in DOMAIN notes /\ Head(notes) = n
    BY <1>1, <1>2, <1>3, TailAt DEF Observe
<1>6. /\ t \in Turns
      /\ n.kind \in {"started", "terminal", "dropped"}
      /\ n.kind = "dropped" => n.inputs \in Seq(Locals)
    BY <1>4, <1>5 DEF Notes
<1>7. srv[t] # "none"
    BY <1>2, <1>3, <1>4, <1>5 DEF KnownInv, StreamKnows
<1>8. Sure(ctl, t) /\ \A L : Proven(t, L, Sight)
    BY <1>1, <1>2, <1>3, <1>4, <1>5, <1>6, <1>7, KnownIsSure, SpokenProven
<1>9. Settled' => Settled
    BY <1>2, LinkKept DEF Settled
<1>10. \A x \in RunningTurns : \/ x \in RunningTurns'
                               \/ buffered = 0 /\ n.kind = "terminal" /\ x = t
  <2> SUFFICES ASSUME NEW x \in RunningTurns, x \notin RunningTurns'
               PROVE  buffered = 0 /\ n.kind = "terminal" /\ x = t
    OBVIOUS
  <2>1. Settled' /\ Settled
    BY <1>9, LiveTypes DEF RunningTurns
  <2>2. x \in LiveTurns /\ x \notin LiveTurns'
    BY <2>1 DEF RunningTurns
  <2>3. buffered = 0 /\ n = [kind |-> "terminal", turn |-> x]
    BY <1>2, <1>3, <2>2, ObserveLive
  <2> QED BY <1>4, <2>3
<1> DEFINE L == RunningTurns
           M == RunningTurns'
<1>11. Agrees(ctl, L, Sight)
    BY <1>2
<1>12. \A x \in L : x \in M \/ (buffered = 0 /\ n.kind = "terminal" /\ x = t)
    BY <1>10
<1>13. \A K : Agrees(ctl', K, Sight) /\ K \subseteq M => Agreed
    BY AgreedOn
<1> HIDE DEF L, M
<1>14. CASE n.kind = "terminal" /\ buffered = 0
  <2>1. ctl' = ObserveTerminal(ctl, t)
    BY <1>4, <1>5, <1>14 DEF Observe
  <2>2. Agrees(ctl', L \ {t}, Sight)
    BY <1>2, <1>8, <1>11, <2>1, ObserveTerminalAgrees
  <2>3. L \ {t} \subseteq M
    BY <1>12
  <2> QED BY <1>13, <2>2, <2>3
<1>15. CASE ~(n.kind = "terminal" /\ buffered = 0)
  <2>1. L \subseteq M
    BY <1>12, <1>15
  <2>2. CASE ctl' = ctl
    BY <1>11, <1>13, <2>1, <2>2
  <2>3. CASE ctl' = ObserveTurnStarted(ctl, t)
    <3>1. Agrees(ctl', L, Sight)
        BY <1>2, <1>8, <1>11, <2>3, ObserveTurnStartedAgrees
    <3> QED BY <1>13, <2>1, <3>1
  <2>4. CASE n.kind = "dropped" /\ ctl' = ObserveSteerDropped(ctl, t, n.inputs)
    <3>1. PICK given : given = n.inputs
        OBVIOUS
    <3>2. given \in Seq(Turns)
        <4>1. \A s \in Seq(Locals) : s \in Seq(Turns)
            BY DEF Turns
        <4> QED BY <1>6, <2>4, <3>1, <4>1
    <3>3. NoRepeat(given)
        BY <1>2, <1>3, <1>5, <2>4, <3>1 DEF KnownInv, SteersOnce
    <3>4. Agrees(ctl', L, Sight)
        BY <1>2, <1>8, <1>11, <2>4, <3>1, <3>2, <3>3, ObserveSteerDroppedAgrees
    <3> QED BY <1>13, <2>1, <3>4
  <2>5. n.kind = "terminal" => ctl' = ctl
    <3>1. buffered \in Nat
        BY <1>2 DEF TypeOK
    <3> QED BY <1>5, <1>15, <3>1 DEF Observe
  <2>6. n.kind = "started" => ctl' = ObserveTurnStarted(ctl, t)
    BY <1>4, <1>5 DEF Observe
  <2>7. n.kind = "dropped" => ctl' = ObserveSteerDropped(ctl, t, n.inputs)
    BY <1>4, <1>5 DEF Observe
  <2> QED BY <1>6, <2>2, <2>3, <2>4, <2>5, <2>6, <2>7
<1> QED BY <1>14, <1>15

LEMMA TransportAgreed ==
    ASSUME EveryReceiptKept, AgreeInv, Transport, ctl.link # "closed"
    PROVE  Agreed
<1>1. CASE LoseTransport \/ Reopen
  <2>1. PICK l \in {"down", "opening"} : Suspend(l)
    BY <1>1 DEF LoseTransport, Reopen
  <2> QED BY <2>1, SuspendAgreed
<1>2. CASE ReopenFails \/ Gap \/ GapFails
  <2>1. PICK l \in {"recovering", "faulted", "down", "deaf"} : ctl' = [ctl EXCEPT !.link = l]
    BY <1>2 DEF ReopenFails, Gap, GapFails
  <2>2. ctl \in Controllers
    BY AgreeFacts DEF TypeOK
  <2>3. ctl'.link = l
    BY <2>1, <2>2 DEF Controllers
  <2> QED BY <2>1, <2>3, UnsettledAgreed
<1>3. CASE AnswerHydrate \/ \E m \in wire : LoseRequest(m)
  <2>1. Agrees(ctl', RunningTurns, Sight) /\ ctl' = ctl
    BY <1>3, AgreeFacts DEF AnswerHydrate, LoseRequest
  <2>2. ctl.link \in {"opening", "recovering", "down"}
    BY <1>3 DEF AnswerHydrate, LoseRequest
  <2>3. RunningTurns' = Turns
    BY <2>1, <2>2 DEF RunningTurns, Settled
  <2> QED BY <2>1, <2>3, LiveTypes, AgreedOn
<1> QED BY <1>1, <1>2, <1>3, HydratedAgreed, ReadyAgreed, ObserveAgreed DEF Transport

-----------------------------------------------------------------------------
(* What Core and the stream say *)

\* A step adds nothing to what is said of the turns that do not run.
Hushed == SilentTurns \subseteq SilentTurns' /\ BusyStarts' \subseteq BusyStarts

LEMMA QuieterHushed ==
    ASSUME srv' = srv, replies' \subseteq replies,
           \A i \in DOMAIN notes' : \E j \in DOMAIN notes : notes'[i] = notes[j]
    PROVE  Hushed
<1>1. Foreground' = Foreground
    BY DEF Foreground
<1>2. \A t : Acknowledged(t)' => Acknowledged(t)
    BY DEF Acknowledged
<1>3. SilentTurns \subseteq SilentTurns'
    BY <1>1, <1>2 DEF SilentTurns
<1>4. BusyStarts' \subseteq BusyStarts
    BY DEF BusyStarts
<1> QED BY <1>3, <1>4 DEF Hushed

LEMMA ClientHushed ==
    ASSUME TypeOK, User \/ Client \/ Transport \/ UNCHANGED vars
    PROVE  Hushed
<1>1. srv' = srv /\ replies' \subseteq replies /\ (notes' = notes \/ notes' = <<>> \/ Observe)
  <2>1. CASE User
    BY <2>1 DEF User, Admit, Cancel, Submit, Stop, SendPendingNow, SendInterrupt, RetryRecovery,
       Continue, RetrySteer, SetSteeringEnabled, Retire, CutStream, history, channels
  <2>2. CASE Client
    BY <2>2 DEF Client, Dispatch, PreflightEndsNotReady, SeatRefused, StartTimeout, StartReply,
       SteerReply, SteerDispatch, SteerTimeout, InterruptReply, OwnerInteraction, LookupReply,
       history, channels
  <2>3. CASE Transport
    BY <2>3 DEF Transport, LoseTransport, Reopen, ReopenFails, Gap, GapFails, LoseRequest,
       AnswerHydrate, Hydrated, Ready, Observe, Suspend, CutStream, history, channels
  <2>4. CASE UNCHANGED vars
    BY <2>4 DEF vars, channels
  <2> QED BY <2>1, <2>2, <2>3, <2>4
<1>2. \A i \in DOMAIN notes' : \E j \in DOMAIN notes : notes'[i] = notes[j]
  <2>1. CASE notes' = notes \/ notes' = <<>>
    BY <2>1
  <2>2. CASE Observe
    <3>1. \A i \in DOMAIN notes' : i + 1 \in DOMAIN notes /\ notes'[i] = notes[i + 1]
        BY <2>2, TailAt DEF Observe
    <3> QED BY <3>1
  <2> QED BY <1>1, <2>1, <2>2
<1> QED BY <1>1, <1>2, QuieterHushed

\* Core keeps saying what it said, and all it adds is about turns that then run: it starts
\* one, refuses a start for the one that runs, or ends one and says so at the end of the
\* stream.
Tells ==
    /\ LiveTurns \subseteq LiveTurns'
    /\ SilentTurns \subseteq SilentTurns' \cup LiveTurns'
    /\ \A t, x : <<t, x>> \in BusyStarts' => <<t, x>> \in BusyStarts \/ x \in LiveTurns'

LEMMA EmitLonger ==
    ASSUME TypeOK, NEW ns \in Seq(Notes), notes' = Emit(ns)
    PROVE  Len(notes) <= Len(notes')
<1>1. Len(notes) \in Nat /\ Len(ns) \in Nat /\ notes \in Seq(Notes)
    BY DEF TypeOK
<1>2. Len(notes \o ns) = Len(notes) + Len(ns)
    BY <1>1
<1> QED BY <1>1, <1>2 DEF Emit

\* What the stream ended it ends still, whatever is appended.
LEMMA EmitKeepsEnding ==
    ASSUME TypeOK, NEW ns \in Seq(Notes), notes' = Emit(ns), buffered' = buffered
    PROVE  /\ EndingTurns \subseteq EndingTurns'
           /\ \A i \in DOMAIN notes' : \/ \E j \in DOMAIN notes : notes'[i] = notes[j]
                                       \/ \E j \in DOMAIN ns : notes'[i] = ns[j]
<1>1. /\ \A i \in DOMAIN notes : i \in DOMAIN notes' /\ notes'[i] = notes[i] /\ i \in Nat
      /\ \A i \in DOMAIN notes' :
            \/ i \in DOMAIN notes
            \/ i - Len(notes) \in DOMAIN ns /\ notes'[i] = ns[i - Len(notes)]
    BY EmitAt
<1>2. EndingTurns \subseteq EndingTurns'
    BY <1>1 DEF EndingTurns, Ending
<1> QED BY <1>1, <1>2

\* A step of Core that appends ns, answers with more, and may start x or end y.
LEMMA CoreTells ==
    ASSUME TypeOK, NEW ns \in Seq(Notes), notes' = Emit(ns), buffered' = buffered,
           \A t \in Foreground : t \in LiveTurns', Foreground' \subseteq Turns,
           \A t \in SilentTurns : t \in Foreground' \/ \A i \in DOMAIN ns : ns[i].turn # t,
           \A r \in replies' : \/ r \in replies \/ r.kind # "start" \/ r.result = "reject"
                               \/ r.result = "ack" /\ r.turn \in Foreground'
                               \/ r.result = "busy" /\ r.by \in Foreground'
    PROVE  Tells
<1>1. /\ EndingTurns \subseteq EndingTurns'
      /\ \A i \in DOMAIN notes' : \/ \E j \in DOMAIN notes : notes'[i] = notes[j]
                                  \/ \E j \in DOMAIN ns : notes'[i] = ns[j]
    BY EmitKeepsEnding
<1>2. LiveTurns \subseteq LiveTurns'
    BY <1>1 DEF LiveTurns
<1>3. ASSUME NEW t \in SilentTurns, t \notin LiveTurns' PROVE t \in SilentTurns'
  <2>1. t \in Turns /\ t \notin Foreground'
    BY <1>3 DEF SilentTurns, LiveTurns
  <2>2. \A i \in DOMAIN notes' : notes'[i].turn # t
    BY <1>1, <1>3, <2>1 DEF SilentTurns
  <2>3. ~Acknowledged(t)'
    BY <1>3, <2>1 DEF SilentTurns, Acknowledged
  <2> QED BY <2>1, <2>2, <2>3 DEF SilentTurns
<1>4. ASSUME NEW t, NEW x, <<t, x>> \in BusyStarts', x \notin LiveTurns'
      PROVE  <<t, x>> \in BusyStarts
  <2>1. PICK r \in replies' : r.kind = "start" /\ r.result = "busy" /\ <<t, x>> = <<r.turn, r.by>>
    BY <1>4 DEF BusyStarts
  <2>2. r.by = x /\ r.turn = t
    BY <2>1
  <2>3. r \in replies
    BY <1>4, <2>1, <2>2 DEF LiveTurns
  <2> QED BY <2>1, <2>3 DEF BusyStarts
<1> QED BY <1>2, <1>3, <1>4 DEF Tells

LEMMA ReplyIn == ASSUME NEW r, replies' = Reply(r) PROVE replies' \subseteq replies \cup {r}
BY DEF Reply

LEMMA CoreStartTells ==
    ASSUME TypeOK, NEW m \in wire, CoreStart(m)
    PROVE  Tells /\ Len(notes) <= Len(notes')
<1> DEFINE t == m.turn
           ack == [kind |-> "start", turn |-> t, result |-> "ack"]
           rej == [kind |-> "start", turn |-> t, result |-> "reject"]
           n == [kind |-> "started", turn |-> t]
           busy(f) == [kind |-> "start", turn |-> t, result |-> "busy", by |-> f]
<1>1. t \in Turns /\ m.kind = "start" /\ buffered' = buffered
    BY RequestForms DEF TypeOK, CoreStart
<1>2. \/ /\ Foreground = {} /\ srv' = [srv EXCEPT ![t] = "active"]
         /\ replies' = Reply(ack) /\ notes' = Emit(<<n>>)
      \/ /\ \E f \in Foreground : replies' = Reply(busy(f))
         /\ srv' = srv /\ notes' = notes
      \/ replies' = Reply(rej) /\ srv' = srv /\ notes' = notes
    BY DEF CoreStart
<1>3. n \in Notes /\ n.turn = t
    BY <1>1 DEF Notes
<1>4. /\ ack.result = "ack" /\ ack.turn = t /\ rej.result = "reject"
      /\ \A f : busy(f).result = "busy" /\ busy(f).by = f
    OBVIOUS
<1> HIDE DEF t, ack, rej, n, busy
<1>5. CASE /\ Foreground = {} /\ srv' = [srv EXCEPT ![t] = "active"]
           /\ replies' = Reply(ack) /\ notes' = Emit(<<n>>)
  <2>1. Foreground' = {t}
    BY <1>1, <1>5 DEF TypeOK, Foreground
  <2>2. <<n>> \in Seq(Notes) /\ \A i \in DOMAIN <<n>> : <<n>>[i] = n
    BY <1>3
  <2> DEFINE ns == <<n>>
  <2>3. ns \in Seq(Notes) /\ notes' = Emit(ns) /\ \A i \in DOMAIN ns : ns[i].turn = t
    BY <1>3, <1>5, <2>2
  <2> HIDE DEF ns
  <2>4. \A r \in replies' : r \in replies \/ (r.result = "ack" /\ r.turn \in Foreground')
    BY <1>4, <1>5, <2>1, ReplyIn
  <2>5. \A x \in SilentTurns : x \in Foreground' \/ \A i \in DOMAIN ns : ns[i].turn # x
    BY <2>1, <2>3
  <2>6. Foreground' \subseteq Turns /\ \A x \in Foreground : x \in LiveTurns'
    BY <1>1, <1>5, <2>1
  <2> QED BY <1>1, <2>3, <2>4, <2>5, <2>6, CoreTells, EmitLonger
<1>6. CASE srv' = srv /\ notes' = notes /\ replies' \subseteq replies \cup {rej} \cup {busy(f) : f \in Foreground}
  <2>1. Foreground' = Foreground /\ Foreground \subseteq Turns
    BY <1>6 DEF Foreground
  <2> DEFINE ns == <<>>
  <2>2. ns \in Seq(Notes) /\ notes' = Emit(ns) /\ DOMAIN ns = {}
    <3>1. notes \o <<>> = notes
        BY DEF TypeOK
    <3> QED BY <1>6, <3>1 DEF Emit
  <2> HIDE DEF ns
  <2>3. \A r \in replies' : \/ r \in replies \/ r.result = "reject"
                            \/ r.result = "busy" /\ r.by \in Foreground'
    BY <1>4, <1>6, <2>1
  <2>4. \A x \in Foreground : x \in LiveTurns'
    BY <2>1 DEF LiveTurns
  <2> QED BY <1>1, <2>1, <2>2, <2>3, <2>4, CoreTells, EmitLonger
<1>7. ASSUME NEW f \in Foreground, replies' = Reply(busy(f))
      PROVE  replies' \subseteq replies \cup {rej} \cup {busy(g) : g \in Foreground}
    BY <1>7, ReplyIn
<1>8. replies' = Reply(rej) => replies' \subseteq replies \cup {rej} \cup {busy(g) : g \in Foreground}
    BY ReplyIn
<1> QED BY <1>2, <1>5, <1>6, <1>7, <1>8

LEMMA ForeignStartTells ==
    ASSUME TypeOK, NEW f \in Foreign, ForeignStart(f)
    PROVE  Tells /\ Len(notes) <= Len(notes')
<1> DEFINE n == [kind |-> "started", turn |-> f]
           ns == <<n>>
<1>1. /\ f \in Turns /\ Foreground = {} /\ srv' = [srv EXCEPT ![f] = "active"]
      /\ notes' = Emit(ns) /\ replies' = replies /\ buffered' = buffered
    BY DEF ForeignStart, Turns
<1>2. n \in Notes /\ n.turn = f
    BY <1>1 DEF Notes
<1> HIDE DEF n
<1>3. ns \in Seq(Notes) /\ \A i \in DOMAIN ns : ns[i].turn = f
    BY <1>2
<1> HIDE DEF ns
<1>4. Foreground' = {f}
    BY <1>1 DEF TypeOK, Foreground
<1>5. \A x \in SilentTurns : x \in Foreground' \/ \A i \in DOMAIN ns : ns[i].turn # x
    BY <1>3, <1>4
<1>6. Foreground' \subseteq Turns /\ \A x \in Foreground : x \in LiveTurns'
    BY <1>1, <1>4
<1> QED BY <1>1, <1>3, <1>5, <1>6, CoreTells, EmitLonger

LEMMA CoreSteerTells ==
    ASSUME TypeOK, NEW m \in wire, CoreSteer(m)
    PROVE  Tells /\ Len(notes) <= Len(notes')
<1> DEFINE p == m.turn
           done == [kind |-> "steer", turn |-> p, result |-> "steered"]
           rej == [kind |-> "steer", turn |-> p, result |-> "reject"]
           fell(f) == [kind |-> "steer", turn |-> p, result |-> "fellback", by |-> f]
           n(f) == [kind |-> "started", turn |-> f]
<1>1. buffered' = buffered
    BY DEF CoreSteer
<1>2. \/ srv' = srv /\ notes' = notes /\ (replies' = Reply(done) \/ replies' = Reply(rej))
      \/ \E f \in Foreign : /\ Foreground = {} /\ srv' = [srv EXCEPT ![f] = "active"]
                            /\ replies' = Reply(fell(f)) /\ notes' = Emit(<<n(f)>>)
    BY DEF CoreSteer
<1>3. done.kind = "steer" /\ rej.kind = "steer" /\ \A f : fell(f).kind = "steer"
    OBVIOUS
<1>4. \A f \in Foreign : n(f) \in Notes /\ n(f).turn = f
    BY DEF Notes, Turns
<1> HIDE DEF p, done, rej, fell, n
<1>5. ASSUME NEW r, r.kind = "steer", replies' = Reply(r)
      PROVE  \A x \in replies' : x \in replies \/ x.kind # "start"
    BY <1>5, ReplyIn
<1>6. CASE srv' = srv /\ notes' = notes /\ (replies' = Reply(done) \/ replies' = Reply(rej))
  <2>1. Foreground' = Foreground /\ Foreground \subseteq Turns
    BY <1>6 DEF Foreground
  <2> DEFINE ns == <<>>
  <2>2. ns \in Seq(Notes) /\ notes' = Emit(ns) /\ DOMAIN ns = {}
    <3>1. notes \o <<>> = notes
        BY DEF TypeOK
    <3> QED BY <1>6, <3>1 DEF Emit
  <2> HIDE DEF ns
  <2>3. \A r \in replies' : r \in replies \/ r.kind # "start"
    BY <1>3, <1>5, <1>6
  <2>4. \A x \in Foreground : x \in LiveTurns'
    BY <2>1 DEF LiveTurns
  <2> QED BY <1>1, <2>1, <2>2, <2>3, <2>4, CoreTells, EmitLonger
<1>7. ASSUME NEW f \in Foreign, Foreground = {}, srv' = [srv EXCEPT ![f] = "active"],
             replies' = Reply(fell(f)), notes' = Emit(<<n(f)>>)
      PROVE  Tells /\ Len(notes) <= Len(notes')
  <2> DEFINE ns == <<n(f)>>
  <2>1. ns \in Seq(Notes) /\ notes' = Emit(ns) /\ \A i \in DOMAIN ns : ns[i].turn = f
    BY <1>4, <1>7
  <2> HIDE DEF ns
  <2>2. Foreground' = {f} /\ f \in Turns
    BY <1>7 DEF TypeOK, Foreground, Turns
  <2>3. \A r \in replies' : r \in replies \/ r.kind # "start"
    BY <1>3, <1>5, <1>7
  <2>4. \A x \in SilentTurns : x \in Foreground' \/ \A i \in DOMAIN ns : ns[i].turn # x
    BY <2>1, <2>2
  <2>5. Foreground' \subseteq Turns /\ \A x \in Foreground : x \in LiveTurns'
    BY <1>7, <2>2
  <2> QED BY <1>1, <2>1, <2>3, <2>4, <2>5, CoreTells, EmitLonger
<1> QED BY <1>2, <1>6, <1>7

\* The terminal is appended after everything that precedes a hydrate in flight.
LEMMA CoreEndTells ==
    ASSUME TypeOK, buffered <= Len(notes), NEW t \in Turns, CoreEnd(t)
    PROVE  (Heard => Tells) /\ Len(notes) <= Len(notes')
<1> DEFINE d == [kind |-> "dropped", turn |-> t, inputs |-> inputs]
           e == [kind |-> "terminal", turn |-> t]
           ns == (IF inputs = <<>> THEN <<>> ELSE <<d>>) \o <<e>>
<1>1. /\ t \in Foreground /\ srv' = [srv EXCEPT ![t] = "done"]
      /\ notes' = Emit(ns) /\ replies' = replies /\ buffered' = buffered
    BY DEF CoreEnd
<1>2. d \in Notes /\ e \in Notes /\ d.turn = t /\ e.turn = t
    BY DEF Notes, TypeOK
<1> HIDE DEF d
<1>3. /\ ns \in Seq(Notes) /\ Len(ns) \in Nat /\ Len(ns) > 0 /\ DOMAIN ns = 1..Len(ns)
      /\ ns[Len(ns)] = e /\ \A i \in DOMAIN ns : ns[i].turn = t
  <2>1. CASE inputs = <<>>
    <3>1. ns = <<>> \o <<e>> /\ <<>> \o <<e>> = <<e>>
        BY <2>1
    <3>2. <<e>> \in Seq(Notes) /\ Len(<<e>>) = 1 /\ <<e>>[1] = e
        BY <1>2
    <3>3. ns \in Seq(Notes) /\ Len(ns) = 1 /\ ns[1] = e /\ DOMAIN ns = 1..1
        BY <3>1, <3>2
    <3> HIDE DEF ns, e
    <3> QED BY <1>2, <3>3
  <2>2. CASE inputs # <<>>
    <3>1. ns = <<d>> \o <<e>>
        BY <2>2
    <3> HIDE DEF ns, e
    <3>2. /\ <<d>> \in Seq(Notes) /\ Len(<<d>>) = 1 /\ <<d>>[1] = d
          /\ <<e>> \in Seq(Notes) /\ Len(<<e>>) = 1 /\ <<e>>[1] = e
        BY <1>2
    <3>3. ns \in Seq(Notes) /\ Len(ns) = 2 /\ ns[1] = d /\ ns[2] = e /\ DOMAIN ns = 1..2
        BY <3>1, <3>2
    <3> QED BY <1>2, <3>3
  <2> QED BY <2>1, <2>2
<1> HIDE DEF ns
<1>4. Foreground' = Foreground \ {t}
    BY <1>1 DEF TypeOK, Foreground
<1>5. Len(notes) <= Len(notes')
    BY <1>1, <1>3, EmitLonger
<1>6. ASSUME Heard PROVE Tells
  <2>1. notes' = notes \o ns /\ notes \in Seq(Notes) /\ Len(notes) \in Nat /\ buffered \in Nat
    BY <1>1, <1>6 DEF Emit, TypeOK
  <2>2. PICK k : k = Len(notes) + Len(ns)
    OBVIOUS
  <2>3. k \in DOMAIN notes' /\ notes'[k] = ns[Len(ns)]
    BY <1>3, <2>1, <2>2
  <2>4. k > buffered'
    BY <1>1, <1>3, <2>1, <2>2
  <2>5. t \in LiveTurns'
    BY <1>3, <2>3, <2>4 DEF LiveTurns, EndingTurns, Ending
  <2>6. \A x \in Foreground : x \in LiveTurns'
    BY <1>4, <2>5 DEF LiveTurns
  <2>7. \A x \in SilentTurns : x \in Foreground' \/ \A i \in DOMAIN ns : ns[i].turn # x
    BY <1>1, <1>3 DEF SilentTurns
  <2>8. Foreground' \subseteq Turns
    BY <1>4 DEF Foreground
  <2> QED BY <1>1, <1>3, <2>6, <2>7, <2>8, CoreTells
<1> QED BY <1>5, <1>6

LEMMA CoreTold ==
    ASSUME TypeOK, buffered <= Len(notes), Core
    PROVE  (Heard => Tells) /\ Len(notes) <= Len(notes')
<1>1. CASE CoreDrain \/ \E m \in wire : CoreInterrupt(m)
  <2>1. notes' = notes /\ replies' = replies /\ buffered' = buffered
    BY <1>1 DEF CoreDrain, CoreInterrupt, channels
  <2>2. \A x \in Turns : x \in Foreground <=> x \in Foreground'
    <3>1. CASE CoreDrain
        BY <3>1 DEF CoreDrain, Foreground
    <3>2. ASSUME NEW m \in wire, CoreInterrupt(m) PROVE \A x \in Turns : x \in Foreground <=> x \in Foreground'
        BY <3>2 DEF CoreInterrupt, Foreground, TypeOK
    <3> QED BY <1>1, <3>1, <3>2
  <2>3. Foreground' = Foreground /\ Foreground \subseteq Turns
    BY <2>2 DEF Foreground
  <2> DEFINE ns == <<>>
  <2>4. ns \in Seq(Notes) /\ notes' = Emit(ns) /\ DOMAIN ns = {}
    <3>1. notes \o <<>> = notes
        BY DEF TypeOK
    <3> QED BY <2>1, <3>1 DEF Emit
  <2> HIDE DEF ns
  <2>5. \A x \in Foreground : x \in LiveTurns'
    BY <2>3 DEF LiveTurns
  <2>6. \A r \in replies' : r \in replies
    BY <2>1
  <2> QED BY <2>1, <2>3, <2>4, <2>5, <2>6, CoreTells, EmitLonger
<1> QED BY <1>1, CoreStartTells, ForeignStartTells, CoreSteerTells, CoreEndTells DEF Core

-----------------------------------------------------------------------------
(* The answered hydrate and the position of its cursor *)

\* Core answers with what runs; of what it leaves out nothing is on its way.
LEMMA AnswerFresh ==
    ASSUME KnownInv, AnswerHydrate
    PROVE  SnapFresh'
<1>1. srv' = srv /\ notes' = notes /\ replies' = replies /\ snap' \in HydrateAnswers
    BY DEF AnswerHydrate
<1>2. Foreground' = Foreground /\ SilentTurns' = SilentTurns
    BY <1>1 DEF Foreground, SilentTurns, Acknowledged
<1>3. ASSUME NEW t \in Turns
      PROVE  /\ snap'[t] \in {"active", "interrupting"} => t \in Foreground
             /\ snap'[t] = "absent" => t \in SilentTurns
  <2>1. \/ snap'[t] = (IF srv[t] = "none" THEN "absent" ELSE srv[t])
        \/ MayForget(t) /\ snap'[t] = "absent"
    BY <1>1 DEF HydrateAnswers
  <2>2. srv[t] = "none" => t \in SilentTurns
    BY DEF KnownInv, StreamKnows, RepliesKnow, SilentTurns, Acknowledged, Foreground
  <2>3. MayForget(t) => t \in SilentTurns
    BY DEF MayForget, SilentTurns, Acknowledged, Foreground
  <2>4. srv[t] # "absent"
    BY DEF KnownInv, SentInv, TypeOK
  <2> QED BY <2>1, <2>2, <2>3, <2>4 DEF Foreground
<1> QED BY <1>2, <1>3 DEF SnapFresh, LiveTurns

LEMMA SameLive ==
    ASSUME srv' = srv, notes' = notes, buffered' = buffered
    PROVE  LiveTurns' = LiveTurns
<1>1. Foreground' = Foreground /\ EndingTurns' = EndingTurns
    BY DEF Foreground, EndingTurns, Ending
<1> QED BY <1>1 DEF LiveTurns

LEMMA FreshGrows ==
    ASSUME SnapFresh, snap' = snap, LiveTurns \subseteq LiveTurns',
           SilentTurns \subseteq SilentTurns' \cup LiveTurns'
    PROVE  SnapFresh'
BY DEF SnapFresh

LEMMA NextSnapFresh ==
    ASSUME AgreeInv, [Next]_vars, snap' # NoSnap
    PROVE  SnapFresh'
<1>1. TypeOK /\ KnownInv /\ SnapTells /\ buffered <= Len(notes) /\ (snap # NoSnap => SnapFresh)
    BY DEF AgreeInv, ForegroundInv, LostInv, TurnInv, KnownInv, SentInv, CoreInvariant
<1>2. CASE AnswerHydrate
    BY <1>1, <1>2, AnswerFresh
<1>3. CASE UNCHANGED <<srv, notes, snap, buffered>> /\ Hushed
  <2>1. LiveTurns' = LiveTurns /\ SnapFresh /\ snap' = snap
    BY <1>1, <1>3, SameLive
  <2> QED BY <1>3, <2>1, FreshGrows DEF Hushed
<1>4. CASE Core
  <2>1. ctl' = ctl /\ snap' = snap
    BY <1>4 DEF Core, CoreStart, CoreInterrupt, CoreSteer, ForeignStart, CoreDrain, CoreEnd, channels
  <2>2. SnapFresh /\ Heard
    BY <1>1, <2>1 DEF SnapTells, Heard
  <2>3. Tells
    BY <1>1, <1>4, <2>2, CoreTold
  <2> QED BY <2>1, <2>2, <2>3, FreshGrows DEF Tells
<1>5. CASE User
  <2>1. UNCHANGED <<srv, notes, snap, buffered>> \/ snap' = NoSnap
    BY <1>5 DEF User, Admit, Cancel, Submit, Stop, SendPendingNow, SendInterrupt, RetryRecovery,
       Continue, RetrySteer, SetSteeringEnabled, Retire, CutStream, channels
  <2>2. Hushed
    BY <1>1, <1>5, ClientHushed
  <2> QED BY <1>3, <2>1, <2>2
<1>6. CASE Client
  <2>1. UNCHANGED <<srv, notes, snap, buffered>>
    BY <1>6 DEF Client, Dispatch, PreflightEndsNotReady, SeatRefused, StartTimeout, StartReply,
       SteerReply, SteerDispatch, SteerTimeout, InterruptReply, OwnerInteraction, LookupReply, channels
  <2>2. Hushed
    BY <1>1, <1>6, ClientHushed
  <2> QED BY <1>3, <2>1, <2>2
<1>7. CASE Transport /\ ~AnswerHydrate
  <2>1. snap' = NoSnap \/ (snap' = snap /\ ctl.link \notin {"opening", "recovering"})
    BY <1>7 DEF Transport, LoseTransport, Reopen, ReopenFails, Gap, GapFails, LoseRequest, Hydrated,
       Ready, Observe, Suspend, CutStream, channels
  <2> QED BY <1>1, <2>1 DEF SnapTells
<1>8. CASE UNCHANGED vars
  <2>1. UNCHANGED <<srv, notes, snap, buffered>>
    BY <1>8 DEF vars, channels
  <2>2. Hushed
    BY <1>1, <1>8, ClientHushed
  <2> QED BY <1>3, <2>1, <2>2
<1> QED BY <1>2, <1>4, <1>5, <1>6, <1>7, <1>8 DEF Next

\* What precedes the hydrate is still in the stream, or was observed or lost.
LEMMA NextBuffered ==
    ASSUME SentInv, buffered <= Len(notes), [Next]_vars
    PROVE  buffered' <= Len(notes')
<1>1. TypeOK /\ buffered \in Nat /\ notes \in Seq(Notes) /\ Len(notes) \in Nat
    BY DEF SentInv, TypeOK
<1>2. CASE Core
  <2>1. buffered' = buffered
    BY <1>2 DEF Core, CoreStart, CoreInterrupt, CoreSteer, ForeignStart, CoreDrain, CoreEnd, channels
  <2>2. Len(notes) <= Len(notes')
    BY <1>1, <1>2, CoreTold
  <2>3. Len(notes') \in Nat
    BY NextSentInv DEF SentInv, TypeOK
  <2> QED BY <1>1, <2>1, <2>2, <2>3
<1>3. CASE Observe
  <2>1. notes # <<>> /\ notes' = Tail(notes) /\ buffered' = IF buffered = 0 THEN 0 ELSE buffered - 1
    BY <1>3 DEF Observe
  <2>2. Len(notes') = Len(notes) - 1 /\ Len(notes) > 0
    BY <1>1, <2>1
  <2> QED BY <1>1, <2>1, <2>2
<1>4. CASE \/ buffered' = 0 /\ notes' = <<>>
           \/ notes' = notes /\ buffered' \in {buffered, 0, Len(notes)}
    BY <1>1, <1>4
<1>5. CASE User
    BY <1>4, <1>5 DEF User, Admit, Cancel, Submit, Stop, SendPendingNow, SendInterrupt, RetryRecovery,
       Continue, RetrySteer, SetSteeringEnabled, Retire, CutStream, channels
<1>6. CASE Client
    BY <1>4, <1>6 DEF Client, Dispatch, PreflightEndsNotReady, SeatRefused, StartTimeout, StartReply,
       SteerReply, SteerDispatch, SteerTimeout, InterruptReply, OwnerInteraction, LookupReply, channels
<1>7. CASE Transport /\ ~Observe
    BY <1>4, <1>7 DEF Transport, LoseTransport, Reopen, ReopenFails, Gap, GapFails, LoseRequest,
       AnswerHydrate, Hydrated, Ready, Suspend, CutStream, channels
<1>8. CASE UNCHANGED vars
    BY <1>4, <1>8 DEF vars, channels
<1> QED BY <1>2, <1>3, <1>5, <1>6, <1>7, <1>8 DEF Next

-----------------------------------------------------------------------------
(* Client and Core agree from each state to the next *)

\* What Core does while the controller stands still.
LEMMA CoreAgreed ==
    ASSUME AgreeInv, ctl.link # "closed", Core \/ UNCHANGED vars
    PROVE  Agreed
<1>1. ctl' = ctl
    BY DEF Core, CoreStart, CoreInterrupt, CoreSteer, ForeignStart, CoreDrain, CoreEnd, vars
<1>2. Agrees(ctl', RunningTurns, Sight) /\ TypeOK /\ buffered <= Len(notes)
    BY <1>1, AgreeFacts DEF AgreeInv
<1>3. RunningTurns \subseteq RunningTurns'
  <2>1. CASE UNCHANGED vars
    BY <2>1, <1>1, SameRunning DEF vars, channels, Settled
  <2>2. CASE Core /\ Settled
    <3>1. Tells
        BY <1>2, <2>2, CoreTold DEF Settled, Heard
    <3> QED BY <1>1, <2>2, <3>1 DEF Tells, RunningTurns, Settled
  <2>3. CASE ~Settled
    BY <1>1, <2>3, LiveTypes DEF RunningTurns, Settled
  <2> QED BY <2>1, <2>2, <2>3
<1> QED BY <1>2, <1>3, AgreedOn

LEMMA StepAgreed ==
    ASSUME EveryReceiptKept, AgreeInv, [Next]_vars, ctl.link # "closed", ctl'.link # "closed"
    PROVE  Agreed
BY UserAgreed, ClientAgreed, TransportAgreed, CoreAgreed DEF Next

\* What is said after the step adds to what was said only about turns that then run.
LEMMA SightGrows ==
    ASSUME AgreeInv, [Next]_vars
    PROVE  /\ Sight.silent \subseteq Sight'.silent \cup RunningTurns'
           /\ \A t, x : <<t, x>> \in Sight'.busy => <<t, x>> \in Sight.busy \/ x \in RunningTurns'
<1>1. TypeOK /\ SentInv /\ buffered <= Len(notes)
    BY DEF AgreeInv, ForegroundInv, LostInv, TurnInv, KnownInv, SentInv
<1>2. /\ Sight.silent = SilentTurns /\ Sight'.silent = SilentTurns'
      /\ Sight.busy = BusyStarts /\ Sight'.busy = BusyStarts'
    BY DEF Sight
<1>3. Hushed \/ Tells \/ ~Settled'
  <2>1. CASE User \/ Client \/ Transport \/ UNCHANGED vars
    BY <1>1, <2>1, ClientHushed
  <2>2. CASE Core
    <3>1. ctl' = ctl
        BY <2>2 DEF Core, CoreStart, CoreInterrupt, CoreSteer, ForeignStart, CoreDrain, CoreEnd
    <3> QED BY <1>1, <2>2, <3>1, CoreTold DEF Settled, Heard
  <2> QED BY <2>1, <2>2 DEF Next
<1>4. LiveTurns' \subseteq RunningTurns'
  <2>1. Foreground' \subseteq Turns /\ EndingTurns' \subseteq Turns
    BY DEF Foreground, EndingTurns
  <2> QED BY <2>1 DEF RunningTurns, LiveTurns
<1>5. CASE Hushed
    BY <1>2, <1>5 DEF Hushed
<1>6. CASE Tells
    BY <1>2, <1>4, <1>6 DEF Tells
<1>7. CASE ~Settled'
  <2>1. RunningTurns' = Turns /\ SilentTurns \subseteq Turns
    BY <1>7, LiveTypes DEF RunningTurns
  <2>2. ASSUME NEW t, NEW x, <<t, x>> \in BusyStarts' PROVE x \in Turns
    <3>1. PICK r \in replies' : r.kind = "start" /\ r.result = "busy" /\ <<t, x>> = <<r.turn, r.by>>
        BY <2>2 DEF BusyStarts
    <3>2. r \in Replies /\ r.by = x
        BY <1>1, <3>1, NextSentInv DEF SentInv, TypeOK
    <3> QED BY <3>1, <3>2, ReplyForms
  <2> QED BY <1>2, <2>1, <2>2
<1> QED BY <1>3, <1>5, <1>6, <1>7

\* A prompt that Core may now hear of is leased, and it is the head of the queue.
LEMMA DispatchLeased ==
    ASSUME AgreeInv, NEW t \in Locals, Dispatch(t)
    PROVE  ctl'.local = Active(ctl')
<1>1. ctl.link # "closed" /\ ctl' = MarkSent(ctl, t) /\ ctl.stage = "preflight" /\ ctl.startReq = t
    BY DEF Dispatch, InPreflight
<1>2. ctl \in Controllers /\ Orderly(ctl)
    BY <1>1, AgreeFacts DEF TypeOK
<1>3. ctl.local = t /\ Active(ctl) = t
    BY <1>1, <1>2 DEF Orderly, Leased, Dispatch, StartCurrent
<1>4. ctl'.local = ctl.local /\ ctl'.q = ctl.q
    BY <1>1, <1>2 DEF MarkSent, Controllers
<1> QED BY <1>3, <1>4 DEF Active

LEMMA NextAgrees ==
    ASSUME EveryReceiptKept, AgreeInv, [Next]_vars, ctl.link # "closed", ctl'.link # "closed"
    PROVE  Agrees(ctl', RunningTurns', Sight')
<1>1. PICK L \in SUBSET RunningTurns' : Agrees(ctl', L, Sight)
    BY StepAgreed DEF Agreed
<1>2. Sight.never \subseteq Sight'.never \/ ctl'.local = Active(ctl')
  <2>1. Sight.never = NeverTurns /\ Sight'.never = NeverTurns'
    BY DEF Sight
  <2>2. TypeOK
    BY AgreeFacts
  <2> QED BY <2>1, <2>2, DispatchLeased, NeverGrows
<1>3. PICK v, w, d, M : v = Sight /\ w = Sight' /\ d = ctl' /\ M = RunningTurns'
    OBVIOUS
<1>4. /\ v.silent \subseteq w.silent \cup M
      /\ \A t, x : <<t, x>> \in w.busy => <<t, x>> \in v.busy \/ x \in M
    BY <1>3, SightGrows
<1>5. Agrees(d, M, w)
    BY <1>1, <1>2, <1>3, <1>4, AgreesGrows
<1> QED BY <1>3, <1>5

LEMMA NextAgreeInv ==
    ASSUME EveryReceiptKept, AgreeInv, [Next]_vars
    PROVE  AgreeInv'
<1>1. ForegroundInv /\ SentInv /\ buffered <= Len(notes)
    BY DEF AgreeInv, ForegroundInv, LostInv, TurnInv, KnownInv
<1>2. ForegroundInv'
    BY <1>1, NextForegroundInv
<1>3. buffered' <= Len(notes')
    BY <1>1, NextBuffered
<1>4. snap' # NoSnap => SnapFresh'
    BY NextSnapFresh
<1>5. ctl'.link # "closed" => ctl.link # "closed"
    BY <1>1, StepWaits
<1>6. ctl'.link # "closed" => Agrees(ctl', RunningTurns', Sight')
    BY <1>5, NextAgrees
<1>7. NoSnap' = NoSnap
    BY DEF NoSnap
<1> QED BY <1>2, <1>3, <1>4, <1>6, <1>7 DEF AgreeInv

LEMMA InitAgreeInv == Init => AgreeInv
<1> SUFFICES ASSUME Init PROVE AgreeInv
    OBVIOUS
<1>1. ForegroundInv
    BY InitForegroundInv
<1>2. ctl = InitController /\ notes = <<>> /\ snap = NoSnap /\ buffered = 0 /\ replies = {}
    BY DEF Init
<1>3. /\ Active(ctl) = NoTurn /\ ctl.hydrated.turn = NoTurn /\ ctl.local = NoTurn
      /\ ctl.startReq = NoTurn /\ ctl.receipts = <<>> /\ ctl.attempted = {}
    BY <1>2 DEF InitController, NoHydrated, Active, EmptyQueue, NoEntry
<1>4. NoRepeat(ctl.receipts)
    BY <1>3 DEF NoRepeat
<1>5. Agrees(ctl, RunningTurns, Sight)
    BY <1>3, <1>4, RunningAgrees
<1>6. buffered <= Len(notes)
    BY <1>2
<1> QED BY <1>1, <1>2, <1>5, <1>6 DEF AgreeInv

\* At rest the stream is empty: the turns that run for the client are those that Core
\* runs, and of the three reasons for the queue to wait only they and the lease remain.
LEMMA AgreeAtRest == AgreeInv => QuiescentAgreement
<1> SUFFICES ASSUME AgreeInv, Quiescent, Active(ctl) \in ctl.attempted \cap Locals
             PROVE  Active(ctl) \in Foreground \cup {ctl.dispatching}
    BY DEF QuiescentAgreement
<1>1. ctl.link = "ready" /\ notes = <<>> /\ ~Recovering(ctl)
    BY DEF Quiescent
<1>2. HeadAgrees(ctl, RunningTurns, Sight) /\ ctl.local = ctl.dispatching
    BY <1>1, AgreeFacts DEF Agrees, Orderly, Leased
<1>3. RunningTurns = Foreground
    BY <1>1 DEF RunningTurns, Settled, LiveTurns, EndingTurns, Ending
<1> QED BY <1>1, <1>2, <1>3 DEF HeadAgrees

\* Client and Core agree at rest (QuiescentAgreement), as long as terminalReceipts holds
\* every turn there is: a turn of this client that holds its queue runs in Core, or its
\* start is still shown as unacknowledged; no terminal was lost to a suspend, a gap, a
\* replay or a collision.
THEOREM AgreesAtRest ==
    ASSUME EveryReceiptKept
    PROVE  Spec => []QuiescentAgreement
<1>1. AgreeInv /\ [Next]_vars => AgreeInv'
    BY NextAgreeInv
<1> QED BY <1>1, InitAgreeInv, AgreeAtRest, PTL DEF Spec

=============================================================================
