------------------------------- MODULE Pairing -------------------------------
(***************************************************************************)
(* Device pairing (NIP-AB): the session state machine of                    *)
(* buzz-core/src/pairing/session.rs, driven by buzz-pairing-cli/src/main.rs *)
(* on the target's side and by it or by the desktop app                     *)
(* (desktop/src-tauri/src/commands/pairing.rs) on the source's, over a relay *)
(* that may lose an event and may deliver one again.  A target may also      *)
(* report that it could not import the secret, as the mobile app             *)
(* (mobile/lib/features/pairing/pairing_provider.dart) does.                 *)
(*                                                                         *)
(* Several devices may scan the same QR code.  The cryptography is taken at *)
(* its word: an event names its author and the device it is tagged and      *)
(* encrypted for, only that device can read it, and the transcript hash     *)
(* stands for the two keys and the secret it is derived from.  Every kind of *)
(* message is sent at most once by a device, so an event is its own id.      *)
(***************************************************************************)
EXTENDS Naturals, Sequences, FiniteSets

CONSTANTS
  Source,         \* the device that shows the QR code and holds the secret
  Target,         \* devices that may scan it
  None,           \* no peer yet
  ForeignSource,  \* TRUE if the source may derive another transcript hash
  MaxRedelivered  \* bound: events that the relay delivers again

ASSUME PairingConstants ==
  /\ Source \notin Target /\ None \notin Target \cup {Source}
  /\ ForeignSource \in BOOLEAN /\ MaxRedelivered \in Nat

Device == {Source} \cup Target

SessionState == {"Waiting", "Confirming", "AwaitingConfirmation", "Transferring",
                 "PayloadExchanged", "Completed", "Aborted"}

Terminal == {"Completed", "Aborted"}

PairingMessage ==
  [type : {"offer", "sas_confirm", "payload", "complete", "complete_failed", "abort"},
   from : Device, to : Device, hash : Device \cup {None}]

VARIABLES
  session,      \* by device: state, peer_pubkey, processed_ids, is_expired()
  pc,           \* by device: where its program is
  command,      \* desktop: how far a confirm_pairing_sas command has come
  inbox,        \* by device: events the relay has delivered and nobody has read
  published,    \* events the relay has received
  redelivered,  \* events delivered again so far
  approved,     \* history: devices whose user said that the codes match
  imported      \* history: by target, payloads it has accepted

vars == <<session, pc, command, inbox, published, redelivered, approved, imported>>

-----------------------------------------------------------------------------
(* PairingSession *)

Message(type, from, to) == [type |-> type, from |-> from, to |-> to, hash |-> None]

validate_event_basics(d, m) == m.to = d /\ m \notin session[d].processed

validate_event_from_peer(d, m) ==
  /\ validate_event_basics(d, m)
  /\ session[d].peer \in {None, m.from}

\* expect_state, after check_expired.
Expects(d, state) == ~session[d].expired /\ session[d].state = state

AcceptsAbort(d, m) ==
  /\ session[d].state \notin Terminal
  /\ session[d].peer # None
  /\ validate_event_from_peer(d, m)
  /\ m.type = "abort"

\* Faulty variant: the state of the session is not looked at.
AcceptsOffer_in_any_state(m) ==
  /\ ~session[Source].expired
  /\ validate_event_basics(Source, m)
  /\ m.type = "offer"

AcceptsOffer(m) ==
  /\ Expects(Source, "Waiting")
  /\ validate_event_basics(Source, m)
  /\ m.type = "offer"

\* A message from the peer in the state that waits for it.
AcceptsFromPeer(d, m, state, type) ==
  /\ Expects(d, state)
  /\ validate_event_from_peer(d, m)
  /\ m.type = type

\* The transcript hash of a sas-confirm is the one that t computes.
HashAgrees(t, m) == m.hash = t

-----------------------------------------------------------------------------
(* The relay: subscriptions by p-tag, nothing stored *)

\* Device d publishes m, which the relay delivers or loses.
Publish(box, m) == {box, [box EXCEPT ![m.to] = Append(@, m)]}

Redeliver(m) ==
  /\ redelivered < MaxRedelivered
  /\ redelivered' = redelivered + 1
  /\ inbox' = [inbox EXCEPT ![m.to] = Append(@, m)]
  /\ UNCHANGED <<session, pc, command, published, approved, imported>>

-----------------------------------------------------------------------------
(* Steps of a program: what d's session and program become, and what it sends *)

Go(d, place) == pc' = [pc EXCEPT ![d] = place]

Enter(d, state) == session' = [session EXCEPT ![d].state = state]

Accept(d, m, state) ==
  session' = [session EXCEPT ![d].state = state, ![d].processed = @ \cup {m}]

Send(box, m) ==
  /\ inbox' \in Publish(box, m)
  /\ published' = published \cup {m}

SendNothing(box) == inbox' = box /\ UNCHANGED published

\* An error ends the program; the peer is not told.
GiveUp(d) ==
  /\ Go(d, "failed")
  /\ SendNothing(inbox)
  /\ UNCHANGED session

\* abort(reason), and publish the event if there is one.  On a session that is over
\* it is an error and changes nothing.
Abort(d) ==
  /\ Go(d, "failed")
  /\ IF session[d].state \in Terminal THEN UNCHANGED session ELSE Enter(d, "Aborted")
  /\ IF session[d].state \in Terminal \/ session[d].peer = None THEN SendNothing(inbox)
     ELSE Send(inbox, Message("abort", d, session[d].peer))

\* wait_for_event gives up, the desktop's hard_timeout fires, or the relay closes
\* the connection.
WaitTimeout(d) ==
  /\ pc[d] \in {"listen", "wait_offer", "wait_complete", "wait_sas_confirm", "wait_payload"}
  /\ GiveUp(d)
  /\ UNCHANGED <<command, redelivered, approved, imported>>

\* The event that d reads next, and its inbox without it.
Reads(d, place) == pc[d] = place /\ inbox[d] # <<>>

Rest(d) == [inbox EXCEPT ![d] = Tail(@)]

\* check_for_abort, at the head of every wait loop.
PeerAborts(d, m) ==
  /\ AcceptsAbort(d, m)
  /\ Accept(d, m, "Aborted")
  /\ Go(d, "failed")
  /\ SendNothing(Rest(d))

Discards(d) == SendNothing(Rest(d)) /\ UNCHANGED <<session, pc>>

-----------------------------------------------------------------------------
(* cmd_source *)

\* Faulty variant: the session is not locked to the author of the offer.
LockToPeer_not(m) == Accept(Source, m, "Confirming")

\* handle_offer: the session is locked to the author of the offer.
LockToPeer(m) ==
  session' = [session EXCEPT ![Source].state = "Confirming",
                             ![Source].peer = m.from,
                             ![Source].processed = @ \cup {m}]

\* No abort is accepted before a peer is known.
WaitForOffer ==
  LET m == Head(inbox[Source]) IN
  /\ Reads(Source, "wait_offer")
  /\ \/ AcceptsOffer(m) /\ LockToPeer(m)
        /\ Go(Source, "prompt") /\ SendNothing(Rest(Source))
     \/ ~AcceptsOffer(m) /\ Discards(Source)
  /\ UNCHANGED <<command, redelivered, approved, imported>>

\* The user compares the codes; confirm_sas publishes the transcript hash.
SendSasConfirm ==
  /\ Enter(Source, "Transferring")
  /\ \E h \in {session[Source].peer} \cup (IF ForeignSource THEN {None} ELSE {}) :
       Send(inbox, [Message("sas_confirm", Source, session[Source].peer)
                      EXCEPT !.hash = h])

ConfirmSas ==
  /\ pc[Source] = "prompt"
  /\ approved' = approved \cup {Source}
  /\ IF Expects(Source, "Confirming")
     THEN SendSasConfirm /\ Go(Source, "send_payload")
     ELSE GiveUp(Source)
  /\ UNCHANGED <<command, redelivered, imported>>

\* The user says no, or calls cancel_pairing.
Deny(d) ==
  /\ pc[d] \in {"prompt", "listen"}
  /\ Abort(d)
  /\ UNCHANGED <<command, redelivered, approved, imported>>

SendPayload ==
  /\ pc[Source] = "send_payload"
  /\ IF Expects(Source, "Transferring")
     THEN /\ Enter(Source, "PayloadExchanged")
          /\ Go(Source, "wait_complete")
          /\ Send(inbox, Message("payload", Source, session[Source].peer))
     ELSE GiveUp(Source)
  /\ UNCHANGED <<command, redelivered, approved, imported>>

\* handle_complete of complete(success = false): the session is over, the event is
\* not recorded, and the program ends with the failure.
ImportFailed(m) ==
  /\ AcceptsFromPeer(Source, m, "PayloadExchanged", "complete_failed")
  /\ Enter(Source, "Aborted")
  /\ Go(Source, "failed")
  /\ SendNothing(Rest(Source))

WaitForComplete ==
  LET m == Head(inbox[Source])
      done == AcceptsFromPeer(Source, m, "PayloadExchanged", "complete")
      failed == AcceptsFromPeer(Source, m, "PayloadExchanged", "complete_failed")
  IN
  /\ Reads(Source, "wait_complete")
  /\ \/ PeerAborts(Source, m)
     \/ ~AcceptsAbort(Source, m) /\ done /\ Accept(Source, m, "Completed")
        /\ Go(Source, "done") /\ SendNothing(Rest(Source))
     \/ ~AcceptsAbort(Source, m) /\ ImportFailed(m)
     \/ ~AcceptsAbort(Source, m) /\ ~done /\ ~failed /\ Discards(Source)
  /\ UNCHANGED <<command, redelivered, approved, imported>>

-----------------------------------------------------------------------------
(* The desktop app as the source: pairing_ws_task reads whatever comes, while  *)
(* confirm_pairing_sas and cancel_pairing run as commands of their own.        *)

Listen ==
  LET m == Head(inbox[Source])
      done == AcceptsFromPeer(Source, m, "PayloadExchanged", "complete")
      failed == AcceptsFromPeer(Source, m, "PayloadExchanged", "complete_failed")
  IN
  /\ Reads(Source, "listen")
  /\ \/ PeerAborts(Source, m)
     \/ ~AcceptsAbort(Source, m) /\ AcceptsOffer(m) /\ LockToPeer(m)
        /\ SendNothing(Rest(Source)) /\ UNCHANGED pc
     \/ ~AcceptsAbort(Source, m) /\ ~AcceptsOffer(m) /\ done
        /\ Accept(Source, m, "Completed")
        /\ Go(Source, "done") /\ SendNothing(Rest(Source))
     \/ ~AcceptsAbort(Source, m) /\ ~AcceptsOffer(m) /\ ImportFailed(m)
     \/ ~AcceptsAbort(Source, m) /\ ~AcceptsOffer(m) /\ ~done /\ ~failed
        /\ Discards(Source)
  /\ UNCHANGED <<command, redelivered, approved, imported>>

\* confirm_pairing_sas up to its second lock of the session; on a session that is
\* not waiting for the user it is an error and changes nothing.
ConfirmPairingSas ==
  /\ pc[Source] = "listen"
  /\ command = "none"
  /\ Expects(Source, "Confirming")
  /\ SendSasConfirm
  /\ command' = "send_payload"
  /\ approved' = approved \cup {Source}
  /\ UNCHANGED <<pc, redelivered, imported>>

\* The rest of it, unless an abort or a cancel came in between.  When the task has
\* ended the session may be gone, or about to go with nobody left to publish.
ConfirmSendsPayload ==
  /\ command = "send_payload"
  /\ command' = "none"
  /\ \/ /\ pc[Source] = "listen" /\ Expects(Source, "Transferring")
        /\ Enter(Source, "PayloadExchanged")
        /\ Send(inbox, Message("payload", Source, session[Source].peer))
     \/ /\ pc[Source] # "listen" /\ Expects(Source, "Transferring")
        /\ Enter(Source, "PayloadExchanged") /\ SendNothing(inbox)
     \/ /\ pc[Source] # "listen" \/ ~Expects(Source, "Transferring")
        /\ SendNothing(inbox) /\ UNCHANGED session
  /\ UNCHANGED <<pc, redelivered, approved, imported>>

-----------------------------------------------------------------------------
(* cmd_target *)

\* new_target, subscribe, publish the offer.
Scan(t) ==
  /\ pc[t] = "start"
  /\ Enter(t, "Confirming")
  /\ Go(t, "wait_sas_confirm")
  /\ Send(inbox, Message("offer", t, Source))
  /\ UNCHANGED <<command, redelivered, approved, imported>>

\* handle_sas_confirm aborts the session itself on a mismatch, so the call of
\* abort that follows is an error and publishes nothing.
WaitForSasConfirm(t) ==
  LET m == Head(inbox[t])
      ok == AcceptsFromPeer(t, m, "Confirming", "sas_confirm")
  IN
  /\ Reads(t, "wait_sas_confirm")
  /\ \/ PeerAborts(t, m)
     \/ ~AcceptsAbort(t, m) /\ ok /\ HashAgrees(t, m)
        /\ Accept(t, m, "AwaitingConfirmation")
        /\ Go(t, "prompt") /\ SendNothing(Rest(t))
     \/ ~AcceptsAbort(t, m) /\ ok /\ ~HashAgrees(t, m)
        /\ Enter(t, "Aborted")
        /\ Go(t, "mismatch") /\ SendNothing(Rest(t))
     \/ ~AcceptsAbort(t, m) /\ ~ok /\ Discards(t)
  /\ UNCHANGED <<command, redelivered, approved, imported>>

ConfirmTargetSas(t) ==
  /\ pc[t] = "prompt"
  /\ approved' = approved \cup {t}
  /\ IF Expects(t, "AwaitingConfirmation")
     THEN Enter(t, "Transferring") /\ Go(t, "wait_payload") /\ SendNothing(inbox)
     ELSE GiveUp(t)
  /\ UNCHANGED <<command, redelivered, imported>>

\* Faulty variant: the payload is read before the user has answered.
WaitForPayload_unconfirmed(t) ==
  LET m == Head(inbox[t])
      ok == \/ AcceptsFromPeer(t, m, "Transferring", "payload")
            \/ AcceptsFromPeer(t, m, "AwaitingConfirmation", "payload")
  IN
  /\ Reads(t, "wait_payload") \/ Reads(t, "prompt")
  /\ ok
  /\ Accept(t, m, "PayloadExchanged")
  /\ Go(t, "send_complete") /\ SendNothing(Rest(t))
  /\ imported' = [imported EXCEPT ![t] = @ + 1]
  /\ UNCHANGED <<command, redelivered, approved>>

WaitForPayload(t) ==
  LET m == Head(inbox[t])
      ok == AcceptsFromPeer(t, m, "Transferring", "payload")
  IN
  /\ Reads(t, "wait_payload")
  /\ \/ PeerAborts(t, m) /\ UNCHANGED imported
     \/ ~AcceptsAbort(t, m) /\ ok /\ Accept(t, m, "PayloadExchanged")
        /\ Go(t, "send_complete") /\ SendNothing(Rest(t))
        /\ imported' = [imported EXCEPT ![t] = @ + 1]
     \/ ~AcceptsAbort(t, m) /\ ~ok /\ Discards(t) /\ UNCHANGED imported
  /\ UNCHANGED <<command, redelivered, approved>>

\* Faulty variant: the source is told before the session has the payload.
SendComplete_early(t) ==
  /\ pc[t] \in {"wait_payload", "send_complete"}
  /\ IF ~session[t].expired
     THEN Enter(t, "Completed") /\ Go(t, "done") /\ Send(inbox, Message("complete", t, Source))
     ELSE GiveUp(t)
  /\ UNCHANGED <<command, redelivered, approved, imported>>

SendComplete(t) ==
  /\ pc[t] = "send_complete"
  /\ IF Expects(t, "PayloadExchanged")
     THEN Enter(t, "Completed") /\ Go(t, "done") /\ Send(inbox, Message("complete", t, Source))
     ELSE GiveUp(t)
  /\ UNCHANGED <<command, redelivered, approved, imported>>

\* The target cannot use the secret it has been given: the mobile app says so with
\* complete(success = false), instead of complete when the credentials are refused,
\* or after it when they cannot be stored.
ReportFailure(t) ==
  /\ pc[t] \in {"send_complete", "done"}
  /\ Go(t, "failed")
  /\ Send(inbox, Message("complete_failed", t, Source))
  /\ UNCHANGED <<session, command, redelivered, approved, imported>>

-----------------------------------------------------------------------------

\* 120 s have passed since the session was created.
Expire(d) ==
  /\ pc[d] \notin {"start", "done", "failed", "mismatch"}
  /\ ~session[d].expired
  /\ session' = [session EXCEPT ![d].expired = TRUE]
  /\ UNCHANGED <<pc, command, inbox, published, redelivered, approved, imported>>

\* The source runs the CLI, which waits for an offer, or the desktop app, whose
\* task listens.
Init ==
  /\ session = [d \in Device |-> [state |-> "Waiting",
                                  peer |-> IF d = Source THEN None ELSE Source,
                                  processed |-> {}, expired |-> FALSE]]
  /\ \E program \in {"wait_offer", "listen"} :
       pc = [d \in Device |-> IF d = Source THEN program ELSE "start"]
  /\ command = "none"
  /\ inbox = [d \in Device |-> <<>>]
  /\ published = {} /\ redelivered = 0
  /\ approved = {} /\ imported = [t \in Target |-> 0]

Next ==
  \/ WaitForOffer \/ ConfirmSas \/ SendPayload \/ WaitForComplete
  \/ Listen \/ ConfirmPairingSas \/ ConfirmSendsPayload
  \/ \E t \in Target : \/ Scan(t) \/ WaitForSasConfirm(t) \/ ConfirmTargetSas(t)
                       \/ WaitForPayload(t) \/ SendComplete(t)
                       \/ ReportFailure(t)
  \/ \E d \in Device : Deny(d) \/ WaitTimeout(d) \/ Expire(d)
  \/ \E m \in published : Redeliver(m)

Spec == Init /\ [][Next]_vars

-----------------------------------------------------------------------------
(* Properties *)

Places == {"start", "listen", "wait_offer", "prompt", "send_payload", "wait_complete",
           "wait_sas_confirm", "wait_payload", "send_complete", "mismatch",
           "done", "failed"}

TypeOK ==
  /\ session \in [Device -> [state : SessionState, peer : Device \cup {None},
                             processed : SUBSET PairingMessage, expired : BOOLEAN]]
  /\ pc \in [Device -> Places]
  /\ command \in {"none", "send_payload"}
  /\ inbox \in [Device -> Seq(PairingMessage)]
  /\ published \subseteq PairingMessage
  /\ redelivered \in Nat
  /\ approved \subseteq Device
  /\ imported \in [Target -> Nat]

\* The secret reaches one device at most, once, and only after the users of both
\* devices have approved the code, however many devices scanned the QR code and
\* whatever the relay delivers again.
OneApprovedImport ==
  \A t \in Target : imported[t] > 0 =>
     /\ imported[t] = 1
     /\ session[Source].peer = t
     /\ {Source, t} \subseteq approved

\* The source reports success only if its peer has the secret and has declared
\* pairing complete; no abort, failed import, expiry or lost event can come in
\* between.
CompletedTogether ==
  session[Source].state = "Completed" =>
     /\ session[Source].peer \in Target
     /\ session[session[Source].peer].state = "Completed"
     /\ imported[session[Source].peer] = 1

\* "Terminal states are final": neither a late abort nor a repeated message
\* changes a session that is over, and the peer it is locked to never changes.
Final ==
  [][\A d \in Device :
       /\ session[d].state \in Terminal => session'[d].state = session[d].state
       /\ session[d].peer # None => session'[d].peer = session[d].peer]_vars

\* "target MUST send abort with reason sas_mismatch on transcript hash mismatch"
\* (buzz-pairing-cli/src/main.rs 272): a target that has found one and ended has
\* published an abort.
MismatchIsReported ==
  \A t \in Target : pc[t] = "mismatch" => Message("abort", t, Source) \in published
=============================================================================
