--------------------------- MODULE PairingProofs ---------------------------
(***************************************************************************)
(* Safety of device pairing for any number of devices that scan the code,   *)
(* any number of events delivered again and any events lost.                *)
(***************************************************************************)
EXTENDS Pairing, TLAPS

Session == [state : SessionState, peer : Device \cup {None},
            processed : SUBSET PairingMessage, expired : BOOLEAN]

State(d) == session[d].state
Peer == session[Source].peer

-----------------------------------------------------------------------------
(* The inductive invariant *)

\* Where a program is tells the state its session is in, until it ends.
SourceFits(at, s) ==
  \/ at = "wait_offer" /\ s = "Waiting"
  \/ at = "prompt" /\ s = "Confirming"
  \/ at = "send_payload" /\ s = "Transferring"
  \/ at = "wait_complete" /\ s = "PayloadExchanged"
  \/ at = "listen" /\ s \notin Terminal
  \/ at \in {"done", "failed"}

TargetFits(at, s) ==
  \/ at = "start" /\ s = "Waiting"
  \/ at = "wait_sas_confirm" /\ s = "Confirming"
  \/ at = "prompt" /\ s = "AwaitingConfirmation"
  \/ at = "wait_payload" /\ s = "Transferring"
  \/ at = "send_complete" /\ s = "PayloadExchanged"
  \/ at \in {"done", "failed", "mismatch"}

ProgramFits ==
  /\ SourceFits(pc[Source], State(Source))
  /\ \A t \in Target : TargetFits(pc[t], State(t))
  /\ command # "none" => pc[Source] \in {"listen", "done", "failed"}

\* The source has a peer exactly from the offer on, and it is a target.
PeersLocked ==
  /\ \A t \in Target : session[t].peer = Source
  /\ Peer \in Target \cup {None}
  /\ State(Source) = "Waiting" => Peer = None
  /\ State(Source) \notin {"Waiting", "Aborted"} => Peer \in Target

Sharing == {"Transferring", "PayloadExchanged", "Completed"}

ApprovedBefore == \A d \in Device : State(d) \in Sharing => d \in approved

ImportedOnce ==
  \A t \in Target : imported[t] = IF State(t) \in {"PayloadExchanged", "Completed"} THEN 1 ELSE 0

\* What a message on the relay says about its author.
MailIsTrue ==
  \A m \in published :
    /\ m.type = "offer" => m.from \in Target
    /\ m.type = "payload" => m.to = Peer /\ Source \in approved
    /\ m.type = "complete" => m.from \in Target /\ State(m.from) = "Completed"

Mail(box) == {box[i] : i \in 1..Len(box)}

MailIsPublished == \A d \in Device : Mail(inbox[d]) \subseteq published

IInv ==
  /\ TypeOK /\ ProgramFits /\ PeersLocked /\ ApprovedBefore /\ ImportedOnce
  /\ MailIsTrue /\ MailIsPublished
  /\ OneApprovedImport /\ CompletedTogether

-----------------------------------------------------------------------------
(* Mailboxes and sessions *)

\* What the mailboxes hold has been published.
BoxOK(box, sent) ==
  /\ box \in [Device -> Seq(PairingMessage)] /\ sent \subseteq PairingMessage
  /\ \A d \in Device : Mail(box[d]) \subseteq sent

LEMMA Messages ==
  \A type \in {"offer", "sas_confirm", "payload", "complete", "complete_failed", "abort"},
     from, to \in Device, h \in Device \cup {None} :
    LET m == [type |-> type, from |-> from, to |-> to, hash |-> h]
    IN  m \in PairingMessage /\ m.type = type /\ m.from = from /\ m.to = to
BY DEF PairingMessage

LEMMA MailTail ==
  ASSUME NEW box \in Seq(PairingMessage), box # <<>>
  PROVE  /\ Head(box) \in PairingMessage /\ Head(box) \in Mail(box)
         /\ Tail(box) \in Seq(PairingMessage) /\ Mail(Tail(box)) \subseteq Mail(box)
<1>1. Len(box) \in Nat \ {0} /\ Head(box) = box[1] /\ Tail(box) \in Seq(PairingMessage)
      /\ Len(Tail(box)) = Len(box) - 1
  OBVIOUS
<1>2. \A i \in 1..Len(Tail(box)) : Tail(box)[i] = box[i + 1] /\ i + 1 \in 1..Len(box)
  BY <1>1
<1>3. 1 \in 1..Len(box)
  BY <1>1
<1>4. Head(box) \in PairingMessage
  BY <1>1, <1>3
<1> QED
  BY <1>1, <1>2, <1>3, <1>4 DEF Mail

LEMMA MailAppend ==
  ASSUME NEW box \in Seq(PairingMessage), NEW m \in PairingMessage
  PROVE  /\ Append(box, m) \in Seq(PairingMessage)
         /\ Mail(Append(box, m)) \subseteq Mail(box) \cup {m}
<1>1. Append(box, m) \in Seq(PairingMessage) /\ Len(Append(box, m)) = Len(box) + 1 /\ Len(box) \in Nat
  OBVIOUS
<1>2. \A i \in 1..Len(box) + 1 : (i \in 1..Len(box) /\ Append(box, m)[i] = box[i]) \/ Append(box, m)[i] = m
  BY <1>1
<1> QED
  BY <1>1, <1>2 DEF Mail

\* Reading an event takes a published one.
LEMMA ReadOK ==
  ASSUME BoxOK(inbox, published), NEW d \in Device, inbox[d] # <<>>
  PROVE  BoxOK(Rest(d), published) /\ Head(inbox[d]) \in published
<1>1. inbox[d] \in Seq(PairingMessage)
  BY DEF BoxOK
<1>2. Rest(d) \in [Device -> Seq(PairingMessage)]
  BY <1>1, MailTail DEF Rest, BoxOK
<1>3. \A e \in Device : Mail(Rest(d)[e]) \subseteq Mail(inbox[e])
  BY <1>1, MailTail DEF Rest, BoxOK
<1> QED
  BY <1>1, <1>2, <1>3, MailTail DEF BoxOK

LEMMA SendOK ==
  ASSUME NEW box, BoxOK(box, published), NEW m \in PairingMessage, Send(box, m)
  PROVE  BoxOK(inbox', published') /\ published' = published \cup {m}
<1>1. m.to \in Device /\ published' = published \cup {m}
  BY DEF Send, PairingMessage
<1>2. CASE inbox' = box
  BY <1>1, <1>2 DEF BoxOK
<1>3. CASE inbox' = [box EXCEPT ![m.to] = Append(@, m)]
  <2>1. \A e \in Device : inbox'[e] = IF e = m.to THEN Append(box[e], m) ELSE box[e]
    BY <1>3 DEF BoxOK
  <2>2. \A e \in Device : inbox'[e] \in Seq(PairingMessage) /\ Mail(inbox'[e]) \subseteq Mail(box[e]) \cup {m}
    BY <2>1, MailAppend DEF BoxOK
  <2>3. inbox' \in [Device -> Seq(PairingMessage)]
    BY <1>3, <2>2 DEF BoxOK
  <2> QED
    BY <1>1, <2>2, <2>3 DEF BoxOK
<1> QED
  BY <1>1, <1>2, <1>3 DEF Send, Publish

\* Only the session of d changes; it becomes s, with peer p.
Moved(d, s, p) ==
  /\ session' \in [Device -> Session]
  /\ State(d)' = s /\ session'[d].peer = p
  /\ \A e \in Device : e # d => session'[e] = session[e]

LEMMA EnterMoves ==
  ASSUME session \in [Device -> Session], NEW d \in Device, NEW s \in SessionState, Enter(d, s)
  PROVE  Moved(d, s, session[d].peer)
<1>1. session[d] \in Session /\ session'[d] = [session[d] EXCEPT !.state = s]
  BY DEF Enter
<1>2. session'[d] \in Session /\ session'[d].state = s /\ session'[d].peer = session[d].peer
  BY <1>1 DEF Session
<1>3. session' \in [Device -> Session] /\ \A e \in Device : e # d => session'[e] = session[e]
  BY <1>2 DEF Enter
<1> QED
  BY <1>2, <1>3 DEF Moved, State

LEMMA AcceptMoves ==
  ASSUME session \in [Device -> Session], NEW d \in Device, NEW s \in SessionState,
         NEW m \in PairingMessage, Accept(d, m, s)
  PROVE  Moved(d, s, session[d].peer)
<1>1. session[d] \in Session
      /\ session'[d] = [session[d] EXCEPT !.state = s, !.processed = session[d].processed \cup {m}]
  BY DEF Accept
<1>a. session[d].processed \cup {m} \in SUBSET PairingMessage
  BY <1>1 DEF Session
<1>2. session'[d] \in Session /\ session'[d].state = s /\ session'[d].peer = session[d].peer
  BY <1>1, <1>a DEF Session
<1>3. session' \in [Device -> Session] /\ \A e \in Device : e # d => session'[e] = session[e]
  BY <1>2 DEF Accept
<1> QED
  BY <1>2, <1>3 DEF Moved, State

LEMMA LockMoves ==
  ASSUME session \in [Device -> Session], NEW m \in PairingMessage, LockToPeer(m)
  PROVE  Moved(Source, "Confirming", m.from)
<1>0. Source \in Device /\ m.from \in Device
  BY DEF Device, PairingMessage
<1>1. session[Source] \in Session
      /\ session'[Source] = [session[Source] EXCEPT !.state = "Confirming", !.peer = m.from,
                                                    !.processed = session[Source].processed \cup {m}]
  BY <1>0 DEF LockToPeer
<1>a. session[Source].processed \cup {m} \in SUBSET PairingMessage
  BY <1>1 DEF Session
<1>2. session'[Source] \in Session /\ session'[Source].state = "Confirming" /\ session'[Source].peer = m.from
  BY <1>0, <1>1, <1>a DEF Session, SessionState
<1> QED
  BY <1>0, <1>2 DEF LockToPeer, Moved, State

-----------------------------------------------------------------------------
(* Every step keeps the invariant *)

LEMMA Context ==
  ASSUME IInv
  PROVE  /\ session \in [Device -> Session] /\ BoxOK(inbox, published)
         /\ pc \in [Device -> Places] /\ imported \in [Target -> Nat]
         /\ Source \in Device /\ Target \subseteq Device /\ Source \notin Target
         /\ None \notin Device
BY PairingConstants DEF IInv, TypeOK, Session, BoxOK, MailIsPublished, Device

\* What the history says about the sessions and the mail.
Facts ==
  ProgramFits /\ PeersLocked /\ ApprovedBefore /\ ImportedOnce /\ MailIsTrue
  /\ OneApprovedImport /\ CompletedTogether

LEMMA Assemble ==
  ASSUME session' \in [Device -> Session], BoxOK(inbox', published'), pc' \in [Device -> Places],
         command' \in {"none", "send_payload"}, redelivered' \in Nat, approved' \subseteq Device,
         imported' \in [Target -> Nat], Facts'
  PROVE  IInv'
BY DEF IInv, TypeOK, Session, BoxOK, MailIsPublished, Facts

\* A step of the source's program that keeps the facts.
LEMMA SourceMoves ==
  ASSUME IInv, NEW s, NEW p, NEW place,
         Moved(Source, s, p), pc' = [pc EXCEPT ![Source] = place],
         SourceFits(place, s), command' # "none" => place \in {"listen", "done", "failed"},
         p \in Target \cup {None}, s = "Waiting" => p = None,
         s \notin {"Waiting", "Aborted"} => p \in Target, Peer # None => p = Peer,
         approved \subseteq approved', s \in Sharing => Source \in approved',
         s = "Completed" => State(p) = "Completed",
         imported' = imported,
         \A m \in published' : \/ m \in published
                               \/ m.type \notin {"offer", "payload", "complete"}
                               \/ m.type = "payload" /\ m.to = p /\ Source \in approved',
         BoxOK(inbox', published'), place \in Places, command' \in {"none", "send_payload"},
         UNCHANGED redelivered, approved' \subseteq Device
  PROVE  IInv'
<1>0. /\ State(Source)' = s /\ Peer' = p
      /\ \A t \in Target : session'[t] = session[t] /\ State(t)' = State(t) /\ pc'[t] = pc[t] /\ t # Source
      /\ pc'[Source] = place
  BY Context DEF Moved, Peer, State
<1>1. ProgramFits'
  BY <1>0 DEF IInv, ProgramFits
<1>2. PeersLocked'
  BY <1>0 DEF IInv, PeersLocked
<1>3. ApprovedBefore'
  BY <1>0 DEF IInv, ApprovedBefore, Device
<1>4. ImportedOnce'
  BY <1>0 DEF IInv, ImportedOnce
<1>5. OneApprovedImport'
  BY <1>0, PairingConstants DEF IInv, OneApprovedImport, Peer
<1>6. MailIsTrue'
  <2>1. SUFFICES ASSUME NEW m \in published'
                 PROVE  /\ m.type = "offer" => m.from \in Target
                        /\ m.type = "payload" => m.to = p /\ Source \in approved'
                        /\ m.type = "complete" => m.from \in Target /\ State(m.from)' = "Completed"
    BY <1>0 DEF MailIsTrue
  <2>2. CASE m \in published
    <3>1. m.to \in Device /\ None \notin Device
      BY <2>2, Context DEF BoxOK, PairingMessage
    <3> QED
      BY <1>0, <2>2, <3>1 DEF IInv, MailIsTrue
  <2> QED
    BY <2>2
<1>7. CompletedTogether'
  <2>1. s = "Completed" => p \in Target /\ imported[p] = 1
    BY DEF IInv, ImportedOnce
  <2> QED
    BY <1>0, <2>1 DEF CompletedTogether, State, Peer
<1>8. Facts'
  BY <1>1, <1>2, <1>3, <1>4, <1>5, <1>6, <1>7 DEF Facts
<1>9. redelivered \in Nat /\ imported \in [Target -> Nat] /\ pc' \in [Device -> Places]
  BY Context DEF IInv, TypeOK
<1> QED
  BY <1>8, <1>9, Assemble DEF Moved

\* A step of a target's program that keeps the facts.
LEMMA TargetMoves ==
  ASSUME IInv, NEW t \in Target, NEW s, NEW place,
         Moved(t, s, Source), pc' = [pc EXCEPT ![t] = place], TargetFits(place, s), command' = command,
         approved \subseteq approved', s \in Sharing => t \in approved',
         State(t) = "Completed" => s = "Completed",
         s \in {"PayloadExchanged", "Completed"} => Peer = t /\ Source \in approved,
         imported' = [imported EXCEPT ![t] = IF s \in {"PayloadExchanged", "Completed"} THEN 1 ELSE 0],
         \A m \in published' : \/ m \in published
                               \/ m.type \notin {"offer", "payload", "complete"}
                               \/ m.type \in {"offer", "complete"} /\ m.from = t
                                  /\ (m.type = "complete" => s = "Completed"),
         BoxOK(inbox', published'), place \in Places, UNCHANGED redelivered, approved' \subseteq Device
  PROVE  IInv'
<1>0. /\ State(t)' = s /\ session'[t].peer = Source /\ pc'[t] = place
      /\ \A d \in Device : d # t => session'[d] = session[d] /\ State(d)' = State(d) /\ pc'[d] = pc[d]
      /\ t \in Device /\ t # Source /\ Peer' = Peer /\ State(Source)' = State(Source) /\ pc'[Source] = pc[Source]
  BY Context DEF Moved, Peer, State
<1>a. \A u \in Target : imported'[u] = IF u # t THEN imported[u]
                                        ELSE IF s \in {"PayloadExchanged", "Completed"} THEN 1 ELSE 0
  BY Context
<1>1. ProgramFits'
  BY <1>0, Context DEF IInv, ProgramFits
<1>2. PeersLocked'
  BY <1>0, Context DEF IInv, PeersLocked
<1>3. ApprovedBefore'
  BY <1>0 DEF IInv, ApprovedBefore
<1>4. ImportedOnce'
  BY <1>0, <1>a, Context DEF IInv, ImportedOnce
<1>5. OneApprovedImport'
  <2>1. ASSUME NEW u \in Target, imported'[u] > 0
        PROVE  imported'[u] = 1 /\ Peer = u /\ {Source, u} \subseteq approved'
    <3>1. CASE u = t
      BY <1>a, <2>1, <3>1 DEF Sharing
    <3>2. CASE u # t
      BY <1>a, <2>1, <3>2 DEF IInv, OneApprovedImport, Peer
    <3> QED
      BY <3>1, <3>2
  <2> QED
    BY <1>0, <2>1 DEF OneApprovedImport, Peer
<1>6. MailIsTrue'
  BY <1>0, Context DEF IInv, MailIsTrue
<1>7. CompletedTogether'
  BY <1>0, <1>a, Context DEF IInv, CompletedTogether, State, Peer
<1>8. Facts'
  BY <1>1, <1>2, <1>3, <1>4, <1>5, <1>6, <1>7 DEF Facts
<1>9. redelivered \in Nat /\ imported' \in [Target -> Nat] /\ pc' \in [Device -> Places]
  BY Context DEF IInv, TypeOK
<1>10. command' \in {"none", "send_payload"}
  BY DEF IInv, TypeOK
<1> QED
  BY <1>8, <1>9, <1>10, Assemble DEF Moved

\* The message that a step adds, if it says nothing that must be proved.
Harmless == \A m \in published' : m \in published \/ m.type \notin {"offer", "payload", "complete"}

LEMMA SourceStays ==
  ASSUME IInv, Moved(Source, State(Source), Peer), NEW place \in {pc[Source], "failed"},
         pc' = [pc EXCEPT ![Source] = place], command' \in {"none", command},
         approved \subseteq approved', approved' \subseteq Device, UNCHANGED <<imported, redelivered>>,
         BoxOK(inbox', published'), Harmless
  PROVE  IInv'
<1>1. /\ SourceFits(place, State(Source)) /\ place \in Places /\ command' \in {"none", "send_payload"}
      /\ command' # "none" => place \in {"listen", "done", "failed"}
  BY Context DEF IInv, ProgramFits, SourceFits, TypeOK, Places
<1>2. /\ Peer \in Target \cup {None} /\ (State(Source) = "Waiting" => Peer = None)
      /\ State(Source) \notin {"Waiting", "Aborted"} => Peer \in Target
  BY DEF IInv, PeersLocked
<1>3. State(Source) \in Sharing => Source \in approved'
  BY Context DEF IInv, ApprovedBefore
<1>4. State(Source) = "Completed" => State(Peer) = "Completed"
  BY DEF IInv, CompletedTogether, State, Peer
<1> QED
  BY <1>1, <1>2, <1>3, <1>4, SourceMoves DEF Harmless

LEMMA TargetStays ==
  ASSUME IInv, NEW t \in Target, Moved(t, State(t), Source), NEW place \in {pc[t], "failed"},
         pc' = [pc EXCEPT ![t] = place], approved \subseteq approved', approved' \subseteq Device,
         UNCHANGED <<command, imported, redelivered>>, BoxOK(inbox', published'), Harmless
  PROVE  IInv'
<1>1. TargetFits(place, State(t)) /\ place \in Places
  BY Context DEF IInv, ProgramFits, TargetFits, TypeOK, Places
<1>2. State(t) \in Sharing => t \in approved'
  BY Context DEF IInv, ApprovedBefore
<1>3. /\ imported[t] = IF State(t) \in {"PayloadExchanged", "Completed"} THEN 1 ELSE 0
      /\ State(t) \in {"PayloadExchanged", "Completed"} => Peer = t /\ Source \in approved
  BY DEF IInv, ImportedOnce, OneApprovedImport, Peer
<1>4. imported' = [imported EXCEPT ![t] = IF State(t) \in {"PayloadExchanged", "Completed"} THEN 1 ELSE 0]
  BY <1>3, Context
<1> QED
  BY <1>1, <1>2, <1>3, <1>4, TargetMoves DEF Harmless

\* A session that is not touched, or only expires, stays where it is.
LEMMA Still ==
  ASSUME IInv, NEW d \in Device, session' \in {session, [session EXCEPT ![d].expired = TRUE]}
  PROVE  Moved(d, State(d), session[d].peer)
<1>1. CASE session' = session
  BY <1>1, Context DEF Moved, State
<1>2. CASE session' = [session EXCEPT ![d].expired = TRUE]
  <2>1. session[d] \in Session /\ session'[d] = [session[d] EXCEPT !.expired = TRUE]
    BY <1>2, Context
  <2>2. session'[d] \in Session /\ session'[d].state = session[d].state /\ session'[d].peer = session[d].peer
    BY <2>1 DEF Session
  <2>3. session' \in [Device -> Session] /\ \A e \in Device : e # d => session'[e] = session[e]
    BY <1>2, <2>2, Context
  <2> QED
    BY <2>2, <2>3 DEF Moved, State
<1> QED
  BY <1>1, <1>2

LEMMA AnyStays ==
  ASSUME IInv, NEW d \in Device, session' \in {session, [session EXCEPT ![d].expired = TRUE]},
         NEW place \in {pc[d], "failed"}, pc' = [pc EXCEPT ![d] = place],
         command' \in {"none", command}, d # Source => command' = command,
         approved \subseteq approved', approved' \subseteq Device, UNCHANGED <<imported, redelivered>>,
         BoxOK(inbox', published'), Harmless
  PROVE  IInv'
<1>1. CASE d = Source
  BY <1>1, Still, SourceStays DEF Peer
<1>2. CASE d # Source
  <2>1. d \in Target /\ session[d].peer = Source
    BY <1>2 DEF Device, IInv, PeersLocked
  <2> QED
    BY <1>2, <2>1, Still, TargetStays
<1> QED
  BY <1>1, <1>2

\* What d does next leaves its session alone: it drops an event or gives up.
LEMMA DiscardStep ==
  ASSUME IInv, NEW d \in Device, inbox[d] # <<>>, Discards(d),
         UNCHANGED <<command, redelivered, approved, imported>>
  PROVE  IInv'
<1>1. session' = session /\ pc' = [pc EXCEPT ![d] = pc[d]] /\ published' = published
  BY Context DEF Discards, SendNothing
<1>2. BoxOK(inbox', published')
  BY Context, ReadOK DEF Discards, SendNothing
<1>3. approved \subseteq Device
  BY DEF IInv, TypeOK
<1> QED
  BY <1>1, <1>2, <1>3, AnyStays DEF Harmless

LEMMA GiveUpStep ==
  ASSUME IInv, NEW d \in Device, GiveUp(d), approved' \in {approved, approved \cup {d}},
         UNCHANGED <<command, redelivered, imported>>
  PROVE  IInv'
<1>1. session' = session /\ pc' = [pc EXCEPT ![d] = "failed"] /\ published' = published /\ inbox' = inbox
  BY DEF GiveUp, Go, SendNothing
<1>2. approved' \subseteq Device
  BY DEF IInv, TypeOK
<1> QED
  BY <1>1, <1>2, Context, AnyStays DEF Harmless

LEMMA SessionStates == /\ SessionState = {"Waiting", "Confirming", "AwaitingConfirmation", "Transferring",
                                           "PayloadExchanged", "Completed", "Aborted"}
                       /\ Terminal = {"Completed", "Aborted"}
BY DEF SessionState, Terminal

\* d's session is aborted before a payload was exchanged with a target.
LEMMA AbortMoves ==
  ASSUME IInv, NEW d \in Device, Moved(d, "Aborted", session[d].peer), NEW place \in {"failed", "mismatch"},
         place = "mismatch" => d # Source,
         pc' = [pc EXCEPT ![d] = place], State(d) \notin {"PayloadExchanged", "Completed"} \/ d = Source,
         UNCHANGED <<command, redelivered, approved, imported>>, BoxOK(inbox', published'), Harmless
  PROVE  IInv'
<1>0. approved \subseteq Device /\ place \in Places /\ command \in {"none", "send_payload"}
  BY DEF IInv, TypeOK, Places
<1>1. CASE d = Source
  <2>1. Peer \in Target \cup {None} /\ "Aborted" \notin Sharing /\ SourceFits(place, "Aborted") /\ place = "failed"
    BY <1>1 DEF IInv, PeersLocked, Sharing, SourceFits
  <2> QED
    BY <1>0, <1>1, <2>1, SourceMoves DEF Peer, Harmless
<1>2. CASE d # Source
  <2>1. d \in Target /\ session[d].peer = Source /\ "Aborted" \notin Sharing /\ TargetFits(place, "Aborted")
    BY <1>2 DEF Device, IInv, PeersLocked, Sharing, TargetFits
  <2>2. imported[d] = 0
    BY <1>2, <2>1 DEF IInv, ImportedOnce
  <2>3. imported' = [imported EXCEPT ![d] = IF "Aborted" \in {"PayloadExchanged", "Completed"} THEN 1 ELSE 0]
    BY <2>1, <2>2, Context
  <2> QED
    BY <1>0, <1>2, <2>1, <2>3, TargetMoves DEF Harmless
<1> QED
  BY <1>1, <1>2

LEMMA PeerAbortsStep ==
  ASSUME IInv, NEW d \in Device, inbox[d] # <<>>, PeerAborts(d, Head(inbox[d])),
         State(d) \notin {"PayloadExchanged", "Completed"} \/ d = Source,
         UNCHANGED <<command, redelivered, approved, imported>>
  PROVE  IInv'
<1>1. Head(inbox[d]) \in PairingMessage /\ BoxOK(Rest(d), published)
  BY Context, ReadOK DEF BoxOK
<1>2. Moved(d, "Aborted", session[d].peer)
  BY <1>1, Context, AcceptMoves, SessionStates DEF PeerAborts
<1>3. pc' = [pc EXCEPT ![d] = "failed"] /\ BoxOK(inbox', published') /\ published' = published
  BY <1>1 DEF PeerAborts, Go, SendNothing
<1> QED
  BY <1>2, <1>3, AbortMoves DEF Harmless

LEMMA DenyStep == \A d \in Device : IInv /\ Deny(d) => IInv'
<1> SUFFICES ASSUME NEW d \in Device, IInv, Deny(d) PROVE IInv'
  OBVIOUS
<1>0. session[d].state \notin Terminal
  BY SessionStates DEF Deny, IInv, ProgramFits, SourceFits, TargetFits, Device, State
<1>1. Moved(d, "Aborted", session[d].peer)
  BY <1>0, Context, EnterMoves, SessionStates DEF Deny, Abort
<1>2. State(d) \notin {"PayloadExchanged", "Completed"} \/ d = Source
  BY DEF IInv, ProgramFits, TargetFits, Deny, Device
<1>3. BoxOK(inbox', published') /\ Harmless
  <2>1. CASE session[d].peer = None
    BY <2>1, Context DEF Deny, Abort, SendNothing, Harmless
  <2>2. CASE session[d].peer # None
    <3> DEFINE m == Message("abort", d, session[d].peer)
    <3>1. session[d].peer \in Device
      BY <2>2, Context DEF Session
    <3>2. m \in PairingMessage /\ m.type = "abort"
      BY <3>1, Messages DEF Message
    <3>3. Send(inbox, m)
      BY <1>0, <2>2 DEF Deny, Abort
    <3> HIDE DEF m
    <3> QED
      BY <3>2, <3>3, Context, SendOK DEF Harmless
  <2> QED
    BY <2>1, <2>2
<1> QED
  BY <1>1, <1>2, <1>3, AbortMoves DEF Deny, Abort, Go

-----------------------------------------------------------------------------
(* The source *)

\* The session is locked to the author of an offer, in the CLI or the app.
LEMMA LockStep ==
  ASSUME IInv, NEW m \in published, AcceptsOffer(m), LockToPeer(m), BoxOK(inbox', published'),
         NEW place \in {"prompt", "listen"}, pc' = [pc EXCEPT ![Source] = place],
         command # "none" => place = "listen",
         UNCHANGED <<published, command, redelivered, approved, imported>>
  PROVE  IInv'
<1>1. m \in PairingMessage /\ Moved(Source, "Confirming", m.from)
  BY Context, LockMoves DEF BoxOK
<1>2. m.from \in Target /\ Peer = None
  BY DEF IInv, MailIsTrue, AcceptsOffer, Expects, State, PeersLocked
<1>3. SourceFits(place, "Confirming") /\ "Confirming" \notin Sharing /\ place \in Places
  BY SessionStates DEF SourceFits, Sharing, Places
<1>4. approved \subseteq Device /\ command \in {"none", "send_payload"}
  BY DEF IInv, TypeOK
<1> QED
  BY <1>1, <1>2, <1>3, <1>4, SourceMoves

LEMMA WaitForOfferStep == IInv /\ WaitForOffer => IInv'
<1> SUFFICES ASSUME IInv, WaitForOffer PROVE IInv'
  OBVIOUS
<1> DEFINE m == Head(inbox[Source])
<1>0. /\ inbox[Source] # <<>> /\ pc[Source] = "wait_offer"
      /\ UNCHANGED <<command, redelivered, approved, imported>>
  BY DEF WaitForOffer, Reads
<1>1. m \in published /\ BoxOK(Rest(Source), published) /\ command = "none"
  BY <1>0, Context, ReadOK DEF IInv, ProgramFits
<1>2. CASE Discards(Source)
  BY <1>0, <1>2, Context, DiscardStep
<1>3. CASE AcceptsOffer(m) /\ LockToPeer(m) /\ Go(Source, "prompt") /\ SendNothing(Rest(Source))
  BY <1>0, <1>1, <1>3, LockStep DEF Go, SendNothing
<1> QED
  BY <1>2, <1>3 DEF WaitForOffer

LEMMA SasConfirmSent ==
  ASSUME IInv, Expects(Source, "Confirming"), SendSasConfirm
  PROVE  /\ Moved(Source, "Transferring", Peer) /\ Peer \in Target
         /\ BoxOK(inbox', published') /\ Harmless
<1>1. Moved(Source, "Transferring", Peer)
  BY Context, EnterMoves, SessionStates DEF SendSasConfirm, Peer
<1>2. Peer \in Target
  BY DEF IInv, PeersLocked, Expects, State
<1>3. PICK h \in {Peer} \cup {None} : Send(inbox, [Message("sas_confirm", Source, Peer) EXCEPT !.hash = h])
  BY DEF SendSasConfirm, Peer
<1>4. [Message("sas_confirm", Source, Peer) EXCEPT !.hash = h]
        = [type |-> "sas_confirm", from |-> Source, to |-> Peer, hash |-> h]
  BY DEF Message
<1> DEFINE m == [type |-> "sas_confirm", from |-> Source, to |-> Peer, hash |-> h]
<1>5. m \in PairingMessage /\ m.type = "sas_confirm"
  BY <1>2, <1>3, Context, Messages
<1>6. Send(inbox, m)
  BY <1>3, <1>4
<1> HIDE DEF m
<1> QED
  BY <1>1, <1>2, <1>5, <1>6, Context, SendOK DEF Harmless

LEMMA PayloadSent ==
  ASSUME IInv, Expects(Source, "Transferring"),
         Send(inbox, Message("payload", Source, session[Source].peer))
  PROVE  /\ BoxOK(inbox', published')
         /\ \A m \in published' : m \in published \/ (m.type = "payload" /\ m.to = Peer)
<1>1. Peer \in Target
  BY DEF IInv, PeersLocked, Expects, State
<1> DEFINE m == Message("payload", Source, Peer)
<1>2. m \in PairingMessage /\ m.type = "payload" /\ m.to = Peer
  BY <1>1, Context, Messages DEF Message
<1>3. Send(inbox, m)
  BY DEF Peer
<1> HIDE DEF m
<1> QED
  BY <1>2, <1>3, Context, SendOK

LEMMA SharingStates == "Transferring" \in Sharing /\ "PayloadExchanged" \in Sharing /\ "Completed" \in Sharing
BY DEF Sharing

LEMMA ConfirmSasStep == IInv /\ ConfirmSas => IInv'
<1> SUFFICES ASSUME IInv, ConfirmSas PROVE IInv'
  OBVIOUS
<1>0. /\ pc[Source] = "prompt" /\ approved' = approved \cup {Source} /\ approved' \subseteq Device
      /\ UNCHANGED <<command, redelivered, imported>> /\ command = "none"
  BY Context DEF ConfirmSas, IInv, TypeOK, ProgramFits
<1>1. CASE Expects(Source, "Confirming") /\ SendSasConfirm /\ Go(Source, "send_payload")
  <2>1. /\ Moved(Source, "Transferring", Peer) /\ Peer \in Target
        /\ BoxOK(inbox', published') /\ Harmless
    BY <1>1, SasConfirmSent
  <2>2. SourceFits("send_payload", "Transferring") /\ "send_payload" \in Places
    BY DEF SourceFits, Places
  <2> QED
    BY <1>0, <1>1, <2>1, <2>2, SourceMoves DEF Harmless, Go
<1>2. CASE GiveUp(Source)
  BY <1>0, <1>2, Context, GiveUpStep
<1> QED
  BY <1>1, <1>2 DEF ConfirmSas

LEMMA SendPayloadStep == IInv /\ SendPayload => IInv'
<1> SUFFICES ASSUME IInv, SendPayload PROVE IInv'
  OBVIOUS
<1>0. /\ pc[Source] = "send_payload" /\ approved \subseteq Device /\ command = "none"
      /\ UNCHANGED <<command, redelivered, approved, imported>>
  BY DEF SendPayload, IInv, TypeOK, ProgramFits
<1>1. CASE /\ Expects(Source, "Transferring") /\ Enter(Source, "PayloadExchanged")
           /\ Go(Source, "wait_complete") /\ Send(inbox, Message("payload", Source, session[Source].peer))
  <2>1. Moved(Source, "PayloadExchanged", Peer)
    BY <1>1, Context, EnterMoves, SessionStates DEF Peer
  <2>2. Peer \in Target /\ Source \in approved
    BY <1>1, Context, SharingStates DEF IInv, PeersLocked, ApprovedBefore, Expects, State
  <2>3. SourceFits("wait_complete", "PayloadExchanged") /\ "wait_complete" \in Places
    BY DEF SourceFits, Places
  <2> QED
    BY <1>0, <1>1, <2>1, <2>2, <2>3, PayloadSent, SourceMoves DEF Go
<1>2. CASE GiveUp(Source)
  BY <1>0, <1>2, Context, GiveUpStep
<1> QED
  BY <1>1, <1>2 DEF SendPayload

\* A complete message from the peer ends the session.
LEMMA CompletedStep ==
  ASSUME IInv, NEW m \in published, AcceptsFromPeer(Source, m, "PayloadExchanged", "complete"),
         Accept(Source, m, "Completed"), Go(Source, "done"), SendNothing(Rest(Source)),
         BoxOK(Rest(Source), published), UNCHANGED <<command, redelivered, approved, imported>>
  PROVE  IInv'
<1>1. m \in PairingMessage /\ Moved(Source, "Completed", Peer)
  BY Context, AcceptMoves, SessionStates DEF BoxOK, Peer
<1>2. Peer \in Target /\ Source \in approved
  BY Context, SharingStates DEF IInv, PeersLocked, ApprovedBefore, AcceptsFromPeer, Expects, State
<1>3. m.from = Peer
  BY <1>2, Context DEF AcceptsFromPeer, validate_event_from_peer, Peer
<1>4. State(Peer) = "Completed"
  BY <1>3 DEF IInv, MailIsTrue, AcceptsFromPeer
<1>5. SourceFits("done", "Completed") /\ "done" \in Places
  BY DEF SourceFits, Places
<1>6. approved \subseteq Device /\ command \in {"none", "send_payload"}
  BY DEF IInv, TypeOK
<1> QED
  BY <1>1, <1>2, <1>4, <1>5, <1>6, SourceMoves DEF Go, SendNothing

\* A complete(success = false) from the peer aborts it.
LEMMA ImportFailedStep ==
  ASSUME IInv, inbox[Source] # <<>>, ImportFailed(Head(inbox[Source])),
         UNCHANGED <<command, redelivered, approved, imported>>
  PROVE  IInv'
<1>1. BoxOK(Rest(Source), published) /\ Source \in Device
  BY Context, ReadOK
<1>2. Moved(Source, "Aborted", session[Source].peer)
  BY <1>1, Context, EnterMoves, SessionStates DEF ImportFailed
<1>3. pc' = [pc EXCEPT ![Source] = "failed"] /\ BoxOK(inbox', published') /\ published' = published
  BY <1>1 DEF ImportFailed, Go, SendNothing
<1> QED
  BY <1>1, <1>2, <1>3, AbortMoves DEF Harmless

LEMMA WaitForCompleteStep == IInv /\ WaitForComplete => IInv'
<1> SUFFICES ASSUME IInv, WaitForComplete PROVE IInv'
  OBVIOUS
<1> DEFINE m == Head(inbox[Source])
<1>0. inbox[Source] # <<>> /\ UNCHANGED <<command, redelivered, approved, imported>>
  BY DEF WaitForComplete, Reads
<1>1. m \in published /\ BoxOK(Rest(Source), published)
  BY <1>0, Context, ReadOK
<1>2. CASE PeerAborts(Source, m)
  BY <1>0, <1>2, Context, PeerAbortsStep
<1>3. CASE Discards(Source)
  BY <1>0, <1>3, Context, DiscardStep
<1>4. CASE /\ AcceptsFromPeer(Source, m, "PayloadExchanged", "complete")
           /\ Accept(Source, m, "Completed") /\ Go(Source, "done") /\ SendNothing(Rest(Source))
  BY <1>0, <1>1, <1>4, CompletedStep
<1>5. CASE ImportFailed(m)
  BY <1>0, <1>5, ImportFailedStep
<1> QED
  BY <1>2, <1>3, <1>4, <1>5 DEF WaitForComplete

LEMMA ListenStep == IInv /\ Listen => IInv'
<1> SUFFICES ASSUME IInv, Listen PROVE IInv'
  OBVIOUS
<1> DEFINE m == Head(inbox[Source])
<1>0. /\ inbox[Source] # <<>> /\ pc[Source] = "listen"
      /\ UNCHANGED <<command, redelivered, approved, imported>>
  BY DEF Listen, Reads
<1>1. m \in published /\ BoxOK(Rest(Source), published)
  BY <1>0, Context, ReadOK
<1>2. CASE PeerAborts(Source, m)
  BY <1>0, <1>2, Context, PeerAbortsStep
<1>3. CASE Discards(Source)
  BY <1>0, <1>3, Context, DiscardStep
<1>4. CASE AcceptsOffer(m) /\ LockToPeer(m) /\ SendNothing(Rest(Source)) /\ UNCHANGED pc
  <2>1. pc' = [pc EXCEPT ![Source] = "listen"]
    BY <1>0, <1>4, Context
  <2> QED
    BY <1>0, <1>1, <1>4, <2>1, LockStep DEF SendNothing
<1>5. CASE /\ AcceptsFromPeer(Source, m, "PayloadExchanged", "complete")
           /\ Accept(Source, m, "Completed") /\ Go(Source, "done") /\ SendNothing(Rest(Source))
  BY <1>0, <1>1, <1>5, CompletedStep
<1>6. CASE ImportFailed(m)
  BY <1>0, <1>6, ImportFailedStep
<1> QED
  BY <1>2, <1>3, <1>4, <1>5, <1>6 DEF Listen

LEMMA ConfirmPairingSasStep == IInv /\ ConfirmPairingSas => IInv'
<1> SUFFICES ASSUME IInv, ConfirmPairingSas PROVE IInv'
  OBVIOUS
<1>1. /\ Moved(Source, "Transferring", Peer) /\ Peer \in Target
      /\ BoxOK(inbox', published') /\ Harmless
  BY SasConfirmSent DEF ConfirmPairingSas
<1>2. SourceFits("listen", "Transferring") /\ "listen" \in Places
  BY SessionStates DEF SourceFits, Places
<1>3. /\ pc' = [pc EXCEPT ![Source] = "listen"] /\ command' = "send_payload"
      /\ approved' = approved \cup {Source} /\ UNCHANGED <<redelivered, imported>>
  BY Context DEF ConfirmPairingSas
<1>4. approved' \subseteq Device
  BY <1>3, Context DEF IInv, TypeOK
<1> QED
  BY <1>1, <1>2, <1>3, <1>4, SourceMoves DEF Harmless

LEMMA ConfirmSendsPayloadStep == IInv /\ ConfirmSendsPayload => IInv'
<1> SUFFICES ASSUME IInv, ConfirmSendsPayload PROVE IInv'
  OBVIOUS
<1>0. /\ command' = "none" /\ pc' = [pc EXCEPT ![Source] = pc[Source]]
      /\ pc[Source] \in {"listen", "done", "failed"} /\ pc[Source] \in Places
      /\ approved \subseteq Device /\ UNCHANGED <<redelivered, approved, imported>>
  BY Context DEF ConfirmSendsPayload, IInv, ProgramFits, TypeOK
<1>1. CASE Expects(Source, "Transferring") /\ Enter(Source, "PayloadExchanged")
  <2>1. Moved(Source, "PayloadExchanged", Peer)
    BY <1>1, Context, EnterMoves, SessionStates DEF Peer
  <2>2. Peer \in Target /\ Source \in approved
    BY <1>1, Context, SharingStates DEF IInv, PeersLocked, ApprovedBefore, Expects, State
  <2>3. SourceFits(pc[Source], "PayloadExchanged")
    BY <1>0, SessionStates DEF SourceFits
  <2>4. /\ BoxOK(inbox', published')
        /\ \A m \in published' : m \in published \/ (m.type = "payload" /\ m.to = Peer)
    <3>1. CASE Send(inbox, Message("payload", Source, session[Source].peer))
      BY <1>1, <3>1, PayloadSent
    <3>2. CASE SendNothing(inbox)
      BY <3>2, Context DEF SendNothing
    <3> QED
      BY <3>1, <3>2 DEF ConfirmSendsPayload
  <2> QED
    BY <1>0, <2>1, <2>2, <2>3, <2>4, SourceMoves
<1>2. CASE SendNothing(inbox) /\ UNCHANGED session
  <2>1. BoxOK(inbox', published') /\ Harmless
    BY <1>2, Context DEF SendNothing, Harmless
  <2> QED
    BY <1>0, <1>2, <2>1, Context, AnyStays
<1> QED
  BY <1>1, <1>2 DEF ConfirmSendsPayload

-----------------------------------------------------------------------------
(* A target *)

\* A target that has no payload yet moves on to a state without one.
LEMMA BeforePayload ==
  ASSUME IInv, NEW t \in Target, State(t) \notin {"PayloadExchanged", "Completed"},
         NEW s \in {"Confirming", "AwaitingConfirmation", "Transferring"}, NEW place \in Places,
         Moved(t, s, Source), TargetFits(place, s), pc' = [pc EXCEPT ![t] = place],
         approved' \in {approved, approved \cup {t}}, s = "Transferring" => t \in approved',
         UNCHANGED <<command, redelivered, imported>>, BoxOK(inbox', published'),
         \A m \in published' : m \in published \/ (m.type = "offer" /\ m.from = t)
  PROVE  IInv'
<1>1. imported[t] = 0 /\ approved' \subseteq Device
  BY Context DEF IInv, ImportedOnce, TypeOK
<1>2. imported' = [imported EXCEPT ![t] = IF s \in {"PayloadExchanged", "Completed"} THEN 1 ELSE 0]
  BY <1>1, Context
<1>3. s \in Sharing => t \in approved'
  BY DEF Sharing
<1> QED
  BY <1>1, <1>2, <1>3, TargetMoves

LEMMA ScanStep == \A t \in Target : IInv /\ Scan(t) => IInv'
<1> SUFFICES ASSUME NEW t \in Target, IInv, Scan(t) PROVE IInv'
  OBVIOUS
<1> DEFINE m == Message("offer", t, Source)
<1>1. m \in PairingMessage /\ m.type = "offer" /\ m.from = t
  BY Context, Messages DEF Message
<1>2. Send(inbox, m)
  BY DEF Scan
<1>3. Moved(t, "Confirming", Source)
  BY Context, EnterMoves, SessionStates DEF Scan, IInv, PeersLocked
<1>4. State(t) = "Waiting" /\ TargetFits("wait_sas_confirm", "Confirming") /\ "wait_sas_confirm" \in Places
  BY DEF Scan, IInv, ProgramFits, TargetFits, Places
<1> HIDE DEF m
<1>5. BoxOK(inbox', published') /\ \A n \in published' : n \in published \/ (n.type = "offer" /\ n.from = t)
  BY <1>1, <1>2, Context, SendOK
<1> QED
  BY <1>3, <1>4, <1>5, BeforePayload DEF Scan, Go

LEMMA WaitForSasConfirmStep == \A t \in Target : IInv /\ WaitForSasConfirm(t) => IInv'
<1> SUFFICES ASSUME NEW t \in Target, IInv, WaitForSasConfirm(t) PROVE IInv'
  OBVIOUS
<1> DEFINE m == Head(inbox[t])
<1>0. /\ inbox[t] # <<>> /\ t \in Device /\ State(t) = "Confirming" /\ session[t].peer = Source
      /\ UNCHANGED <<command, redelivered, approved, imported>>
  BY Context DEF WaitForSasConfirm, Reads, IInv, ProgramFits, TargetFits, PeersLocked
<1>1. m \in PairingMessage /\ BoxOK(Rest(t), published)
  BY <1>0, Context, ReadOK DEF BoxOK
<1>2. CASE PeerAborts(t, m)
  BY <1>0, <1>2, PeerAbortsStep
<1>3. CASE Discards(t)
  BY <1>0, <1>3, DiscardStep
<1>4. CASE Accept(t, m, "AwaitingConfirmation") /\ Go(t, "prompt") /\ SendNothing(Rest(t))
  <2>1. Moved(t, "AwaitingConfirmation", Source)
    BY <1>0, <1>1, <1>4, Context, AcceptMoves, SessionStates
  <2>2. TargetFits("prompt", "AwaitingConfirmation") /\ "prompt" \in Places
    BY DEF TargetFits, Places
  <2> QED
    BY <1>0, <1>1, <1>4, <2>1, <2>2, BeforePayload DEF Go, SendNothing
<1>5. CASE Enter(t, "Aborted") /\ Go(t, "mismatch") /\ SendNothing(Rest(t))
  <2>1. Moved(t, "Aborted", session[t].peer)
    BY <1>0, <1>5, Context, EnterMoves, SessionStates
  <2> QED
    BY <1>0, <1>1, <1>5, <2>1, Context, AbortMoves DEF Go, SendNothing, Harmless
<1> QED
  BY <1>2, <1>3, <1>4, <1>5 DEF WaitForSasConfirm

LEMMA ConfirmTargetSasStep == \A t \in Target : IInv /\ ConfirmTargetSas(t) => IInv'
<1> SUFFICES ASSUME NEW t \in Target, IInv, ConfirmTargetSas(t) PROVE IInv'
  OBVIOUS
<1>0. /\ t \in Device /\ State(t) = "AwaitingConfirmation" /\ session[t].peer = Source
      /\ approved' = approved \cup {t} /\ UNCHANGED <<command, redelivered, imported>>
  BY Context DEF ConfirmTargetSas, IInv, ProgramFits, TargetFits, PeersLocked
<1>1. CASE Enter(t, "Transferring") /\ Go(t, "wait_payload") /\ SendNothing(inbox)
  <2>1. Moved(t, "Transferring", Source)
    BY <1>0, <1>1, Context, EnterMoves, SessionStates
  <2>2. TargetFits("wait_payload", "Transferring") /\ "wait_payload" \in Places
    BY DEF TargetFits, Places
  <2> QED
    BY <1>0, <1>1, <2>1, <2>2, Context, BeforePayload DEF Go, SendNothing
<1>2. CASE GiveUp(t)
  BY <1>0, <1>2, GiveUpStep
<1> QED
  BY <1>1, <1>2 DEF ConfirmTargetSas

LEMMA WaitForPayloadStep == \A t \in Target : IInv /\ WaitForPayload(t) => IInv'
<1> SUFFICES ASSUME NEW t \in Target, IInv, WaitForPayload(t) PROVE IInv'
  OBVIOUS
<1> DEFINE m == Head(inbox[t])
<1>0. /\ inbox[t] # <<>> /\ t \in Device /\ State(t) = "Transferring" /\ session[t].peer = Source
      /\ UNCHANGED <<command, redelivered, approved>>
  BY Context DEF WaitForPayload, Reads, IInv, ProgramFits, TargetFits, PeersLocked
<1>1. m \in published /\ m \in PairingMessage /\ BoxOK(Rest(t), published)
  BY <1>0, Context, ReadOK DEF BoxOK
<1>2. CASE PeerAborts(t, m) /\ UNCHANGED imported
  BY <1>0, <1>2, PeerAbortsStep
<1>3. CASE Discards(t) /\ UNCHANGED imported
  BY <1>0, <1>3, DiscardStep
<1>4. CASE /\ AcceptsFromPeer(t, m, "Transferring", "payload") /\ Accept(t, m, "PayloadExchanged")
           /\ Go(t, "send_complete") /\ SendNothing(Rest(t))
           /\ imported' = [imported EXCEPT ![t] = @ + 1]
  <2>1. Moved(t, "PayloadExchanged", Source)
    BY <1>0, <1>1, <1>4, Context, AcceptMoves, SessionStates
  <2>2. TargetFits("send_complete", "PayloadExchanged") /\ "send_complete" \in Places
    BY DEF TargetFits, Places
  <2>3. m.type = "payload" /\ m.to = t
    BY <1>4 DEF AcceptsFromPeer, validate_event_from_peer, validate_event_basics
  <2>4. Peer = t /\ Source \in approved
    BY <1>1, <2>3 DEF IInv, MailIsTrue
  <2>5. t \in approved /\ approved \subseteq Device
    BY <1>0, SharingStates DEF IInv, ApprovedBefore, TypeOK
  <2>6. imported[t] = 0
    BY <1>0 DEF IInv, ImportedOnce
  <2>7. imported' = [imported EXCEPT ![t] = IF "PayloadExchanged" \in {"PayloadExchanged", "Completed"} THEN 1 ELSE 0]
    BY <1>4, <2>6, Context
  <2> QED
    BY <1>0, <1>1, <1>4, <2>1, <2>2, <2>4, <2>5, <2>7, TargetMoves DEF Go, SendNothing
<1> QED
  BY <1>2, <1>3, <1>4 DEF WaitForPayload

LEMMA SendCompleteStep == \A t \in Target : IInv /\ SendComplete(t) => IInv'
<1> SUFFICES ASSUME NEW t \in Target, IInv, SendComplete(t) PROVE IInv'
  OBVIOUS
<1>0. /\ t \in Device /\ State(t) = "PayloadExchanged" /\ session[t].peer = Source
      /\ UNCHANGED <<command, redelivered, approved, imported>>
  BY Context DEF SendComplete, IInv, ProgramFits, TargetFits, PeersLocked
<1>1. CASE Enter(t, "Completed") /\ Go(t, "done") /\ Send(inbox, Message("complete", t, Source))
  <2> DEFINE m == Message("complete", t, Source)
  <2>1. Moved(t, "Completed", Source)
    BY <1>0, <1>1, Context, EnterMoves, SessionStates
  <2>2. TargetFits("done", "Completed") /\ "done" \in Places
    BY DEF TargetFits, Places
  <2>3. m \in PairingMessage /\ m.type = "complete" /\ m.from = t
    BY Context, Messages DEF Message
  <2>4. Send(inbox, m)
    BY <1>1
  <2>5. t \in approved /\ approved \subseteq Device /\ imported[t] = 1
    BY <1>0, SharingStates DEF IInv, ApprovedBefore, ImportedOnce, TypeOK
  <2>6. Peer = t /\ Source \in approved
    BY <2>5 DEF IInv, OneApprovedImport, Peer
  <2>7. imported' = [imported EXCEPT ![t] = IF "Completed" \in {"PayloadExchanged", "Completed"} THEN 1 ELSE 0]
    BY <1>0, <2>5, Context
  <2> HIDE DEF m
  <2>8. BoxOK(inbox', published') /\ \A n \in published' : n \in published \/ (n.type = "complete" /\ n.from = t)
    BY <2>3, <2>4, Context, SendOK
  <2> QED
    BY <1>0, <1>1, <2>1, <2>2, <2>5, <2>6, <2>7, <2>8, TargetMoves DEF Go
<1>2. CASE GiveUp(t)
  BY <1>0, <1>2, GiveUpStep
<1> QED
  BY <1>1, <1>2 DEF SendComplete

LEMMA ReportFailureStep == \A t \in Target : IInv /\ ReportFailure(t) => IInv'
<1> SUFFICES ASSUME NEW t \in Target, IInv, ReportFailure(t) PROVE IInv'
  OBVIOUS
<1> DEFINE m == Message("complete_failed", t, Source)
<1>1. /\ session' = session /\ pc' = [pc EXCEPT ![t] = "failed"] /\ Send(inbox, m)
      /\ UNCHANGED <<command, redelivered, approved, imported>>
  BY DEF ReportFailure, Go
<1>2. m \in PairingMessage /\ m.type = "complete_failed" /\ t \in Device
  BY Context, Messages DEF Message
<1> HIDE DEF m
<1>3. BoxOK(inbox', published') /\ Harmless
  BY <1>1, <1>2, Context, SendOK DEF Harmless
<1>4. approved \subseteq Device
  BY DEF IInv, TypeOK
<1> QED
  BY <1>1, <1>2, <1>3, <1>4, AnyStays

-----------------------------------------------------------------------------
(* The relay and the clock *)

LEMMA TimeStep == \A d \in Device : IInv /\ (WaitTimeout(d) \/ Expire(d)) => IInv'
<1> SUFFICES ASSUME NEW d \in Device, IInv, WaitTimeout(d) \/ Expire(d) PROVE IInv'
  OBVIOUS
<1>1. CASE WaitTimeout(d)
  BY <1>1, GiveUpStep DEF WaitTimeout
<1>2. CASE Expire(d)
  <2>1. pc' = [pc EXCEPT ![d] = pc[d]] /\ approved \subseteq Device
    BY <1>2, Context DEF Expire, IInv, TypeOK
  <2> QED
    BY <1>2, <2>1, Context, AnyStays DEF Expire, Harmless
<1> QED
  BY <1>1, <1>2

LEMMA RedeliverStep == \A m \in published : IInv /\ Redeliver(m) => IInv'
<1> SUFFICES ASSUME NEW m \in published, IInv, Redeliver(m) PROVE IInv'
  OBVIOUS
<1>1. m \in PairingMessage
  BY Context DEF BoxOK
<1>2. Send(inbox, m)
  BY DEF Redeliver, Send, Publish
<1>5. BoxOK(inbox', published')
  BY <1>1, <1>2, Context, SendOK
<1>6. Facts'
  BY DEF Redeliver, IInv, Facts, ProgramFits, PeersLocked, ApprovedBefore, ImportedOnce, MailIsTrue,
         OneApprovedImport, CompletedTogether, State, Peer
<1>7. redelivered' \in Nat /\ command' \in {"none", "send_payload"} /\ approved' \subseteq Device
  BY DEF Redeliver, IInv, TypeOK
<1> QED
  BY <1>5, <1>6, <1>7, Context, Assemble DEF Redeliver

LEMMA IInvInit == Init => IInv
<1> SUFFICES ASSUME Init PROVE IInv
  OBVIOUS
<1>1. /\ \A d \in Device : State(d) = "Waiting" /\ inbox[d] = <<>>
      /\ \A t \in Target : session[t].peer = Source /\ pc[t] = "start" /\ imported[t] = 0
      /\ Peer = None /\ pc[Source] \in {"wait_offer", "listen"}
      /\ command = "none" /\ published = {} /\ Source \in Device /\ Target \subseteq Device
  BY PairingConstants DEF Init, State, Peer, Device
<1>2. TypeOK
  <2>1. session \in [Device -> Session]
    BY DEF Init, Session, SessionState, Device
  <2>2. pc \in [Device -> Places]
    BY DEF Init, Places
  <2>3. inbox \in [Device -> Seq(PairingMessage)]
    BY DEF Init
  <2> QED
    BY <2>1, <2>2, <2>3 DEF Init, TypeOK, Session
<1>3. ProgramFits /\ PeersLocked
  BY <1>1, SessionStates DEF ProgramFits, PeersLocked, SourceFits, TargetFits
<1>4. ApprovedBefore /\ ImportedOnce /\ MailIsTrue
  BY <1>1 DEF ApprovedBefore, ImportedOnce, MailIsTrue, Sharing
<1>5. MailIsPublished
  BY <1>1 DEF MailIsPublished, Mail
<1>6. OneApprovedImport /\ CompletedTogether
  BY <1>1 DEF OneApprovedImport, CompletedTogether, State
<1> QED
  BY <1>2, <1>3, <1>4, <1>5, <1>6 DEF IInv

LEMMA IInvNext == IInv /\ [Next]_vars => IInv'
<1> SUFFICES ASSUME IInv, [Next]_vars PROVE IInv'
  OBVIOUS
<1>1. CASE UNCHANGED vars
  BY <1>1 DEF vars, IInv, TypeOK, ProgramFits, PeersLocked, ApprovedBefore, ImportedOnce, MailIsTrue,
              MailIsPublished, OneApprovedImport, CompletedTogether, State, Peer
<1> QED
  BY <1>1, WaitForOfferStep, ConfirmSasStep, SendPayloadStep, WaitForCompleteStep, ListenStep,
     ConfirmPairingSasStep, ConfirmSendsPayloadStep, ScanStep, WaitForSasConfirmStep,
     ConfirmTargetSasStep, WaitForPayloadStep, SendCompleteStep, ReportFailureStep, DenyStep, TimeStep,
     RedeliverStep
  DEF Next

LEMMA Inductive == Spec => []IInv
BY IInvInit, IInvNext, PTL DEF Spec

\* The sessions, programs, mailboxes and messages keep their types.
THEOREM TypeCorrect == Spec => []TypeOK
<1>1. IInv => TypeOK
  BY DEF IInv
<1> QED
  BY <1>1, Inductive, PTL

\* The secret reaches one device at most, once, and only after both users have
\* approved, for any number of devices that scan the code: the lock of
\* handle_offer to the first author, the fence of every later message by that
\* peer, and the order of the session's states.
THEOREM SecretToOneApproved == Spec => []OneApprovedImport
<1>1. IInv => OneApprovedImport
  BY DEF IInv
<1> QED
  BY <1>1, Inductive, PTL

\* The source reports success only when its peer has the secret and has completed
\* too, whatever is lost, delivered again, timed out or aborted on the way.
THEOREM SuccessIsShared == Spec => []CompletedTogether
<1>1. IInv => CompletedTogether
  BY DEF IInv
<1> QED
  BY <1>1, Inductive, PTL

-----------------------------------------------------------------------------
(* Terminal states are final *)

\* How a session changes: it expires, or it is entered while it is not over, or
\* the source is locked to a peer while it waits for one.
LEMMA SessionWriters ==
  ASSUME IInv, [Next]_vars
  PROVE  \/ session' = session
         \/ \E d \in Device : session' = [session EXCEPT ![d].expired = TRUE]
         \/ \E d \in Device, s \in SessionState :
              State(d) \notin Terminal /\ (Enter(d, s) \/ \E m \in PairingMessage : Accept(d, m, s))
         \/ State(Source) = "Waiting" /\ \E m \in PairingMessage : LockToPeer(m)
<1> DEFINE Writes ==
      \/ session' = session
      \/ \E d \in Device : session' = [session EXCEPT ![d].expired = TRUE]
      \/ \E d \in Device, s \in SessionState :
           State(d) \notin Terminal /\ (Enter(d, s) \/ \E m \in PairingMessage : Accept(d, m, s))
      \/ State(Source) = "Waiting" /\ \E m \in PairingMessage : LockToPeer(m)
<1>0. ASSUME NEW d \in Device, NEW s, Expects(d, s), s \in SessionState \ Terminal PROVE State(d) \notin Terminal
  BY <1>0 DEF Expects, State
<1>a. \A d \in Device : inbox[d] # <<>> => Head(inbox[d]) \in PairingMessage
  BY Context, ReadOK DEF BoxOK
<1>b. ASSUME NEW d \in Device, inbox[d] # <<>>, PeerAborts(d, Head(inbox[d])) PROVE Writes
  BY <1>a, <1>b, SessionStates DEF PeerAborts, AcceptsAbort, State
<1>c. ASSUME NEW m \in PairingMessage, AcceptsOffer(m), LockToPeer(m) PROVE Writes
  BY <1>c DEF AcceptsOffer, Expects, State
<1>d. ASSUME NEW d \in Device, NEW m \in PairingMessage, NEW s, NEW type, NEW n \in SessionState,
             s \in SessionState \ Terminal, AcceptsFromPeer(d, m, s, type), Accept(d, m, n)
      PROVE  Writes
  BY <1>d, <1>0 DEF AcceptsFromPeer
<1>e. ASSUME NEW d \in Device, NEW s, NEW n \in SessionState,
             s \in SessionState \ Terminal, Expects(d, s), Enter(d, n)
      PROVE  Writes
  BY <1>e, <1>0
<1>1. CASE WaitForOffer
  BY <1>1, <1>a, <1>c, Context DEF WaitForOffer, Reads, Discards
<1>2. CASE ConfirmSas
  BY <1>2, <1>e, Context, SessionStates DEF ConfirmSas, SendSasConfirm, GiveUp
<1>3. CASE SendPayload
  BY <1>3, <1>e, Context, SessionStates DEF SendPayload, GiveUp
<1>f. ASSUME NEW m \in PairingMessage, ImportFailed(m) PROVE Writes
  BY <1>f, <1>e, Context, SessionStates DEF ImportFailed, AcceptsFromPeer
<1>4. CASE WaitForComplete
  BY <1>4, <1>a, <1>b, <1>d, <1>f, Context, SessionStates DEF WaitForComplete, Reads, Discards
<1>5. CASE Listen
  BY <1>5, <1>a, <1>b, <1>c, <1>d, <1>f, Context, SessionStates DEF Listen, Reads, Discards
<1>6. CASE ConfirmPairingSas
  BY <1>6, <1>e, Context, SessionStates DEF ConfirmPairingSas, SendSasConfirm
<1>7. CASE ConfirmSendsPayload
  BY <1>7, <1>e, Context, SessionStates DEF ConfirmSendsPayload
<1>8. ASSUME NEW t \in Target, Scan(t) PROVE Writes
  <2>1. State(t) = "Waiting"
    BY <1>8 DEF Scan, IInv, ProgramFits, TargetFits
  <2> QED
    BY <1>8, <2>1, Context, SessionStates DEF Scan
<1>9. ASSUME NEW t \in Target, WaitForSasConfirm(t) PROVE Writes
  <2>1. State(t) = "Confirming" /\ t \in Device
    BY <1>9, Context DEF WaitForSasConfirm, Reads, IInv, ProgramFits, TargetFits
  <2> QED
    BY <1>9, <1>a, <1>b, <2>1, SessionStates DEF WaitForSasConfirm, Reads, Discards
<1>10. ASSUME NEW t \in Target, ConfirmTargetSas(t) PROVE Writes
  BY <1>10, <1>e, Context, SessionStates DEF ConfirmTargetSas, GiveUp
<1>11. ASSUME NEW t \in Target, WaitForPayload(t) PROVE Writes
  BY <1>11, <1>a, <1>b, <1>d, Context, SessionStates DEF WaitForPayload, Reads, Discards
<1>12. ASSUME NEW t \in Target, SendComplete(t) PROVE Writes
  BY <1>12, <1>e, Context, SessionStates DEF SendComplete, GiveUp
<1>13. ASSUME NEW d \in Device, Deny(d) PROVE Writes
  <2>1. State(d) \notin Terminal
    BY <1>13, SessionStates DEF Deny, IInv, ProgramFits, SourceFits, TargetFits, Device
  <2> QED
    BY <1>13, <2>1, SessionStates DEF Deny, Abort, State
<1>14. ASSUME NEW d \in Device, WaitTimeout(d) \/ Expire(d) PROVE Writes
  BY <1>14 DEF WaitTimeout, GiveUp, Expire
<1>15. ASSUME NEW m \in published, Redeliver(m) PROVE Writes
  BY <1>15 DEF Redeliver
<1>16. CASE UNCHANGED vars
  BY <1>16 DEF vars
<1>17. ASSUME NEW t \in Target, ReportFailure(t) PROVE Writes
  BY <1>17 DEF ReportFailure
<1> QED
  BY <1>1, <1>2, <1>3, <1>4, <1>5, <1>6, <1>7, <1>8, <1>9, <1>10, <1>11, <1>12, <1>13, <1>14, <1>15, <1>16,
     <1>17
  DEF Next

\* A session that is over keeps its outcome, and a session that is locked to a
\* peer keeps it, whatever the peer, the user or the clock do later.
THEOREM OutcomeIsFinal == Spec => Final
<1> DEFINE Steady(d) == /\ session[d].state \in Terminal => session'[d].state = session[d].state
                        /\ session[d].peer # None => session'[d].peer = session[d].peer
<1>1. ASSUME IInv, [Next]_vars, NEW d \in Device PROVE Steady(d)
  <2>0. session \in [Device -> Session]
    BY <1>1, Context
  <2>1. ASSUME NEW e \in Device, NEW s, NEW p, Moved(e, s, p),
               State(e) \notin Terminal \/ s = State(e), session[e].peer \in {None, p}
        PROVE  Steady(d)
    BY <1>1, <2>1 DEF Moved, State
  <2>2. CASE \E e \in Device : session' \in {session, [session EXCEPT ![e].expired = TRUE]}
    BY <1>1, <2>1, <2>2, Still
  <2>3. ASSUME NEW e \in Device, NEW s \in SessionState, State(e) \notin Terminal,
               Enter(e, s) \/ \E m \in PairingMessage : Accept(e, m, s)
        PROVE  Steady(d)
    BY <2>0, <2>1, <2>3, EnterMoves, AcceptMoves
  <2>4. ASSUME NEW m \in PairingMessage, State(Source) = "Waiting", LockToPeer(m) PROVE Steady(d)
    <3>1. Peer = None
      BY <1>1, <2>4 DEF IInv, PeersLocked
    <3> QED
      BY <1>1, <2>0, <2>1, <2>4, <3>1, LockMoves, Context, SessionStates DEF Peer
  <2> QED
    BY <1>1, <2>2, <2>3, <2>4, SessionWriters
<1>2. IInv /\ [Next]_vars => [\A d \in Device : Steady(d)]_vars
  BY <1>1
<1> QED
  BY <1>2, Inductive, PTL DEF Spec, Final
=============================================================================
