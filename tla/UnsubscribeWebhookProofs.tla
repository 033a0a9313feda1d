----------------------- MODULE UnsubscribeWebhookProofs -----------------------
(***************************************************************************)
(* Proofs about UnsubscribeWebhook, for any number of People, deliveries,  *)
(* staff users, events, writes and failures: the preference is the newest  *)
(* row of a history that never says the same twice running, and what Brevo *)
(* was told to be handled has been handled.                                *)
(***************************************************************************)
EXTENDS MCUnsubscribeWebhook, FiniteSetTheorems, TLAPS

Row == [state : State, by : Author, event : Event \cup {None}]
Delivery == [pc : {"free", "received", "resolved", "inserting", "answering"},
             event : Event \cup {None}, found : SUBSET Person]

(* One Person found is the Person of the delivery.                          *)
LEMMA OnePerson ==
  ASSUME TypeOK, NEW h \in Handler, Cardinality(request[h].found) = 1
  PROVE  PersonOf(h) \in Person
  <1>1. request[h].found \subseteq Person /\ IsFiniteSet(request[h].found)
    BY WebhookAssumption, FS_Subset DEF TypeOK
  <1>2. PICK p : request[h].found = {p}
    BY <1>1, FS_Singleton
  <1>3. p \in Person
    BY <1>1, <1>2
  <1> QED BY <1>2, <1>3 DEF PersonOf

(* Recording a preference keeps the evidence in order, loses nothing of it, *)
(* and adds a row unless the newest one says the same already.              *)
LEMMA RecordKeeps ==
  ASSUME TypeOK, HistoryIsMeaningful,
         NEW p \in Person, NEW s \in State, NEW by \in Author, NEW e \in Event \cup {None},
         Record(p, s, by, e)
  PROVE  /\ preference' \in [Person -> [state : State, by : Author] \cup {NoRow}]
         /\ history' \in [Person -> Seq(Row)]
         /\ HistoryIsMeaningful'
         /\ \A d \in Event : Effects(d) # {} => Effects(d)' # {}
         /\ ~Repeats(p, s, by) => Effects(e)' # {}
  <1>0. /\ preference \in [Person -> [state : State, by : Author] \cup {NoRow}]
        /\ history \in [Person -> Seq(Row)]
    BY DEF TypeOK, Row
  <1>1. CASE Repeats(p, s, by)
    <2>1. preference' = preference /\ history' = history
      BY <1>1 DEF Record, evidence
    <2>2. HistoryIsMeaningful'
      BY <2>1 DEF HistoryIsMeaningful
    <2>3. \A d \in Event : Effects(d)' = Effects(d)
      BY <2>1 DEF Effects, Rows
    <2> QED BY <1>0, <1>1, <2>1, <2>2, <2>3
  <1>2. CASE ~Repeats(p, s, by)
    <2> DEFINE r == [state |-> s, by |-> by]
               w == [state |-> s, by |-> by, event |-> e]
    <2>1. /\ preference' = [preference EXCEPT ![p] = r]
          /\ history' = [history EXCEPT ![p] = Append(@, w)]
      BY <1>2 DEF Record
    <2>2. w \in Row /\ r \in [state : State, by : Author] /\ preference[p] # r
          /\ w.state = r.state /\ w.by = r.by /\ w.event = e /\ r = [state |-> w.state, by |-> w.by]
      BY <1>2 DEF Row, Repeats
    <2> HIDE DEF r, w
    <2>3. /\ preference' \in [Person -> [state : State, by : Author] \cup {NoRow}]
          /\ history' \in [Person -> Seq(Row)]
      <3>1. history[p] \in Seq(Row)
        BY <1>0
      <3>2. Append(history[p], w) \in Seq(Row)
        BY <2>2, <3>1
      <3> QED BY <1>0, <2>1, <2>2, <3>2
    <2>4. ASSUME NEW q \in Person, q # p
          PROVE  history'[q] = history[q] /\ preference'[q] = preference[q]
      BY <2>1, <2>4 DEF TypeOK
    <2> DEFINE n == Len(history[p])
    <2>5. /\ history[p] \in Seq(Row) /\ n \in Nat /\ Len(history'[p]) = n + 1
          /\ history'[p][n + 1] = w
          /\ \A i \in 1 .. n : history'[p][i] = history[p][i]
          /\ preference'[p] = r
      <3>1. history[p] \in Seq(Row) /\ history'[p] = Append(history[p], w) /\ preference'[p] = r
        BY <1>0, <2>1
      <3> QED BY <3>1, <2>2
    <2> HIDE DEF n
    <2>6. HistoryIsMeaningful'
      <3> SUFFICES ASSUME NEW q \in Person
                   PROVE  /\ preference'[q] = IF Len(history'[q]) = 0 THEN NoRow
                               ELSE [state |-> history'[q][Len(history'[q])].state,
                                     by |-> history'[q][Len(history'[q])].by]
                          /\ \A i \in 1 .. Len(history'[q]) : i > 1 =>
                               [state |-> history'[q][i].state, by |-> history'[q][i].by]
                               # [state |-> history'[q][i - 1].state, by |-> history'[q][i - 1].by]
        BY DEF HistoryIsMeaningful
      <3>1. CASE q # p
        BY <3>1, <2>4 DEF HistoryIsMeaningful
      <3>2. CASE q = p
        <4>1. preference'[p] = [state |-> history'[p][n + 1].state, by |-> history'[p][n + 1].by]
          BY <2>2, <2>5
        <4>2. ASSUME NEW i \in 1 .. n + 1, i > 1
              PROVE  [state |-> history'[p][i].state, by |-> history'[p][i].by]
                     # [state |-> history'[p][i - 1].state, by |-> history'[p][i - 1].by]
          <5>1. CASE i = n + 1
            <6>1. n # 0 /\ i - 1 = n /\ n \in 1 .. n
              BY <4>2, <5>1, <2>5
            <6>2. preference[p] = [state |-> history[p][n].state, by |-> history[p][n].by]
              BY <6>1 DEF HistoryIsMeaningful, n
            <6> QED BY <5>1, <6>1, <6>2, <2>2, <2>5
          <5>2. CASE i \in 1 .. n
            <6>1. i - 1 \in 1 .. n
              BY <4>2, <5>2, <2>5
            <6>2. [state |-> history[p][i].state, by |-> history[p][i].by]
                  # [state |-> history[p][i - 1].state, by |-> history[p][i - 1].by]
              BY <4>2, <5>2 DEF HistoryIsMeaningful, n
            <6> QED BY <5>2, <6>1, <6>2, <2>5
          <5> QED BY <4>2, <5>1, <5>2, <2>5
        <4> QED BY <3>2, <4>1, <4>2, <2>5
      <3> QED BY <3>1, <3>2
    <2>7. ASSUME NEW d \in Event, Effects(d) # {}
          PROVE  Effects(d)' # {}
      <3>0. PICK q \in Person : \E i \in 1 .. Len(history[q]) : history[q][i].event = d
        BY <2>7 DEF Effects, Rows
      <3>1. PICK i \in 1 .. Len(history[q]) : history[q][i].event = d
        BY <3>0
      <3>2. i \in 1 .. Len(history'[q]) /\ history'[q][i].event = d
        <4>1. CASE q = p
          BY <3>1, <4>1, <2>5 DEF n
        <4>2. CASE q # p
          BY <3>1, <4>2, <2>4
        <4> QED BY <4>1, <4>2
      <3>3. <<q, i>> \in Effects(d)'
        BY <3>1, <3>2 DEF Effects, Rows
      <3> QED BY <3>3
    <2>8. Effects(e)' # {}
      <3>1. n + 1 \in 1 .. Len(history'[p]) /\ history'[p][n + 1].event = e
        BY <2>2, <2>5
      <3>2. <<p, n + 1>> \in Effects(e)'
        BY <3>1 DEF Effects, Rows
      <3> QED BY <3>2
    <2> QED BY <2>3, <2>6, <2>7, <2>8
  <1> QED BY <1>1, <1>2

(* A receipt, once there, stays what it is.                                 *)
LEMMA StoreReceiptKeeps ==
  ASSUME TypeOK, NEW e \in Event, NEW outcome \in Outcome, StoreReceipt(e, outcome)
  PROVE  /\ receipt' \in [Event -> Outcome \cup {"none"}]
         /\ \A d \in Event \ Stamped : receipt'[d] = "none"
         /\ \A d \in Event : Known(d) => receipt'[d] = receipt[d]
         /\ \A d \in Event : receipt'[d] # receipt[d] => d = e /\ receipt'[d] = outcome
         /\ e \in Stamped => receipt'[e] # "none"
  <1>1. "none" \notin Outcome
    BY DEF Outcome
  <1> QED BY <1>1, WebhookAssumption DEF StoreReceipt, TypeOK, Known

-----------------------------------------------------------------------------
(* No delivery has arrived and no preference is recorded.                   *)
THEOREM InitInv == Init => IInv
  <1> SUFFICES ASSUME Init PROVE IInv
    OBVIOUS
  <1> USE DEF Init
  <1>1. TypeOK
    BY DEF TypeOK, NoRow, Free, Quiet
  <1>2. HistoryIsMeaningful
    BY DEF HistoryIsMeaningful
  <1>3. AckedIsKept
    BY WebhookAssumption DEF AckedIsKept
  <1>4. DeliveriesAreSound /\ InsertsAreSound
    BY DEF DeliveriesAreSound, InsertsAreSound, Free, Quiet
  <1> QED BY <1>1, <1>2, <1>3, <1>4 DEF IInv

(* What staff does leaves deliveries, receipts and answers alone.           *)
LEMMA StaffEvidenceKeeps ==
  ASSUME IInv, NEW c \in Clerk, NEW p \in Person, NEW s \in State, Record(p, s, c, None),
         clerk' \in [Clerk -> [pc : {"quiet", "inserting"}, person : Person \cup {None},
                               state : State \cup {"UNKNOWN"}]],
         InsertsAreSound', writes' \in Nat, UNCHANGED <<receipt, carriers, request, brevo, failures>>
  PROVE  IInv'
  <1>1. c \in Author /\ None \in Event \cup {None}
    BY DEF Author
  <1>2. /\ preference' \in [Person -> [state : State, by : Author] \cup {NoRow}]
        /\ history' \in [Person -> Seq(Row)]
        /\ HistoryIsMeaningful'
        /\ \A d \in Event : Effects(d) # {} => Effects(d)' # {}
    BY <1>1, RecordKeeps DEF IInv
  <1>3. TypeOK'
    BY <1>2 DEF IInv, TypeOK, Row, brevo
  <1>4. AckedIsKept'
    BY <1>2, WebhookAssumption DEF IInv, AckedIsKept, Known, brevo
  <1>5. DeliveriesAreSound'
    BY DEF IInv, DeliveriesAreSound, Known
  <1> QED BY <1>2, <1>3, <1>4, <1>5 DEF IInv

(* Staff changes an existing preference, or starts to insert one.           *)
LEMMA RecordPreferenceKeeps ==
  ASSUME IInv, NEW c \in Clerk, NEW p \in Person, NEW s \in State, RecordPreference(c, p, s)
  PROVE  IInv'
  <1>1. writes' \in Nat /\ UNCHANGED <<receipt, carriers, request, brevo, failures>>
    BY DEF RecordPreference, IInv, TypeOK
  <1>2. CASE RowExists(p)
    <2>1. Record(p, s, c, None) /\ clerk' = clerk
      BY <1>2 DEF RecordPreference
    <2> QED BY <1>1, <2>1, StaffEvidenceKeeps DEF IInv, TypeOK, InsertsAreSound
  <1>3. CASE ~RowExists(p)
    <2> DEFINE q == [pc |-> "inserting", person |-> p, state |-> s]
    <2>1. clerk' = [clerk EXCEPT ![c] = q] /\ UNCHANGED evidence
      BY <1>3 DEF RecordPreference
    <2>2. q \in [pc : {"quiet", "inserting"}, person : Person \cup {None}, state : State \cup {"UNKNOWN"}]
          /\ q.person \in Person /\ q.state \in State
      OBVIOUS
    <2> HIDE DEF q
    <2>3. \A d \in Clerk : clerk'[d] = IF d = c THEN q ELSE clerk[d]
      BY <2>1 DEF IInv, TypeOK
    <2>4. TypeOK'
      BY <1>1, <2>1, <2>2 DEF IInv, TypeOK, evidence, brevo
    <2>5. InsertsAreSound'
      BY <2>2, <2>3 DEF IInv, InsertsAreSound
    <2>6. HistoryIsMeaningful' /\ AckedIsKept' /\ DeliveriesAreSound'
      BY <1>1, <2>1 DEF IInv, HistoryIsMeaningful, AckedIsKept, DeliveriesAreSound, Known, Effects,
                        Rows, evidence, brevo
    <2> QED BY <2>4, <2>5, <2>6 DEF IInv
  <1> QED BY <1>2, <1>3

(* The insert of staff, or the update when somebody else was first.         *)
LEMMA InsertPreferenceKeeps ==
  ASSUME IInv, NEW c \in Clerk, InsertPreference(c)
  PROVE  IInv'
  <1> DEFINE p == clerk[c].person
             s == clerk[c].state
  <1>1. clerk[c].pc = "inserting" /\ p \in Person /\ s \in State
    BY DEF InsertPreference, IInv, InsertsAreSound
  <1>2. /\ clerk' = [clerk EXCEPT ![c] = Quiet]
        /\ UNCHANGED <<receipt, carriers, request, brevo, counters>>
        /\ IF RowExists(p) THEN UNCHANGED evidence ELSE Record(p, s, c, None)
    BY DEF InsertPreference
  <1> HIDE DEF p, s
  <1>3. Quiet \in [pc : {"quiet", "inserting"}, person : Person \cup {None}, state : State \cup {"UNKNOWN"}]
        /\ Quiet.pc = "quiet"
    BY DEF Quiet
  <1>4. \A d \in Clerk : clerk'[d] = IF d = c THEN Quiet ELSE clerk[d]
    BY <1>2 DEF IInv, TypeOK
  <1>5. InsertsAreSound'
    BY <1>3, <1>4 DEF IInv, InsertsAreSound
  <1>6. clerk' \in [Clerk -> [pc : {"quiet", "inserting"}, person : Person \cup {None},
                              state : State \cup {"UNKNOWN"}]]
    BY <1>2, <1>3 DEF IInv, TypeOK
  <1>7. CASE ~RowExists(p)
    BY <1>1, <1>2, <1>5, <1>6, <1>7, StaffEvidenceKeeps DEF counters, IInv, TypeOK
  <1>8. CASE RowExists(p)
    <2>1. UNCHANGED <<evidence, receipt, carriers, request, brevo, counters>>
      BY <1>2, <1>8
    <2>2. TypeOK'
      BY <1>6, <2>1 DEF IInv, TypeOK, evidence, brevo, counters
    <2>3. HistoryIsMeaningful' /\ AckedIsKept' /\ DeliveriesAreSound'
      BY <2>1 DEF IInv, HistoryIsMeaningful, AckedIsKept, DeliveriesAreSound, Known, Effects, Rows,
                  evidence, brevo
    <2> QED BY <1>5, <2>2, <2>3 DEF IInv
  <1> QED BY <1>7, <1>8

-----------------------------------------------------------------------------
(* The delivery as it goes on: what it was about stays.                     *)
Moved(h, pc, found) == [pc |-> pc, event |-> request[h].event, found |-> found]

(* It is a delivery again.                                                  *)
LEMMA MovedIsDelivery ==
  ASSUME IInv, NEW h \in Handler, request[h].pc # "free",
         NEW pc \in {"resolved", "inserting", "answering"}, NEW found \in SUBSET Person
  PROVE  Moved(h, pc, found) \in Delivery /\ request[h].event \in Event
  BY DEF IInv, TypeOK, DeliveriesAreSound, Moved, Delivery

(* A delivery that only has to be answered.                                 *)
LEMMA AnsweringMoves ==
  ASSUME IInv, NEW h \in Handler, Answering(h)
  PROVE  request' = [request EXCEPT ![h] = Moved(h, "answering", request[h].found)]
  <1>1. request[h] \in Delivery
    BY DEF IInv, TypeOK, Delivery
  <1>2. [request[h] EXCEPT !.pc = "answering"] = Moved(h, "answering", request[h].found)
    BY <1>1 DEF Delivery, Moved
  <1> QED BY <1>2 DEF Answering

(* A step of one delivery, which may leave a receipt and, when it says that *)
(* the opt-out was recorded, the row that it speaks of.                     *)
LEMMA DeliveryKeeps ==
  ASSUME IInv, NEW h \in Handler, NEW q \in Delivery,
         request' = [request EXCEPT ![h] = q],
         q.pc # "free" => q.event \in Event,
         q.pc = "inserting" => Cardinality(q.found) = 1,
         q.pc = "answering" /\ q.event \in Stamped => receipt'[q.event] # "none",
         receipt' \in [Event -> Outcome \cup {"none"}],
         \A d \in Event \ Stamped : receipt'[d] = "none",
         \A d \in Event : Known(d) => receipt'[d] = receipt[d],
         \A d \in Event : receipt'[d] # receipt[d] /\ receipt'[d] = "CRM_OPTED_OUT_RECORDED" =>
           Effects(d)' # {},
         preference' \in [Person -> [state : State, by : Author] \cup {NoRow}],
         history' \in [Person -> Seq(Row)], HistoryIsMeaningful',
         \A d \in Event : Effects(d) # {} => Effects(d)' # {},
         UNCHANGED <<carriers, clerk, writes>>,
         due' \subseteq Event, acked' \subseteq Event, failures' \in Nat,
         \A e \in acked' : e \in acked \/ (e \in Stamped => Known(e))
  PROVE  IInv'
  <1>1. \A d \in Handler : request'[d] = IF d = h THEN q ELSE request[d]
    BY DEF IInv, TypeOK
  <1>2. request' \in [Handler -> Delivery]
    BY DEF IInv, TypeOK, Delivery
  <1>3. TypeOK'
    BY <1>2 DEF IInv, TypeOK, Delivery, Row
  <1>4. \A d \in Event : Known(d) => receipt'[d] # "none"
    BY DEF Known
  <1>5. DeliveriesAreSound'
    BY <1>1, <1>4, WebhookAssumption DEF IInv, DeliveriesAreSound, Known
  <1>6. AckedIsKept'
    <2> SUFFICES ASSUME NEW e \in Stamped
                 PROVE  /\ e \in acked' => receipt'[e] # "none"
                        /\ receipt'[e] = "CRM_OPTED_OUT_RECORDED" => Effects(e)' # {}
      BY DEF AckedIsKept, Known
    <2>1. e \in Event
      BY WebhookAssumption
    <2>2. e \in acked' => receipt'[e] # "none"
      BY <1>4, <2>1 DEF IInv, AckedIsKept
    <2>3. receipt'[e] = "CRM_OPTED_OUT_RECORDED" => Effects(e)' # {}
      BY <2>1 DEF IInv, AckedIsKept
    <2> QED BY <2>2, <2>3
  <1>7. InsertsAreSound'
    BY DEF IInv, InsertsAreSound
  <1> QED BY <1>3, <1>5, <1>6, <1>7 DEF IInv

(* Evidence and receipts that a step leaves alone are still in order.       *)
LEMMA Untouched ==
  ASSUME IInv, UNCHANGED evidence
  PROVE  /\ preference' \in [Person -> [state : State, by : Author] \cup {NoRow}]
         /\ history' \in [Person -> Seq(Row)] /\ HistoryIsMeaningful'
         /\ \A d \in Event : Effects(d)' = Effects(d)
  <1>1. preference' = preference /\ history' = history
    BY DEF evidence
  <1>2. /\ preference' \in [Person -> [state : State, by : Author] \cup {NoRow}]
        /\ history' \in [Person -> Seq(Row)]
    BY <1>1 DEF IInv, TypeOK, Row
  <1>3. HistoryIsMeaningful'
    BY <1>1 DEF IInv, HistoryIsMeaningful
  <1>4. \A d \in Event : Effects(d)' = Effects(d)
    BY <1>1 DEF Effects, Rows
  <1> QED BY <1>2, <1>3, <1>4

(* Steps that write neither evidence nor receipts nor answers.              *)
LEMMA Unanswered ==
  ASSUME IInv, UNCHANGED <<evidence, receipt, acked>>
  PROVE  HistoryIsMeaningful' /\ AckedIsKept'
  <1>1. HistoryIsMeaningful' /\ \A d \in Event : Effects(d)' = Effects(d)
    BY Untouched
  <1>2. AckedIsKept'
    <2> SUFFICES ASSUME NEW e \in Stamped
                 PROVE  /\ e \in acked' => receipt'[e] # "none"
                        /\ receipt'[e] = "CRM_OPTED_OUT_RECORDED" => Effects(e)' # {}
      BY DEF AckedIsKept, Known
    <2>1. e \in Event
      BY WebhookAssumption
    <2> QED BY <1>1, <2>1 DEF IInv, AckedIsKept, Known
  <1> QED BY <1>1, <1>2

(* A delivery arrives; it has found nobody yet.                             *)
LEMMA DeliverKeeps ==
  ASSUME IInv, NEW e \in Event, Deliver(e)
  PROVE  IInv'
  <1> DEFINE q == [pc |-> "received", event |-> e, found |-> {}]
  <1>1. PICK h \in Handler : request' = [request EXCEPT ![h] = q]
    BY DEF Deliver
  <1>3. q \in Delivery /\ q.pc = "received" /\ q.event \in Event
    BY DEF Delivery
  <1>4. UNCHANGED <<evidence, receipt, carriers, clerk, brevo, counters>>
    BY DEF Deliver
  <1> HIDE DEF q
  <1> QED BY <1>1, <1>3, <1>4, Untouched, DeliveryKeeps DEF IInv, TypeOK, brevo, counters, Known

(* The People of the address are looked up.                                 *)
LEMMA ResolveKeeps ==
  ASSUME IInv, NEW h \in Handler, Resolve(h)
  PROVE  IInv'
  <1>1. /\ request[h].pc = "received" /\ UNCHANGED <<evidence, receipt, carriers, clerk, brevo, counters>>
        /\ IF Known(request[h].event) THEN Answering(h) ELSE request' = Found(h)
    BY DEF Resolve
  <1>2. request[h] \in Delivery /\ request[h].event \in Event /\ carriers \in SUBSET Person
    BY <1>1 DEF IInv, TypeOK, Delivery, DeliveriesAreSound
  <1>3. CASE Known(request[h].event)
    <2> DEFINE q == Moved(h, "answering", request[h].found)
    <2>1. request' = [request EXCEPT ![h] = q]
      BY <1>1, <1>3, AnsweringMoves
    <2>2. q \in Delivery /\ q.pc = "answering" /\ q.event = request[h].event
      BY <1>1, <1>2, MovedIsDelivery DEF Moved, Delivery
    <2> HIDE DEF q
    <2> QED BY <1>1, <1>2, <1>3, <2>1, <2>2, Untouched, DeliveryKeeps
            DEF IInv, TypeOK, brevo, counters, Known
  <1>4. CASE ~Known(request[h].event)
    <2> DEFINE q == Moved(h, "resolved", carriers)
    <2>1. request' = [request EXCEPT ![h] = q]
      BY <1>1, <1>2, <1>4 DEF Found, Moved, Delivery, IInv, TypeOK
    <2>2. q \in Delivery /\ q.pc = "resolved" /\ q.event = request[h].event
      BY <1>1, <1>2, MovedIsDelivery DEF Moved, Delivery
    <2> HIDE DEF q
    <2> QED BY <1>1, <1>2, <2>1, <2>2, Untouched, DeliveryKeeps DEF IInv, TypeOK, brevo, counters
  <1> QED BY <1>3, <1>4

(* An event with a receipt, or without a Person, is disregarded.            *)
LEMMA DisregardKeeps ==
  ASSUME IInv, NEW h \in Handler, Disregard(h)
  PROVE  IInv'
  <1> DEFINE outcome == IF request[h].found = {} THEN "PERSON_NOT_FOUND" ELSE "IDENTITY_CONFLICT"
             q == Moved(h, "answering", request[h].found)
             e == request[h].event
  <1>1. /\ request[h].pc = "resolved" /\ Answering(h)
        /\ UNCHANGED <<evidence, carriers, clerk, brevo, counters>>
        /\ StoreReceipt(e, outcome)
    BY DEF Disregard
  <1>2. outcome \in Outcome /\ outcome # "CRM_OPTED_OUT_RECORDED"
    BY DEF Outcome
  <1>3. request[h].found \in SUBSET Person
    BY DEF IInv, TypeOK
  <1>4. request' = [request EXCEPT ![h] = q]
    BY <1>1, AnsweringMoves
  <1>5. q \in Delivery /\ q.pc = "answering" /\ q.event = e /\ e \in Event
    BY <1>1, <1>3, MovedIsDelivery DEF Moved
  <1> HIDE DEF outcome, q, e
  <1>6. /\ receipt' \in [Event -> Outcome \cup {"none"}]
        /\ \A d \in Event \ Stamped : receipt'[d] = "none"
        /\ \A d \in Event : Known(d) => receipt'[d] = receipt[d]
        /\ \A d \in Event : receipt'[d] # receipt[d] => d = e /\ receipt'[d] = outcome
        /\ e \in Stamped => receipt'[e] # "none"
    BY <1>1, <1>2, <1>5, StoreReceiptKeeps DEF IInv
  <1> QED BY <1>1, <1>2, <1>4, <1>5, <1>6, Untouched, DeliveryKeeps DEF IInv, TypeOK, brevo, counters

(* The opt-out and the receipt that tells of it.                            *)
LEMMA OptOutKeeps ==
  ASSUME IInv, NEW h \in Handler, request[h].pc \in {"resolved", "inserting"},
         Cardinality(request[h].found) = 1, OptOut(h),
         UNCHANGED <<carriers, clerk, brevo, counters>>
  PROVE  IInv'
  <1>0. PICK p \in Person, e \in Event : p = PersonOf(h) /\ e = request[h].event
    BY OnePerson DEF IInv, DeliveriesAreSound
  <1> DEFINE q == Moved(h, "answering", request[h].found)
             outcome == IF Repeats(p, "OPTED_OUT", "BREVO") THEN "CRM_OPTED_OUT_ALREADY_RECORDED"
                                                           ELSE "CRM_OPTED_OUT_RECORDED"
  <1>1. Record(p, "OPTED_OUT", "BREVO", e) /\ StoreReceipt(e, outcome) /\ Answering(h)
    BY <1>0 DEF OptOut
  <1>2. request[h].found \in SUBSET Person
    BY DEF IInv, TypeOK
  <1>3. request' = [request EXCEPT ![h] = q]
    BY <1>1, AnsweringMoves
  <1>4. q \in Delivery /\ q.pc = "answering" /\ q.event = e
    BY <1>0, <1>2, MovedIsDelivery DEF Moved
  <1>5. /\ outcome \in Outcome
        /\ outcome = "CRM_OPTED_OUT_RECORDED" => ~Repeats(p, "OPTED_OUT", "BREVO")
    BY DEF Outcome
  <1> HIDE DEF q, outcome
  <1>6. /\ preference' \in [Person -> [state : State, by : Author] \cup {NoRow}]
        /\ history' \in [Person -> Seq(Row)] /\ HistoryIsMeaningful'
        /\ \A d \in Event : Effects(d) # {} => Effects(d)' # {}
        /\ ~Repeats(p, "OPTED_OUT", "BREVO") => Effects(e)' # {}
    <2>1. "OPTED_OUT" \in State /\ "BREVO" \in Author /\ e \in Event \cup {None}
      BY <1>4 DEF State, Author
    <2> QED BY <1>1, <1>2, <2>1, RecordKeeps DEF IInv
  <1>7. /\ receipt' \in [Event -> Outcome \cup {"none"}]
        /\ \A d \in Event \ Stamped : receipt'[d] = "none"
        /\ \A d \in Event : Known(d) => receipt'[d] = receipt[d]
        /\ \A d \in Event : receipt'[d] # receipt[d] => d = e /\ receipt'[d] = outcome
        /\ e \in Stamped => receipt'[e] # "none"
    BY <1>1, <1>4, <1>5, StoreReceiptKeeps DEF IInv
  <1>8. \A d \in Event : receipt'[d] # receipt[d] /\ receipt'[d] = "CRM_OPTED_OUT_RECORDED" =>
          Effects(d)' # {}
    BY <1>5, <1>6, <1>7
  <1> QED BY <1>3, <1>4, <1>6, <1>7, <1>8, DeliveryKeeps DEF IInv, TypeOK, brevo, counters

(* The opt-out of a preference that exists, with its receipt.               *)
LEMMA UpdateOptOutKeeps ==
  ASSUME IInv, NEW h \in Handler, UpdateOptOut(h)
  PROVE  IInv'
  <1>1. /\ request[h].pc = "resolved" /\ Cardinality(request[h].found) = 1
        /\ UNCHANGED <<carriers, clerk, brevo, counters>>
    BY DEF UpdateOptOut
  <1>2. CASE RowExists(PersonOf(h))
    BY <1>1, <1>2, OptOutKeeps DEF UpdateOptOut
  <1>3. CASE ~RowExists(PersonOf(h))
    <2> DEFINE q == Moved(h, "inserting", request[h].found)
    <2>1. request[h] \in Delivery /\ request[h].found \in SUBSET Person
      BY DEF IInv, TypeOK, Delivery
    <2>2. [request[h] EXCEPT !.pc = "inserting"] = q
      BY <2>1 DEF Delivery, Moved
    <2>3. request' = [request EXCEPT ![h] = q] /\ UNCHANGED <<evidence, receipt>>
      BY <1>3, <2>2 DEF UpdateOptOut
    <2>4. q \in Delivery /\ q.pc = "inserting" /\ q.event \in Event /\ q.found = request[h].found
      BY <1>1, <2>1, MovedIsDelivery DEF Moved
    <2> HIDE DEF q
    <2> QED BY <1>1, <2>3, <2>4, Untouched, DeliveryKeeps DEF IInv, TypeOK, brevo, counters
  <1> QED BY <1>2, <1>3

(* A delivery that ends, with an answer, an exception or a crash.           *)
LEMMA EndKeeps ==
  ASSUME IInv, NEW h \in Handler, request' = [request EXCEPT ![h] = Free],
         UNCHANGED <<evidence, receipt, carriers, clerk, writes>>, failures' \in Nat,
         due' \subseteq Event, acked' \subseteq Event,
         \A e \in acked' : e \in acked \/ (e \in Stamped => Known(e))
  PROVE  IInv'
  <1>1. Free \in Delivery /\ Free.pc = "free"
    BY DEF Free, Delivery
  <1> QED BY <1>1, Untouched, DeliveryKeeps DEF IInv, TypeOK

(* The opt-out of a Person without a preference, with its receipt.          *)
LEMMA InsertOptOutKeeps ==
  ASSUME IInv, NEW h \in Handler, InsertOptOut(h)
  PROVE  IInv'
  <1>1. /\ request[h].pc = "inserting" /\ Cardinality(request[h].found) = 1
        /\ UNCHANGED <<carriers, clerk, brevo, counters>>
    BY DEF InsertOptOut, IInv, DeliveriesAreSound
  <1>2. CASE RowExists(PersonOf(h))
    BY <1>1, <1>2, EndKeeps DEF InsertOptOut, IInv, TypeOK, brevo, counters
  <1>3. CASE ~RowExists(PersonOf(h))
    BY <1>1, <1>3, OptOutKeeps DEF InsertOptOut
  <1> QED BY <1>2, <1>3

(* The answer: only now does Brevo count the event as delivered.            *)
LEMMA AnswerKeeps ==
  ASSUME IInv, NEW h \in Handler, Answer(h)
  PROVE  IInv'
  <1>1. /\ request[h].event \in Event
        /\ request[h].event \in Stamped => Known(request[h].event)
    BY DEF Answer, IInv, DeliveriesAreSound
  <1> QED BY <1>1, EndKeeps DEF Answer, IInv, TypeOK, counters

(* The answer of a delivery that failed, which is to come again.            *)
LEMMA FailKeeps ==
  ASSUME IInv, NEW h \in Handler, Fail(h)
  PROVE  IInv'
  <1>1. /\ request' = [request EXCEPT ![h] = Free] /\ failures' = failures + 1
        /\ UNCHANGED <<evidence, receipt, carriers, clerk, brevo, writes>>
    BY DEF Fail
  <1>2. due' \subseteq Event /\ acked' \subseteq Event /\ acked' = acked /\ failures' \in Nat
    BY <1>1 DEF IInv, TypeOK, brevo
  <1>3. \A e \in acked' : e \in acked \/ (e \in Stamped => Known(e))
    BY <1>2
  <1>4. UNCHANGED <<evidence, receipt, carriers, clerk, writes>>
    BY <1>1
  <1> QED BY <1>1, <1>2, <1>3, <1>4, EndKeeps

-----------------------------------------------------------------------------
(* Every step of staff and of a delivery keeps the invariant.               *)
THEOREM NextInv == IInv /\ [Next]_vars => IInv'
  <1> SUFFICES ASSUME IInv, [Next]_vars PROVE IInv'
    OBVIOUS
  <1>1. CASE Staff
    <2>1. ASSUME NEW p \in Person, EditAddress(p) PROVE IInv'
      <3>1. carriers' \subseteq Person /\ UNCHANGED <<evidence, receipt, request, clerk, brevo, counters>>
        BY <2>1 DEF EditAddress, IInv, TypeOK
      <3>2. HistoryIsMeaningful' /\ AckedIsKept'
        BY <3>1, Unanswered DEF brevo
      <3> QED BY <3>1, <3>2 DEF IInv, TypeOK, DeliveriesAreSound, InsertsAreSound, Known, evidence,
                                brevo, counters
    <2> QED BY <1>1, <2>1, RecordPreferenceKeeps, InsertPreferenceKeeps DEF Staff
  <1>2. ASSUME NEW e \in Event, Unsubscribe(e) PROVE IInv'
    <2>1. HistoryIsMeaningful' /\ AckedIsKept'
      BY <1>2, Unanswered DEF Unsubscribe
    <2> QED BY <1>2, <2>1 DEF Unsubscribe, IInv, TypeOK, DeliveriesAreSound, InsertsAreSound, Known,
                              evidence, counters
  <1>3. ASSUME NEW e \in Event, Deliver(e) PROVE IInv'
    BY <1>3, DeliverKeeps
  <1>4. ASSUME NEW h \in Handler, Handle(h) \/ Fail(h) PROVE IInv'
    BY <1>4, ResolveKeeps, DisregardKeeps, UpdateOptOutKeeps, InsertOptOutKeeps, AnswerKeeps, FailKeeps
       DEF Handle
  <1>5. CASE UNCHANGED vars
    <2>1. HistoryIsMeaningful' /\ AckedIsKept'
      BY <1>5, Unanswered DEF vars, evidence, brevo
    <2> QED BY <1>5, <2>1 DEF vars, IInv, TypeOK, DeliveriesAreSound, InsertsAreSound, Known, evidence,
                              brevo, counters
  <1> QED BY <1>1, <1>2, <1>3, <1>4, <1>5 DEF Next

(* The invariant holds.                                                     *)
THEOREM Invariance == Spec => []IInv
  BY InitInv, NextInv, PTL DEF Spec

(* The preference of a Person is the newest row of their history, and no    *)
(* row repeats the one before it, however staff and deliveries interleave.  *)
THEOREM EvidenceIsInOrder == Spec => []HistoryIsMeaningful
  BY Invariance, PTL DEF IInv

(* What Brevo was told to be handled has its receipt, and a receipt of an   *)
(* opt-out that was recorded has its row.                                   *)
THEOREM NoOptOutIsLost == Spec => []AckedIsKept
  BY Invariance, PTL DEF IInv

-----------------------------------------------------------------------------
(* Recording a preference leaves a row of its own event, at the end, and no *)
(* row of another.                                                          *)
LEMMA RecordAdds ==
  ASSUME TypeOK, NEW p \in Person, NEW s \in State, NEW by \in Author, NEW e \in Event \cup {None},
         Record(p, s, by, e)
  PROVE  /\ \A d \in Event : d # e => Effects(d)' = Effects(d)
         /\ Effects(e)' \subseteq Effects(e) \cup {<<p, Len(history[p]) + 1>>}
  <1>1. CASE Repeats(p, s, by)
    BY <1>1 DEF Record, evidence, Effects, Rows
  <1>2. CASE ~Repeats(p, s, by)
    <2> DEFINE w == [state |-> s, by |-> by, event |-> e]
               n == Len(history[p])
    <2>1. /\ history' = [history EXCEPT ![p] = Append(@, w)] /\ history[p] \in Seq(Row)
          /\ w \in Row /\ w.event = e
      BY <1>2 DEF Record, TypeOK, Row
    <2>2. \A q \in Person : q # p => history'[q] = history[q]
      BY <2>1 DEF TypeOK
    <2>3. /\ n \in Nat /\ Len(history'[p]) = n + 1 /\ history'[p][n + 1].event = e
          /\ \A i \in 1 .. n : history'[p][i] = history[p][i]
      <3>1. history'[p] = Append(history[p], w)
        BY <2>1 DEF TypeOK
      <3> HIDE DEF w
      <3> QED BY <2>1, <3>1
    <2> HIDE DEF n, w
    <2>4. ASSUME NEW q \in Person, NEW i
          PROVE  <<q, i>> \in Rows' <=> <<q, i>> \in Rows \/ (q = p /\ i = n + 1)
      <3>1. <<q, i>> \in Rows <=> i \in 1 .. Len(history[q])
        BY DEF Rows
      <3>2. <<q, i>> \in Rows' <=> i \in 1 .. Len(history'[q])
        BY DEF Rows
      <3>3. CASE q = p
        BY <2>3, <3>1, <3>2, <3>3 DEF n
      <3>4. CASE q # p
        BY <2>2, <3>1, <3>2, <3>4
      <3> QED BY <3>3, <3>4
    <2>5. /\ \A r \in Rows : r = <<r[1], r[2]>> /\ r[1] \in Person /\ r[2] \in 1 .. Len(history[r[1]])
          /\ \A r \in Rows' : r = <<r[1], r[2]>> /\ r[1] \in Person
      BY DEF Rows
    <2>6. \A r \in Rows : r \in Rows' /\ history'[r[1]][r[2]] = history[r[1]][r[2]]
      BY <2>2, <2>3, <2>4, <2>5 DEF n
    <2>7. \A r \in Rows' : r \in Rows \/ (r = <<p, n + 1>> /\ history'[r[1]][r[2]].event = e)
      BY <2>3, <2>4, <2>5
    <2> QED BY <2>6, <2>7 DEF Effects, n
  <1> QED BY <1>1, <1>2

(* A step that leaves the evidence alone, of which a delivery goes on only  *)
(* if its event has no receipt.                                             *)
LEMMA QuietKeepsOnce ==
  ASSUME IInv, LeavesOnce, Apart', UNCHANGED <<evidence, receipt>>,
         \A h \in Handler : request'[h].pc \in {"resolved", "inserting"} =>
            \/ request[h].pc \in {"resolved", "inserting"} /\ request'[h].event = request[h].event
            \/ ~Known(request'[h].event)
  PROVE  LeavesOnce'
  <1>1. \A e \in Event : Effects(e)' = Effects(e)
    BY Untouched
  <1>2. OncePerEvent' /\ \A e \in Stamped : ~Known(e)' => Effects(e)' = {}
    BY <1>1, WebhookAssumption DEF LeavesOnce, OncePerEvent, Known
  <1>3. \A h \in Handler : request'[h].pc \in {"resolved", "inserting"} /\ request'[h].event \in Stamped =>
          ~Known(request'[h].event)
    BY DEF LeavesOnce
  <1> QED BY <1>2, <1>3 DEF LeavesOnce, Known

(* What staff records is of no event.                                       *)
LEMMA StaffKeepsOnce ==
  ASSUME IInv, LeavesOnce, Apart', NEW c \in Clerk, NEW p \in Person, NEW s \in State,
         Record(p, s, c, None), UNCHANGED <<receipt, request>>
  PROVE  LeavesOnce'
  <1>1. \A e \in Stamped : Effects(e)' = Effects(e)
    <2>1. c \in Author /\ None \in Event \cup {None} /\ \A e \in Stamped : e \in Event /\ e # None
      BY WebhookAssumption DEF Author
    <2> QED BY <2>1, RecordAdds DEF IInv
  <1>2. OncePerEvent' /\ \A e \in Stamped : ~Known(e)' => Effects(e)' = {}
    BY <1>1 DEF LeavesOnce, OncePerEvent, Known
  <1> QED BY <1>2 DEF LeavesOnce, Known

(* The delivery that is answered: of its event there was no row, and nobody *)
(* else is handling it.                                                     *)
LEMMA AnsweringKeepsOnce ==
  ASSUME IInv, LeavesOnce, Apart', NEW h \in Handler, request[h].pc \in {"resolved", "inserting"},
         Answering(h), NEW outcome \in Outcome, StoreReceipt(request[h].event, outcome),
         UNCHANGED evidence \/ \E p \in Person : Record(p, "OPTED_OUT", "BREVO", request[h].event)
  PROVE  LeavesOnce'
  <1>1. PICK e \in Event : e = request[h].event
    BY DEF IInv, DeliveriesAreSound
  <1>2. /\ \A d \in Event : d # e => Effects(d)' = Effects(d)
        /\ \E x : Effects(e)' \subseteq Effects(e) \cup {x}
    <2>1. CASE UNCHANGED evidence
      BY <1>1, <2>1, Untouched
    <2>2. ASSUME NEW p \in Person, Record(p, "OPTED_OUT", "BREVO", e)
          PROVE  /\ \A d \in Event : d # e => Effects(d)' = Effects(d)
                 /\ \E x : Effects(e)' \subseteq Effects(e) \cup {x}
      <3>1. "OPTED_OUT" \in State /\ "BREVO" \in Author /\ e \in Event \cup {None}
        BY <1>1 DEF State, Author
      <3> QED BY <2>2, <3>1, RecordAdds DEF IInv
    <2> QED BY <1>1, <2>1, <2>2
  <1>3. /\ \A d \in Event : d # e => receipt'[d] = receipt[d]
        /\ e \in Stamped => receipt'[e] # "none"
    BY <1>1, StoreReceiptKeeps DEF IInv
  <1>4. \A g \in Handler : g # h => request'[g] = request[g]
    BY DEF Answering, IInv, TypeOK
  <1>5. request'[h].pc = "answering"
    <2>1. request' = [request EXCEPT ![h] = Moved(h, "answering", request[h].found)]
      BY AnsweringMoves
    <2> QED BY <2>1 DEF IInv, TypeOK, Moved
  <1>6. ASSUME NEW d \in Stamped
        PROVE  Cardinality(Effects(d)') <= 1 /\ (receipt'[d] = "none" => Effects(d)' = {})
    <2>0. d \in Event
      BY WebhookAssumption
    <2>1. CASE d # e
      BY <1>2, <1>3, <2>0, <2>1 DEF LeavesOnce, OncePerEvent, Known
    <2>2. CASE d = e
      <3>1. Effects(e) = {}
        BY <1>1, <1>6, <2>2 DEF LeavesOnce
      <3>2. PICK x : Effects(e)' \subseteq {x}
        BY <1>2, <3>1
      <3>3. Effects(e)' = {} \/ Effects(e)' = {x}
        BY <3>2
      <3>4. Cardinality(Effects(e)') <= 1
        <4>1. Cardinality({}) = 0 /\ Cardinality({x}) = 1
          BY FS_EmptySet, FS_Singleton
        <4> QED BY <3>3, <4>1
      <3> QED BY <1>3, <1>6, <2>2, <3>4
    <2> QED BY <2>1, <2>2
  <1>7. ASSUME NEW g \in Handler, request'[g].pc \in {"resolved", "inserting"}, request'[g].event \in Stamped
        PROVE  receipt'[request'[g].event] = "none"
    <2>1. g # h /\ request'[g] = request[g]
      BY <1>4, <1>5, <1>7
    <2>2. request[g].event # e
      BY <1>1, <1>7, <2>1 DEF LeavesOnce, Apart
    <2> QED BY <1>3, <1>7, <2>1, <2>2, WebhookAssumption DEF LeavesOnce, Known
  <1> QED BY <1>6, <1>7 DEF LeavesOnce, OncePerEvent, Known

(* Every step of deliveries that are apart.                                 *)
LEMMA NextOnce == ASSUME IInv, LeavesOnce, [Next /\ Apart']_vars PROVE LeavesOnce'
  <1>1. ASSUME UNCHANGED vars PROVE LeavesOnce'
    BY <1>1, QuietKeepsOnce DEF vars, evidence, LeavesOnce, Apart
  <1>2. SUFFICES ASSUME Next, Apart' PROVE LeavesOnce'
    BY <1>1
  <1>3. ASSUME UNCHANGED <<evidence, receipt, request>> PROVE LeavesOnce'
    BY <1>2, <1>3, QuietKeepsOnce
  <1>4. ASSUME NEW c \in Clerk, NEW p \in Person, NEW s \in State, RecordPreference(c, p, s)
        PROVE  LeavesOnce'
    BY <1>2, <1>3, <1>4, StaffKeepsOnce DEF RecordPreference
  <1>5. ASSUME NEW c \in Clerk, InsertPreference(c) PROVE LeavesOnce'
    <2>1. clerk[c].person \in Person /\ clerk[c].state \in State
      BY <1>5 DEF InsertPreference, IInv, InsertsAreSound
    <2> QED BY <1>2, <1>3, <1>5, <2>1, StaffKeepsOnce DEF InsertPreference
  <1>6. ASSUME NEW p \in Person, EditAddress(p) PROVE LeavesOnce'
    BY <1>3, <1>6 DEF EditAddress
  <1>7. ASSUME NEW e \in Event, Unsubscribe(e) PROVE LeavesOnce'
    BY <1>3, <1>7 DEF Unsubscribe
  <1>8. ASSUME NEW h \in Handler, NEW q \in Delivery, request' = [request EXCEPT ![h] = q],
               UNCHANGED <<evidence, receipt>>,
               q.pc \in {"resolved", "inserting"} =>
                  \/ request[h].pc \in {"resolved", "inserting"} /\ q.event = request[h].event
                  \/ ~Known(q.event)
        PROVE  LeavesOnce'
    <2>1. \A g \in Handler : request'[g] = IF g = h THEN q ELSE request[g]
      BY <1>8 DEF IInv, TypeOK
    <2> QED BY <1>2, <1>8, <2>1, QuietKeepsOnce
  <1>9. ASSUME NEW e \in Event, Deliver(e) PROVE LeavesOnce'
    <2> DEFINE q == [pc |-> "received", event |-> e, found |-> {}]
    <2>1. PICK h \in Handler : request' = [request EXCEPT ![h] = q]
      BY <1>9 DEF Deliver
    <2>2. q \in Delivery /\ q.pc = "received"
      BY DEF Delivery
    <2>3. UNCHANGED <<evidence, receipt>>
      BY <1>9 DEF Deliver
    <2> HIDE DEF q
    <2> QED BY <1>8, <2>1, <2>2, <2>3
  <1>10. ASSUME NEW h \in Handler, Resolve(h) PROVE LeavesOnce'
    <2>1. UNCHANGED <<evidence, receipt>> /\ request[h].pc = "received" /\ carriers \in SUBSET Person
          /\ request[h].found \in SUBSET Person /\ request[h] \in Delivery
      BY <1>10 DEF Resolve, IInv, TypeOK, Delivery
    <2>2. CASE Known(request[h].event)
      <3> DEFINE q == Moved(h, "answering", request[h].found)
      <3>1. request' = [request EXCEPT ![h] = q]
        BY <1>10, <2>2, AnsweringMoves DEF Resolve
      <3>2. q \in Delivery /\ q.pc = "answering"
        BY <2>1, MovedIsDelivery DEF Moved
      <3> HIDE DEF q
      <3> QED BY <1>8, <2>1, <3>1, <3>2
    <2>3. CASE ~Known(request[h].event)
      <3> DEFINE q == Moved(h, "resolved", carriers)
      <3>1. request' = [request EXCEPT ![h] = q]
        BY <1>10, <2>1, <2>3 DEF Resolve, Found, Moved, Delivery, IInv, TypeOK
      <3>2. q \in Delivery /\ q.event = request[h].event
        BY <2>1, MovedIsDelivery DEF Moved
      <3> HIDE DEF q
      <3> QED BY <1>8, <2>1, <2>3, <3>1, <3>2
    <2> QED BY <2>2, <2>3
  <1>11. ASSUME NEW h \in Handler, Disregard(h) PROVE LeavesOnce'
    <2> DEFINE outcome == IF request[h].found = {} THEN "PERSON_NOT_FOUND" ELSE "IDENTITY_CONFLICT"
    <2>1. /\ outcome \in Outcome /\ StoreReceipt(request[h].event, outcome)
          /\ request[h].pc = "resolved" /\ Answering(h) /\ UNCHANGED evidence
      BY <1>11 DEF Disregard, Outcome
    <2> HIDE DEF outcome
    <2> QED BY <1>2, <2>1, AnsweringKeepsOnce
  <1>12. ASSUME NEW h \in Handler, request[h].pc \in {"resolved", "inserting"},
                Cardinality(request[h].found) = 1, OptOut(h)
         PROVE  LeavesOnce'
    <2>1. PICK p \in Person : p = PersonOf(h)
      BY <1>12, OnePerson DEF IInv
    <2> DEFINE outcome == IF Repeats(p, "OPTED_OUT", "BREVO") THEN "CRM_OPTED_OUT_ALREADY_RECORDED"
                                                              ELSE "CRM_OPTED_OUT_RECORDED"
    <2>2. /\ outcome \in Outcome /\ StoreReceipt(request[h].event, outcome)
          /\ Answering(h) /\ Record(p, "OPTED_OUT", "BREVO", request[h].event)
      BY <1>12, <2>1 DEF OptOut, Outcome
    <2> HIDE DEF outcome
    <2> QED BY <1>2, <1>12, <2>2, AnsweringKeepsOnce
  <1>13. ASSUME NEW h \in Handler, UpdateOptOut(h) PROVE LeavesOnce'
    <2>1. request[h].pc = "resolved" /\ Cardinality(request[h].found) = 1
      BY <1>13 DEF UpdateOptOut
    <2>2. CASE RowExists(PersonOf(h))
      BY <1>12, <1>13, <2>1, <2>2 DEF UpdateOptOut
    <2>3. CASE ~RowExists(PersonOf(h))
      <3> DEFINE q == Moved(h, "inserting", request[h].found)
      <3>1. request[h] \in Delivery /\ request[h].found \in SUBSET Person
        BY DEF IInv, TypeOK, Delivery
      <3>2. [request[h] EXCEPT !.pc = "inserting"] = q
        BY <3>1 DEF Delivery, Moved
      <3>3. request' = [request EXCEPT ![h] = q] /\ UNCHANGED <<evidence, receipt>>
        BY <1>13, <2>3, <3>2 DEF UpdateOptOut
      <3>4. q \in Delivery /\ q.event = request[h].event
        BY <2>1, <3>1, MovedIsDelivery DEF Moved
      <3> HIDE DEF q
      <3> QED BY <1>8, <2>1, <3>3, <3>4
    <2> QED BY <2>2, <2>3
  <1>14. ASSUME NEW h \in Handler, request' = [request EXCEPT ![h] = Free], UNCHANGED <<evidence, receipt>>
         PROVE  LeavesOnce'
    BY <1>8, <1>14 DEF Free, Delivery
  <1>15. ASSUME NEW h \in Handler, InsertOptOut(h) PROVE LeavesOnce'
    <2>1. request[h].pc = "inserting" /\ Cardinality(request[h].found) = 1
      BY <1>15 DEF InsertOptOut, IInv, DeliveriesAreSound
    <2> QED BY <1>12, <1>14, <1>15, <2>1 DEF InsertOptOut
  <1>16. ASSUME NEW h \in Handler, Answer(h) \/ Fail(h) PROVE LeavesOnce'
    BY <1>14, <1>16 DEF Answer, Fail
  <1> QED BY <1>2, <1>4, <1>5, <1>6, <1>7, <1>9, <1>10, <1>11, <1>13, <1>15, <1>16 DEF Next, Staff, Handle

(* No opt-out is known before the first delivery.                           *)
LEMMA InitOnce == Init => LeavesOnce
  <1> SUFFICES ASSUME Init PROVE LeavesOnce
    OBVIOUS
  <1>1. Apart /\ \A h \in Handler : request[h].pc = "free"
    BY DEF Init, Apart, Free
  <1>2. \A e \in Stamped : Effects(e) = {}
    BY DEF Init, Effects, Rows
  <1> QED BY <1>1, <1>2, FS_EmptySet DEF LeavesOnce, OncePerEvent

(* As long as Brevo repeats an event only after the delivery before it has  *)
(* ended, it changes consent at most once, whatever staff, deliveries of    *)
(* other events, crashes and lost answers come between.                     *)
THEOREM EventsCountOnce == ApartSpec => []OncePerEvent
  <1>1. ApartSpec => Spec
    BY PTL DEF ApartSpec, Spec
  <1>2. ApartSpec => []LeavesOnce
    BY <1>1, InitOnce, NextOnce, Invariance, PTL DEF ApartSpec
  <1> QED BY <1>2, PTL DEF LeavesOnce

(* The same of behaviours in which deliveries may overlap or not: where     *)
(* those of one event do not, LeavesOnce stays.                             *)
THEOREM InTurnEventsCountOnce == MCSpec => []OncePerEventInTurn
  <1>1. MCSpec => Spec
    <2>1. MCInit => Init
      BY DEF MCInit
    <2>2. [MCNext]_<<vars, serial>> => [Next]_vars
      BY DEF MCNext
    <2> QED BY <2>1, <2>2, PTL DEF MCSpec, Spec
  <1>2. MCInit => OncePerEventInTurn
    BY InitOnce DEF MCInit, OncePerEventInTurn
  <1>3. IInv /\ OncePerEventInTurn /\ [MCNext]_<<vars, serial>> => OncePerEventInTurn'
    <2> SUFFICES ASSUME IInv, OncePerEventInTurn, [MCNext]_<<vars, serial>>, serial'
                 PROVE  LeavesOnce'
      BY DEF OncePerEventInTurn
    <2>1. serial /\ [Next /\ Apart']_vars
      BY DEF MCNext
    <2> QED BY <2>1, NextOnce DEF OncePerEventInTurn
  <1> QED BY <1>1, <1>2, <1>3, Invariance, PTL DEF MCSpec
=============================================================================
