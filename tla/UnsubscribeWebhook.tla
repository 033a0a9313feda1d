-------------------------- MODULE UnsubscribeWebhook --------------------------
(***************************************************************************)
(* The inbound unsubscribe webhook (brevo_marketing.webhooks) and the      *)
(* preference service it shares with the staff API                         *)
(* (marketing_preferences.services), at the grain of their READ COMMITTED  *)
(* statements.  Brevo delivers an event until it is answered with 2xx, so  *)
(* a delivery may be repeated, even while an earlier one is being handled. *)
(*                                                                         *)
(* All events are about one e-mail address.  Which People carry it is up   *)
(* to the staff; the check against duplicates is not watertight, so there  *)
(* may be two.                                                             *)
(***************************************************************************)
EXTENDS Naturals, Sequences, FiniteSets

CONSTANTS Person, Handler,  \* the web processes' request handlers
          Clerk,            \* staff users, each with one request at a time
          Event,            \* the unsubscribe events
          Stamped,          \* those with a reliable time, hence a fingerprint
          MaxWrites,        \* bound: how many preference requests the staff makes
          MaxFailures,      \* bound: how many requests crash or stay unanswered
          None              \* stands for "no event", "no person" and "no user"

ASSUME WebhookAssumption ==
  /\ Stamped \subseteq Event
  /\ {MaxWrites, MaxFailures} \subseteq Nat
  /\ None \notin Person \cup Event \cup Clerk
  /\ IsFiniteSet(Person)

VARIABLES preference,  \* preference[p]: state and author of the MarketingPreference row
          history,     \* history[p]: its MarketingPreferenceHistory, oldest first
          receipt,     \* receipt[e]: outcome in the MarketingWebhookReceipt of e
          carriers,    \* the BUSINESS People whose primary_email is the address
          request,     \* request[h]: the delivery that h handles
          clerk,       \* clerk[c]: the preference request that c waits for
          due, acked,  \* events Brevo delivers, and those it was told to be handled
          writes, failures

vars == <<preference, history, receipt, carriers, request, clerk, due, acked, writes, failures>>
evidence == <<preference, history>>
brevo == <<due, acked>>
counters == <<writes, failures>>

State == {"OPTED_IN", "OPTED_OUT"}
Outcome == {"PERSON_NOT_FOUND", "IDENTITY_CONFLICT", "CRM_OPTED_OUT_RECORDED",
            "CRM_OPTED_OUT_ALREADY_RECORDED"}
NoRow == [state |-> "UNKNOWN", by |-> None]   \* UNKNOWN is the absence of a row
Author == Clerk \cup {"BREVO"}                \* source and actor_user
Free == [pc |-> "free", event |-> None, found |-> {}]
Quiet == [pc |-> "quiet", person |-> None, state |-> "UNKNOWN"]

Init == /\ preference = [p \in Person |-> NoRow]
        /\ history = [p \in Person |-> <<>>]
        /\ receipt = [e \in Event |-> "none"]
        /\ carriers \in SUBSET Person
        /\ request = [h \in Handler |-> Free]
        /\ clerk = [c \in Clerk |-> Quiet]
        /\ due = {} /\ acked = {}
        /\ writes = 0 /\ failures = 0

-----------------------------------------------------------------------------
(* _record_explicit_preference, once it may write: repeating the state from *)
(* the same source and user is no new evidence.                            *)
Repeats(p, state, by) == preference[p] = [state |-> state, by |-> by]

(* Mutation of Record: every request leaves a history row. *)
RecordAlways(p, state, by, e) ==
  /\ preference' = [preference EXCEPT ![p] = [state |-> state, by |-> by]]
  /\ history' = [history EXCEPT ![p] = Append(@, [state |-> state, by |-> by, event |-> e])]

Record(p, state, by, e) ==
  IF Repeats(p, state, by) THEN UNCHANGED evidence
  ELSE /\ preference' = [preference EXCEPT ![p] = [state |-> state, by |-> by]]
       /\ history' = [history EXCEPT ![p] = Append(@, [state |-> state, by |-> by, event |-> e])]

(* A writer that finds the row locks it until its commit, so that what it   *)
(* does is one step.  A writer that finds no row has nothing to lock, and   *)
(* inserts one in a later step; when another insert was first, it fails on  *)
(* the constraint marketing_preference_person_channel_unique.              *)
RowExists(p) == preference[p] # NoRow

RecordPreference(c, p, state) ==
  /\ clerk[c].pc = "quiet" /\ writes < MaxWrites
  /\ writes' = writes + 1
  /\ IF RowExists(p)
     THEN Record(p, state, c, None) /\ UNCHANGED clerk
     ELSE /\ clerk' = [clerk EXCEPT ![c] = [pc |-> "inserting", person |-> p, state |-> state]]
          /\ UNCHANGED evidence
  /\ UNCHANGED <<receipt, carriers, request, brevo, failures>>

InsertPreference(c) ==
  LET p == clerk[c].person IN
  /\ clerk[c].pc = "inserting"
  /\ IF RowExists(p) THEN UNCHANGED evidence ELSE Record(p, clerk[c].state, c, None)
  /\ clerk' = [clerk EXCEPT ![c] = Quiet]
  /\ UNCHANGED <<receipt, carriers, request, brevo, counters>>

(* A Person gets or loses the address. *)
EditAddress(p) ==
  /\ carriers' = IF p \in carriers THEN carriers \ {p} ELSE carriers \cup {p}
  /\ UNCHANGED <<evidence, receipt, request, clerk, brevo, counters>>

-----------------------------------------------------------------------------
(* Brevo: a recipient unsubscribes, and the event is delivered for as long  *)
(* as no 2xx answer has come back.                                         *)
Unsubscribe(e) ==
  /\ e \notin due \cup acked
  /\ due' = due \cup {e}
  /\ UNCHANGED <<evidence, receipt, carriers, request, clerk, acked, counters>>

Deliver(e) ==
  /\ e \in due
  /\ \E h \in Handler :
       /\ request[h].pc = "free"
       /\ request' = [request EXCEPT ![h] = [pc |-> "received", event |-> e, found |-> {}]]
  /\ UNCHANGED <<evidence, receipt, carriers, clerk, brevo, counters>>

-----------------------------------------------------------------------------
(* handle_unsubscribe_event.                                                *)
Answering(h) == request' = [request EXCEPT ![h].pc = "answering"]
Known(e) == receipt[e] # "none"

(* Mutation of StoreReceipt: an event without a fingerprint has a receipt.  *)
StoreReceiptOfAny(e, outcome) ==
  receipt' = IF ~Known(e) THEN [receipt EXCEPT ![e] = outcome] ELSE receipt

(* get_or_create on (provider, event_fingerprint): a receipt that another   *)
(* delivery has committed meanwhile is kept, and the answer is             *)
(* REPLAY_IGNORED whatever this delivery has done.                         *)
StoreReceipt(e, outcome) ==
  receipt' = IF e \in Stamped /\ ~Known(e) THEN [receipt EXCEPT ![e] = outcome] ELSE receipt

Found(h) == [request EXCEPT ![h].pc = "resolved", ![h].found = carriers]

(* Mutations of Resolve: receipts are not read; the receipt is committed at *)
(* once, before the event is handled.                                       *)
ResolveUnread(h) ==
  /\ request[h].pc = "received"
  /\ request' = Found(h)
  /\ UNCHANGED <<evidence, receipt, carriers, clerk, brevo, counters>>

ResolveEarlyReceipt(h) ==
  /\ request[h].pc = "received"
  /\ IF Known(request[h].event) THEN Answering(h) ELSE request' = Found(h)
  /\ StoreReceipt(request[h].event, "CRM_OPTED_OUT_RECORDED")
  /\ UNCHANGED <<evidence, carriers, clerk, brevo, counters>>

(* The receipt is looked for, and then the People with the address; neither *)
(* is locked: the receipt does not exist, the People may be edited.         *)
Resolve(h) ==
  /\ request[h].pc = "received"
  /\ IF Known(request[h].event) THEN Answering(h) ELSE request' = Found(h)
  /\ UNCHANGED <<evidence, receipt, carriers, clerk, brevo, counters>>

(* No Person or several: acknowledged without a change of consent.          *)
Disregard(h) ==
  /\ request[h].pc = "resolved" /\ Cardinality(request[h].found) # 1
  /\ StoreReceipt(request[h].event,
       IF request[h].found = {} THEN "PERSON_NOT_FOUND" ELSE "IDENTITY_CONFLICT")
  /\ Answering(h)
  /\ UNCHANGED <<evidence, carriers, clerk, brevo, counters>>

PersonOf(h) == CHOOSE p \in Person : request[h].found = {p}

OptOut(h) ==
  LET p == PersonOf(h) IN
  /\ Record(p, "OPTED_OUT", "BREVO", request[h].event)
  /\ StoreReceipt(request[h].event, IF Repeats(p, "OPTED_OUT", "BREVO")
                                    THEN "CRM_OPTED_OUT_ALREADY_RECORDED"
                                    ELSE "CRM_OPTED_OUT_RECORDED")
  /\ Answering(h)

UpdateOptOut(h) ==
  /\ request[h].pc = "resolved" /\ Cardinality(request[h].found) = 1
  /\ IF RowExists(PersonOf(h)) THEN OptOut(h)
     ELSE /\ request' = [request EXCEPT ![h].pc = "inserting"]
          /\ UNCHANGED <<evidence, receipt>>
  /\ UNCHANGED <<carriers, clerk, brevo, counters>>

(* The insert that comes second fails: 500, and Brevo tries again.          *)
InsertOptOut(h) ==
  /\ request[h].pc = "inserting"
  /\ IF RowExists(PersonOf(h))
     THEN /\ request' = [request EXCEPT ![h] = Free]
          /\ UNCHANGED <<evidence, receipt>>
     ELSE OptOut(h)
  /\ UNCHANGED <<carriers, clerk, brevo, counters>>

(* 200: Brevo has its answer.                                               *)
Answer(h) ==
  /\ request[h].pc = "answering"
  /\ due' = due \ {request[h].event}
  /\ acked' = acked \cup {request[h].event}
  /\ request' = [request EXCEPT ![h] = Free]
  /\ UNCHANGED <<evidence, receipt, carriers, clerk, counters>>

(* An exception (500) or a crash rolls the transaction back, or the answer  *)
(* is lost after the commit.                                               *)
Fail(h) ==
  /\ request[h].pc # "free" /\ failures < MaxFailures
  /\ failures' = failures + 1
  /\ request' = [request EXCEPT ![h] = Free]
  /\ UNCHANGED <<evidence, receipt, carriers, clerk, brevo, writes>>

-----------------------------------------------------------------------------
Handle(h) == Resolve(h) \/ Disregard(h) \/ UpdateOptOut(h) \/ InsertOptOut(h) \/ Answer(h)

Staff == \/ \E c \in Clerk : \/ InsertPreference(c)
                             \/ \E p \in Person, s \in State : RecordPreference(c, p, s)
         \/ \E p \in Person : EditAddress(p)

Next == \/ Staff
        \/ \E e \in Event : Unsubscribe(e) \/ Deliver(e)
        \/ \E h \in Handler : Handle(h) \/ Fail(h)

Spec == Init /\ [][Next]_vars

(* Brevo keeps trying, and a request that was accepted is worked on.        *)
Fairness == /\ \A e \in Event : WF_vars(Deliver(e))
                /\ \A h \in Handler : WF_vars(Handle(h))

FairSpec == Spec /\ Fairness

-----------------------------------------------------------------------------
(* Types; a receipt belongs to an event with a fingerprint.                 *)
TypeOK ==
  /\ preference \in [Person -> [state : State, by : Author] \cup {NoRow}]
  /\ history \in [Person -> Seq([state : State, by : Author, event : Event \cup {None}])]
  /\ receipt \in [Event -> Outcome \cup {"none"}]
  /\ \A e \in Event \ Stamped : receipt[e] = "none"
  /\ carriers \subseteq Person
  /\ request \in [Handler -> [pc : {"free", "received", "resolved", "inserting", "answering"},
                              event : Event \cup {None}, found : SUBSET Person]]
  /\ clerk \in [Clerk -> [pc : {"quiet", "inserting"}, person : Person \cup {None},
                          state : State \cup {"UNKNOWN"}]]
  /\ due \subseteq Event /\ acked \subseteq Event
  /\ writes \in Nat /\ failures \in Nat

(* The current preference is the newest evidence, and every history row     *)
(* tells something the row before it did not: concurrent writers, staff or  *)
(* webhook, the first one or a later one, are serialized.                   *)
HistoryIsMeaningful ==
  \A p \in Person :
    LET n == Len(history[p]) Said(i) == [state |-> history[p][i].state, by |-> history[p][i].by] IN
    /\ preference[p] = IF n = 0 THEN NoRow ELSE Said(n)
    /\ \A i \in 1..n : i > 1 => Said(i) # Said(i - 1)

(* The history rows that an event has left.                                 *)
Rows == UNION {{p} \X (1 .. Len(history[p])) : p \in Person}
Effects(e) == {r \in Rows : history[r[1]][r[2]].event = e}

(* An event with a fingerprint that Brevo was told to be handled has left   *)
(* its receipt, and one whose receipt says that the opt-out was recorded    *)
(* has left its history row: no failure between the two loses an opt-out.   *)
AckedIsKept ==
  \A e \in Stamped : /\ e \in acked => Known(e)
                     /\ receipt[e] = "CRM_OPTED_OUT_RECORDED" => Effects(e) # {}

(* "An exact repeated delivery produces REPLAY_IGNORED": an event with a    *)
(* fingerprint changes consent at most once, and so it cannot withdraw a    *)
(* consent that was given after it.                                        *)
OncePerEvent == \A e \in Stamped : Cardinality(Effects(e)) <= 1

(* Every event is answered with 2xx in the end, although the first insert   *)
(* of a preference can make a delivery fail and answers can be lost.        *)
EventuallyAcknowledged == \A e \in Event : e \in due ~> e \in acked

-----------------------------------------------------------------------------
(* A delivery that is being handled is one of an event; it inserts for one  *)
(* Person, and it answers when the receipt is there.                        *)
DeliveriesAreSound ==
  \A h \in Handler :
    /\ request[h].pc # "free" => request[h].event \in Event
    /\ request[h].pc = "inserting" => Cardinality(request[h].found) = 1
    /\ request[h].pc = "answering" /\ request[h].event \in Stamped => Known(request[h].event)

(* A clerk inserts a state of a Person.                                     *)
InsertsAreSound ==
  \A c \in Clerk : clerk[c].pc = "inserting" => clerk[c].person \in Person /\ clerk[c].state \in State

(* The inductive invariant.                                                 *)
IInv == TypeOK /\ HistoryIsMeaningful /\ AckedIsKept /\ DeliveriesAreSound /\ InsertsAreSound

(* Deliveries that overlap are of different events; all else may overlap.   *)
Apart == \A g, h \in Handler :
  request[g].pc # "free" /\ request[h].pc # "free" /\ request[g].event = request[h].event => g = h

ApartSpec == Init /\ [][Next /\ Apart']_vars

(* Then an event has left a history row only if it has left its receipt,    *)
(* and no delivery goes on that could leave another.                        *)
LeavesOnce ==
  /\ Apart /\ OncePerEvent
  /\ \A e \in Stamped : ~Known(e) => Effects(e) = {}
  /\ \A h \in Handler : request[h].pc \in {"resolved", "inserting"} /\ request[h].event \in Stamped =>
       ~Known(request[h].event)
=============================================================================
