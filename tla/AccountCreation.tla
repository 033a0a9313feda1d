--------------------------- MODULE AccountCreation ---------------------------
(***************************************************************************)
(* accounts: the createsuperuser command.  It looks whether the address is *)
(* taken, then inserts a TECHNICAL Person and, in another transaction, the *)
(* account that is linked to it.  Addresses are compared as they are       *)
(* stored: trimmed and in lower case.                                      *)
(***************************************************************************)
EXTENDS Naturals, FiniteSets, Sequences

CONSTANTS Run,        \* runs of the command
          Spelling,   \* addresses as they can be entered
          Normal(_),  \* normalize_email_address
          MaxPeople   \* bound: People inserted

CreationAssumption ==
  /\ MaxPeople \in Nat
  /\ \A s \in Spelling : Normal(s) \in Spelling /\ Normal(Normal(s)) = Normal(s)

VARIABLES people,    \* the Persons inserted, by number: their primary_email
          accounts,  \* the Users: address and number of the Person
          run        \* what each run is doing

vars == <<people, accounts, run>>

Idle == [step |-> "idle"]

Init == people = <<>> /\ accounts = {} /\ run = [r \in Run |-> Idle]

-----------------------------------------------------------------------------
(* get_by_natural_key, and the unique constraint of User.email.             *)
Taken(s) == \E a \in accounts : a.email = s

(* Command.handle up to the write: the address is free; without a terminal  *)
(* every value must be given, on a terminal each prompt repeats until it is.*)
Enter(r, s) ==
  /\ run[r] = Idle
  /\ ~Taken(Normal(s))
  /\ run' = [run EXCEPT ![r] = [step |-> "person", email |-> s]]
  /\ UNCHANGED <<people, accounts>>

(* Mutation of CreatePerson: the Person gets the address as it was entered. *)
CreatePersonAsEntered(r) ==
  /\ run[r].step = "person" /\ Len(people) < MaxPeople
  /\ people' = Append(people, run[r].email)
  /\ run' = [run EXCEPT ![r] = [step |-> "user", email |-> run[r].email, person |-> Len(people) + 1]]
  /\ UNCHANGED accounts

(* UserManager._create_user: Person.objects.create.                         *)
CreatePerson(r) ==
  /\ run[r].step = "person" /\ Len(people) < MaxPeople
  /\ people' = Append(people, Normal(run[r].email))
  /\ run' = [run EXCEPT ![r] = [step |-> "user", email |-> run[r].email, person |-> Len(people) + 1]]
  /\ UNCHANGED accounts

(* User.save: a duplicate address is an IntegrityError, and the Person stays*)
(* behind.                                                                  *)
SaveUser(r) ==
  /\ run[r].step = "user"
  /\ run' = [run EXCEPT ![r] = Idle]
  /\ LET email == Normal(run[r].email)
     IN  accounts' = IF Taken(email) THEN accounts
                     ELSE accounts \cup {[email |-> email, person |-> run[r].person]}
  /\ UNCHANGED people

(* Ctrl-C, or the command dies.                                             *)
Abandon(r) ==
  /\ run[r] # Idle
  /\ run' = [run EXCEPT ![r] = Idle]
  /\ UNCHANGED <<people, accounts>>

Next ==
  \E r \in Run : \/ \E s \in Spelling : Enter(r, s)
                 \/ CreatePerson(r) \/ SaveUser(r) \/ Abandon(r)

Spec == Init /\ [][Next]_vars

-----------------------------------------------------------------------------
TypeOK ==
  /\ people \in Seq(Spelling) /\ Len(people) <= MaxPeople
  /\ accounts \subseteq [email : Spelling, person : 1 .. Len(people)]
  /\ run \in [Run -> {Idle} \cup [step : {"person"}, email : Spelling]
                \cup [step : {"user"}, email : Spelling, person : 1 .. MaxPeople]]

(* Two spellings of one address never become two accounts, also when two    *)
(* runs find it free at once (models.py:78, createsuperuser.py:63).         *)
OneAccountPerAddress ==
  \A a, b \in accounts : Normal(a.email) = Normal(b.email) => a = b

(* Every account has a Person of its own, which carries its address         *)
(* (models.py:39-47).                                                       *)
AccountsMatchPeople ==
  /\ \A a \in accounts : people[a.person] = Normal(a.email)
  /\ \A a, b \in accounts : a.person = b.person => a = b

(* What they rest on: accounts carry their address as it is compared, and a *)
(* run that is about to insert an account has a Person that nobody else has.*)
AddressesAreNormal ==
  /\ \A a \in accounts : Normal(a.email) = a.email
  /\ \A a, b \in accounts : a.email = b.email => a = b

PeopleAreReserved ==
  \A r \in Run : run[r].step = "user" =>
    /\ run[r].person \in 1 .. Len(people) /\ people[run[r].person] = Normal(run[r].email)
    /\ \A a \in accounts : a.person # run[r].person
    /\ \A q \in Run \ {r} : run[q].step = "user" => run[q].person # run[r].person

(* The inductive invariant.                                                 *)
IInv == TypeOK /\ AddressesAreNormal /\ PeopleAreReserved /\ AccountsMatchPeople
=============================================================================
