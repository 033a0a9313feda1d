---------------------------- MODULE IdentityPolicy ----------------------------
(***************************************************************************)
(* people.services: when a proposed Person is taken for somebody the CRM   *)
(* already knows, and which evidence of that a reviewer confirms.  Shared  *)
(* by the People API and by the historical imports.                        *)
(*                                                                         *)
(* A table of People is a function from ids to rows that have at least the *)
(* fields type, email and mobile.  E-mail addresses are compared without   *)
(* regard to case everywhere and stand for themselves.  A mobile number is *)
(* a number and the way it is written: "plain" digits, "spaced" (spaces,   *)
(* hyphens, parentheses) or "dotted" (dots or slashes).                    *)
(***************************************************************************)
EXTENDS Naturals, FiniteSets

CONSTANT None   \* no e-mail address, no number

Written == {"plain", "spaced", "dotted"}
NoMobile == [number |-> None, written |-> "plain"]

Business(people) == {p \in DOMAIN people : people[p].type = "BUSINESS"}

(* people.services.normalize_mobile: separators other than dots and slashes *)
(* are removed.                                                            *)
CrmMobile(m) == IF m.written = "spaced" THEN [m EXCEPT !.written = "plain"] ELSE m

(* data_imports.services.normalization.normalize_mobile removes them all.   *)
ImportMobile(m) == [m EXCEPT !.written = "plain"]

SameEmail(e, f) == e # None /\ e = f
SameMobile(m, n) == m.number # None /\ CrmMobile(m) = CrmMobile(n)

-----------------------------------------------------------------------------
(* Mutation of EmailMatches: archived People are overlooked.                *)
ActiveEmailMatches(people, email) ==
  {p \in Business(people) : SameEmail(email, people[p].email) /\ ~people[p].archived}

EmailMatches(people, email) ==
  {p \in Business(people) : SameEmail(email, people[p].email)}

MobileMatches(people, mobile) ==
  {p \in Business(people) : SameMobile(mobile, people[p].mobile)}

Matches(people, email, mobile) ==
  EmailMatches(people, email) \cup MobileMatches(people, mobile)

(* find_business_duplicate_people                                           *)
DuplicatePeople(people, email, mobile, self) == Matches(people, email, mobile) \ {self}

CollisionKind == {"NO_BLOCKING", "MOBILE", "EMAIL", "EMAIL_AND_MOBILE"}

Collision(people, email, mobile) ==
  LET byEmail == EmailMatches(people, email) # {}
      byMobile == MobileMatches(people, mobile) # {}
  IN CASE byEmail /\ byMobile -> "EMAIL_AND_MOBILE"
       [] byEmail /\ ~byMobile -> "EMAIL"
       [] ~byEmail /\ byMobile -> "MOBILE"
       [] OTHER -> "NO_BLOCKING"

(* CreateNewIdentityPolicy.review_evidence: what a reviewer is shown, what  *)
(* is stored, and what is compared with the evidence of a later moment.     *)
Evidence(people, email, mobile) ==
  [collision |-> Collision(people, email, mobile),
   people |-> Matches(people, email, mobile)]

RequiresReview(evidence) == evidence.collision # "NO_BLOCKING"

(* is_safe_to_create of a decision "these are different people"             *)
SafeToCreate(evidence, confirmed) ==
  evidence.collision \in {"EMAIL", "EMAIL_AND_MOBILE"} => confirmed
=============================================================================
