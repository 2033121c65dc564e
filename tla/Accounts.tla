------------------------------ MODULE Accounts ------------------------------
(***************************************************************************)
(* The rows of users: created by registration, by an administrator or by   *)
(* the first login with Google, linked to a Google account, and deleted.   *)
(* Every request looks first and writes in a later statement; the unique   *)
(* keys of the table (email, phone_number, and provider with provider_id), *)
(* which deleted rows keep, decide in the end.                             *)
(***************************************************************************)
EXTENDS Naturals, Sequences

CONSTANTS
  Address,      \* e-mail addresses, as written in lower case
  Phone,
  Google,       \* Google accounts
  MailOf,       \* MailOf[g] is the address of the Google account g
  Forms,        \* ways of writing an address: "lower", "mixed"
  None,         \* null
  Client,
  MaxAccounts,  \* bound: rows ever created
  MaxSeconds    \* bound: the clock

FormsAssumption == Forms \subseteq {"lower", "mixed"} /\ "lower" \in Forms
NoneAssumption == None \notin Address \union Phone \union Google
MailAssumption == MailOf \in [Google -> Address]
BoundAssumption == MaxAccounts \in Nat /\ MaxSeconds \in Nat

VARIABLES
  accounts,  \* the table, in the order of creation
  clock,     \* seconds, as moment() formats them into a deleted e-mail
  req        \* the request each client has in flight

vars == <<accounts, clock, req>>

\* An e-mail as stored; a deletion appends the time to it, also to null.
Mail(a, form) == [address |-> a, form |-> form, stamp |-> 0]
NoMail == Mail(None, "lower")
Mails == {Mail(a, f) : a \in Address, f \in Forms} \union {NoMail}
Lower(mail) == [mail EXCEPT !.form = "lower"]

Ids == DOMAIN accounts
Live == {i \in Ids : ~accounts[i].isDeleted}

\* Who a request finds by e-mail, exactly as written, or by phone number.
ByMail(mail) == {i \in Live : mail # NoMail /\ accounts[i].email = mail}
ByPhone(phone) == {i \in Live : phone # None /\ accounts[i].phone = phone}
ByGoogle(g) == {i \in Live : accounts[i].google = g}

ClashesNoMail(i, row) == \* faulty: the e-mail is no unique key
  {j \in Ids \ {i} :
     \/ row.phone # None /\ accounts[j].phone = row.phone
     \/ row.google # None /\ accounts[j].google = row.google}
\* The rows, deleted ones too, that keep row from being written as row i.
Clashes(i, row) ==
  {j \in Ids \ {i} :
     \/ row.email # NoMail /\ accounts[j].email = row.email
     \/ row.phone # None /\ accounts[j].phone = row.phone
     \/ row.google # None /\ accounts[j].google = row.google}

Idle == [pc |-> "idle", mail |-> NoMail, phone |-> None, google |-> None,
         typed |-> NoMail, target |-> 0, seen |-> 0]

Init == accounts = <<>> /\ clock = 1 /\ req = [c \in Client |-> Idle]

AtPc(c, pc) == req[c].pc = pc
Answer(c) == req' = [req EXCEPT ![c] = Idle]
Begin(c, r) ==
  /\ AtPc(c, "idle")
  /\ req' = [req EXCEPT ![c] = [r EXCEPT !.seen = Len(accounts)]]

-----------------------------------------------------------------------------
(* register and UsersService.create *)

\* register writes addresses in lower case; a user it finds is not created.
Register(c, typed, phone) ==
  /\ typed # NoMail \/ phone # None
  /\ ByMail(Lower(typed)) \union ByPhone(phone) = {}
  /\ Begin(c, [Idle EXCEPT !.pc = "create", !.mail = Lower(typed), !.phone = phone,
                           !.typed = typed])
  /\ UNCHANGED <<accounts, clock>>

AddUserByMail(c, mail, phone) == \* faulty: does not look for the phone number
  /\ mail # NoMail \/ phone # None
  /\ ByMail(mail) = {}
  /\ Begin(c, [Idle EXCEPT !.pc = "create", !.mail = mail, !.phone = phone])
  /\ UNCHANGED <<accounts, clock>>
AddUser(c, mail, phone) ==
  /\ mail # NoMail \/ phone # None
  /\ ByMail(mail) \union ByPhone(phone) = {}
  /\ Begin(c, [Idle EXCEPT !.pc = "create", !.mail = mail, !.phone = phone])
  /\ UNCHANGED <<accounts, clock>>

-----------------------------------------------------------------------------
(* googleLogin: by Google account, else by e-mail, else a new user *)

GoogleLogin(c, g) ==
  /\ ByGoogle(g) = {}
  /\ Begin(c, [Idle EXCEPT !.pc = "byMail", !.google = g,
                           !.mail = Mail(MailOf[g], "lower")])
  /\ UNCHANGED <<accounts, clock>>

FindByMail(c) ==
  /\ AtPc(c, "byMail")
  /\ IF ByMail(req[c].mail) = {}
     THEN req' = [req EXCEPT ![c].pc = "create"]
     ELSE \E i \in ByMail(req[c].mail) :
            req' = [req EXCEPT ![c].pc = "link", ![c].target = i]
  /\ UNCHANGED <<accounts, clock>>

-----------------------------------------------------------------------------
(* The writes *)

Created(c) ==
  [email |-> req[c].mail, phone |-> req[c].phone, google |-> req[c].google,
   isDeleted |-> FALSE]
Linked(c) == [accounts[req[c].target] EXCEPT !.google = req[c].google]

\* delete: the row keeps its phone number and its Google account.
Deleted(c) ==
  [accounts[req[c].target] EXCEPT !.email.stamp = clock, !.isDeleted = TRUE]

Written(c) ==
  CASE AtPc(c, "create") -> Created(c)
    [] AtPc(c, "link") -> Linked(c)
    [] AtPc(c, "delete") -> Deleted(c)

Writing(c) ==
  \/ req[c].pc \in {"create", "link"}
  \/ AtPc(c, "delete") /\ req[c].target \in Live

\* A new row goes after the others.
Place(c) == IF AtPc(c, "create") THEN Len(accounts) + 1 ELSE req[c].target

Write(c) ==
  /\ Writing(c)
  /\ Place(c) <= MaxAccounts
  /\ Clashes(Place(c), Written(c)) = {}
  /\ accounts' = [i \in Ids \union {Place(c)} |->
                   IF i = Place(c) THEN Written(c) ELSE accounts[i]]
  /\ Answer(c)
  /\ UNCHANGED clock

\* A unique key is violated: the request is answered with an error.
WriteFails(c) ==
  /\ Writing(c)
  /\ Clashes(Place(c), Written(c)) # {}
  /\ Answer(c)
  /\ UNCHANGED <<accounts, clock>>

FindToDelete(c, i) ==
  /\ i \in Live
  /\ Begin(c, [Idle EXCEPT !.pc = "delete", !.target = i])
  /\ UNCHANGED <<accounts, clock>>

\* Somebody else has deleted the user.
DeleteFindsNothing(c) ==
  /\ AtPc(c, "delete")
  /\ ~Writing(c)
  /\ Answer(c)
  /\ UNCHANGED <<accounts, clock>>

Tick == clock < MaxSeconds /\ clock' = clock + 1 /\ UNCHANGED <<accounts, req>>

-----------------------------------------------------------------------------
Next ==
  \/ \E c \in Client :
       \/ \E mail \in Mails, phone \in Phone \union {None} :
            Register(c, mail, phone) \/ AddUser(c, mail, phone)
       \/ \E g \in Google : GoogleLogin(c, g)
       \/ FindByMail(c)
       \/ \E i \in Ids : FindToDelete(c, i)
       \/ Write(c)
       \/ WriteFails(c)
       \/ DeleteFindsNothing(c)
  \/ Tick

Spec == Init /\ [][Next]_vars

-----------------------------------------------------------------------------
Email == [address : Address \union {None}, form : Forms, stamp : Nat]
Account == [email : Email, phone : Phone \union {None},
            google : Google \union {None}, isDeleted : BOOLEAN]

TypeOK ==
  /\ accounts \in Seq(Account)
  /\ clock \in Nat
  /\ req \in [Client -> [pc : {"idle", "byMail", "create", "link", "delete"},
                         mail : Email, typed : Email, phone : Phone \union {None},
                         google : Google \union {None}, target : Nat, seen : Nat]]

(* One address has one account, whichever of registration, administrator   *)
(* and Google comes first and however their looks and writes interleave.   *)
OneAccountPerAddress ==
  \A i, j \in Live :
    i # j /\ accounts[i].email.address # None =>
      accounts[i].email.address # accounts[j].email.address

(* A request whose look found nobody in its way fails only because of a    *)
(* deleted row or of a row created since it looked: the looks check what   *)
(* the unique keys check.                                                  *)
FailuresAreExplained ==
  [][\A c \in Client : WriteFails(c) =>
       \E j \in Clashes(Place(c), Written(c)) :
         accounts[j].isDeleted \/ j > req[c].seen]_vars
=============================================================================
