----------------------------- MODULE UserProofs -----------------------------
(***************************************************************************)
(* What is kept about users, for any clients and administrators.           *)
(*                                                                         *)
(* Access period: the copies of the rule of access agree for all dates,    *)
(* and one administrator keeps the dates in order.                         *)
(*                                                                         *)
(* Accounts: the unique keys and the looks before the writes give one      *)
(* account to an address, and what a look found free is free.              *)
(*                                                                         *)
(* Roles: what is answered as assigned is held, only the empty list takes  *)
(* permissions away, and what a look found free is free.                   *)
(***************************************************************************)
EXTENDS AccessPeriod, SequenceTheorems, TLAPS

CONSTANTS
  Address, Phone, Google, MailOf, Forms, NoValue, Client,
  MaxAccounts, MaxSeconds,                               \* as in Accounts
  User, Permission, Name, InitRoles, InitHolders, RoleLists, Operations,
  MaxRoles                                               \* as in Roles

VARIABLES
  accounts, clock, areq,                   \* as in Accounts
  roles, hasRoles, own, rreq               \* as in Roles

A == INSTANCE Accounts WITH None <- NoValue, req <- areq
R == INSTANCE Roles WITH req <- rreq

\* What a request or a creation is given are dates.
LEMMA OrDate ==
  ASSUME NEW d \in Time \union {None}, NEW e \in Date
  PROVE  Or(d, e) \in Date
BY TimeAssumption DEF Or, Date

LEMMA CreatedDates ==
  ASSUME NEW given \in Given, NEW t \in Time
  PROVE  Created(given, t) \in [start : Date, end : Date]
PROOF
<1> DEFINE start == Or(given.start, t)
<1>1. start \in Nat
  BY TimeAssumption, NoneAssumption DEF Or, Given
<1>2. start + Month \in Nat
  BY <1>1, TimeAssumption, NoneAssumption
<1>3. Or(given.end, start + Month) \in Date
  BY <1>2, OrDate DEF Given, Date
<1> QED
  BY <1>1, <1>3 DEF Created, Date

LEMMA CheckedDates ==
  ASSUME TypeOK, NEW given \in Given
  PROVE  Checked(given) \in [start : Date, end : Date]
BY OrDate DEF TypeOK, Checked, Given

LEMMA InitTypeOK == Init => TypeOK
BY DEF Init, TypeOK, Nothing, Idle, Date, Given

LEMMA NextTypeOK == TypeOK /\ [Next]_vars => TypeOK'
PROOF
<1> SUFFICES ASSUME TypeOK, [Next]_vars PROVE TypeOK'
  OBVIOUS
<1>1. ASSUME NEW given \in Creation, Create(given) PROVE TypeOK'
  <2>1. Created(given, today) \in [start : Date, end : Date]
    BY CreatedDates, CreationAssumption DEF TypeOK
  <2> QED
    BY <1>1, <2>1 DEF Create, TypeOK
<1>2. ASSUME NEW a \in Admin, NEW given \in Given, Ask(a, given) PROVE TypeOK'
  BY <1>2 DEF Ask, TypeOK
<1>3. ASSUME NEW a \in Admin, Write(a) PROVE TypeOK'
  <2>1. req[a].given \in Given
    BY DEF TypeOK
  <2>2. Checked(req[a].given) \in [start : Date, end : Date]
    BY <2>1, CheckedDates
  <2>3. Idle \in [pc : {"idle", "write"}, given : Given]
    BY DEF Idle, Nothing, Given
  <2> QED
    BY <1>3, <2>2, <2>3 DEF Write, TypeOK
<1>4. ASSUME NEW a \in Admin, Remove(a) PROVE TypeOK'
  BY <1>4 DEF Remove, TypeOK, Nothing, Date
<1>5. CASE Tick
  BY <1>5 DEF Tick, TypeOK
<1>6. CASE UNCHANGED vars
  BY <1>6 DEF vars, TypeOK
<1> QED
  BY <1>1, <1>2, <1>3, <1>4, <1>5, <1>6 DEF Next

(* The shape of the user's row and of the requests. *)
THEOREM AccessTypes == Spec => []TypeOK
BY InitTypeOK, NextTypeOK, PTL DEF Spec

\* The rule of login, with strict comparisons, is that of the others.
LEMMA RulesAgree ==
  ASSUME NEW p \in [start : Date, end : Date], NEW t \in Nat
  PROVE  /\ LoginAdmits(p, t) <=> HasAccess(p, t)
         /\ HasAccess(p, t) <=> GuardAdmits(p, t)
         /\ Status(p, t) \in {"Not started", "Expired"} <=> ~HasAccess(p, t)
PROOF
<1> USE TimeAssumption, NoneAssumption DEF Date, Nothing
<1>1. LoginAdmits(p, t) <=> HasAccess(p, t)
  BY DEF LoginAdmits, HasAccess
<1>2. HasAccess(p, t) => GuardAdmits(p, t)
  BY DEF HasAccess, GuardAdmits
<1>3. ASSUME GuardAdmits(p, t) PROVE HasAccess(p, t)
  <2>1. RoleInRequest \notin {"admin", "super_admin"}
    BY NoneAssumption DEF RoleInRequest
  <2> QED
    BY <1>3, <2>1 DEF HasAccess, GuardAdmits
<1>4. Status(p, t) \in {"Not started", "Expired"} <=> ~HasAccess(p, t)
  BY DEF Status, HasAccess
<1> QED
  BY <1>1, <1>2, <1>3, <1>4

(* login, AuthGuard, checkUserAccess and the list of users admit the same  *)
(* users, for all dates and at all times.                                  *)
THEOREM AccessAgreement == Spec => []AccessAgrees
PROOF
<1>1. TypeOK => AccessAgrees
  BY RulesAgree, TimeAssumption, NoneAssumption DEF TypeOK, AccessAgrees
<1> QED
  BY <1>1, AccessTypes, PTL

-----------------------------------------------------------------------------
\* What an administrator has in flight is in order with the row.
Pending(a) == req[a].pc = "write" =>
                /\ role # None
                /\ InOrder(Checked(req[a].given).start, Checked(req[a].given).end)
OrderInv == TypeOK /\ PeriodOrdered /\ \A a \in Admin : Pending(a)

LEMMA CreatedInOrder ==
  ASSUME NEW given \in Given, NEW t \in Time,
         InOrder(given.start, given.end), given.end # None => given.start # None
  PROVE  InOrder(Created(given, t).start, Created(given, t).end)
PROOF
<1> USE TimeAssumption, NoneAssumption DEF Created, InOrder, Or, Given
<1>1. CASE given.end = None
  <2>1. Or(given.start, t) \in Nat
    OBVIOUS
  <2>2. Or(given.start, t) < Or(given.start, t) + Month
    BY <2>1
  <2> QED
    BY <1>1, <2>2
<1>2. CASE given.end # None
  BY <1>2
<1> QED
  BY <1>1, <1>2

(* "Access start date must be before end date": with one administrator at  *)
(* a time, and no user created with an end and no start, it always is.     *)
THEOREM OneAdminKeepsOrder ==
  ASSUME \A a, b \in Admin : a = b,
         \A given \in Creation : given.end # None => given.start # None
  PROVE  Spec => []PeriodOrdered
PROOF
<1>1. Init => OrderInv
  BY InitTypeOK DEF Init, OrderInv, PeriodOrdered, InOrder, Pending, Nothing, Idle
<1>2. OrderInv /\ [Next]_vars => OrderInv'
  <2> SUFFICES ASSUME OrderInv, [Next]_vars
               PROVE  PeriodOrdered' /\ \A a \in Admin : Pending(a)'
    BY NextTypeOK DEF OrderInv
  <2> USE DEF OrderInv
  <2>1. ASSUME NEW given \in Creation, Create(given)
        PROVE  PeriodOrdered' /\ \A a \in Admin : Pending(a)'
    <3>1. role = None /\ UNCHANGED req /\ period' = Created(given, today)
          /\ InOrder(given.start, given.end)
      BY <2>1 DEF Create
    <3>2. PeriodOrdered'
      BY <3>1, CreatedInOrder, CreationAssumption DEF TypeOK, PeriodOrdered
    <3>3. \A a \in Admin : req[a].pc # "write"
      BY <3>1 DEF Pending
    <3> QED
      BY <3>1, <3>2, <3>3 DEF Pending
  <2>2. ASSUME NEW a \in Admin, NEW given \in Given, Ask(a, given)
        PROVE  PeriodOrdered' /\ \A b \in Admin : Pending(b)'
    <3>1. req'[a].given = given /\ role # None
          /\ InOrder(Checked(given).start, Checked(given).end)
          /\ UNCHANGED <<period, role>>
      BY <2>2 DEF Ask, TypeOK
    <3>2. \A b \in Admin : b = a
      OBVIOUS
    <3>3. Pending(a)'
      BY <3>1 DEF Pending, Checked
    <3> QED
      BY <3>1, <3>2, <3>3 DEF PeriodOrdered
  <2>3. ASSUME NEW a \in Admin, Write(a)
        PROVE  PeriodOrdered' /\ \A b \in Admin : Pending(b)'
    <3>1. req[a].pc = "write" /\ period' = Checked(req[a].given)
          /\ req' = [req EXCEPT ![a] = Idle]
      BY <2>3 DEF Write
    <3>2. PeriodOrdered'
      BY <3>1 DEF Pending, PeriodOrdered
    <3>3. \A b \in Admin : req'[b].pc = "idle"
      BY <3>1 DEF TypeOK, Idle
    <3> QED
      BY <3>2, <3>3 DEF Pending
  <2>4. ASSUME NEW a \in Admin, Remove(a)
        PROVE  PeriodOrdered' /\ \A b \in Admin : Pending(b)'
    <3>1. req[a].pc = "idle" /\ UNCHANGED req /\ period' = Nothing
      BY <2>4 DEF Remove
    <3>2. \A b \in Admin : req'[b].pc = "idle"
      BY <3>1
    <3> QED
      BY <3>1, <3>2 DEF Pending, PeriodOrdered, InOrder, Nothing
  <2>5. CASE Tick
    BY <2>5 DEF Tick, PeriodOrdered, Pending, Checked
  <2>6. CASE UNCHANGED vars
    BY <2>6 DEF vars, PeriodOrdered, Pending, Checked
  <2> QED
    BY <2>1, <2>2, <2>3, <2>4, <2>5, <2>6 DEF Next
<1>3. OrderInv => PeriodOrdered
  BY DEF OrderInv
<1> QED
  BY <1>1, <1>2, <1>3, PTL DEF Spec

(* Both at once: every admission decision is the same one, taken on a      *)
(* period that is in order.                                                *)
THEOREM AccessStaysSound ==
  ASSUME \A a, b \in Admin : a = b,
         \A given \in Creation : given.end # None => given.start # None
  PROVE  Spec => []AccessIsSound
PROOF
<1>1. Spec => []PeriodOrdered
  BY OneAdminKeepsOrder
<1>2. Spec => []AccessAgrees
  BY AccessAgreement
<1>3. PeriodOrdered /\ AccessAgrees => AccessIsSound
  BY DEF AccessIsSound
<1> QED
  BY <1>1, <1>2, <1>3, PTL
-----------------------------------------------------------------------------
(* Accounts *)

AccountsSetting == A!FormsAssumption /\ A!NoneAssumption /\ A!MailAssumption

AccountRequest ==
  [pc : {"idle", "byMail", "create", "link", "delete"}, mail : A!Email, typed : A!Email,
   phone : Phone \union {NoValue}, google : Google \union {NoValue}, target : Nat, seen : Nat]

(* Deleted rows keep their keys: no two rows of any kind share one.        *)
KeysAreUnique ==
  \A i, j \in A!Ids : i # j =>
    /\ accounts[i].email = accounts[j].email => accounts[i].email = A!NoMail
    /\ accounts[i].phone = accounts[j].phone => accounts[i].phone = NoValue
    /\ accounts[i].google = accounts[j].google => accounts[i].google = NoValue

(* Only a deletion stamps an e-mail, and an account linked to Google has   *)
(* the address of its Google account.                                      *)
LiveIsPlain ==
  \A i \in A!Live :
    /\ accounts[i].email.stamp = 0
    /\ accounts[i].google # NoValue =>
         accounts[i].email = A!Mail(MailOf[accounts[i].google], "lower")

\* Rows seen when the look of r was made.
Seen(r) == {j \in A!Live : j <= r.seen}

(* What a request knows: a creation, that no row it saw has its address or *)
(* phone number; a link, that only its target can have its address.        *)
Informed(r) ==
  /\ r.seen <= Len(accounts)
  /\ r.mail.stamp = 0
  /\ r.google # NoValue =>
       r.mail = A!Mail(MailOf[r.google], "lower") /\ r.phone = NoValue
  /\ r.pc \in {"byMail", "link"} => r.google # NoValue
  /\ r.pc \in {"link", "delete"} => r.target \in A!Ids
  /\ r.pc = "link" =>
       \A j \in A!Live :
         IF j = r.target THEN accounts[j].email = r.mail
         ELSE j <= r.seen => accounts[j].email # r.mail
  /\ r.pc = "create" =>
       \A j \in Seen(r) :
         /\ accounts[j].email = r.mail => r.mail = A!NoMail
         /\ accounts[j].phone = r.phone => r.phone = NoValue

AccountsInv ==
  /\ A!TypeOK
  /\ clock > 0
  /\ KeysAreUnique
  /\ LiveIsPlain
  /\ \A c \in Client : Informed(areq[c])

LEMMA AccountTable ==
  ASSUME A!TypeOK
  PROVE  /\ A!Ids = 1..Len(accounts) /\ Len(accounts) \in Nat
         /\ \A i \in A!Ids : accounts[i] \in A!Account
         /\ areq \in [Client -> AccountRequest]
PROOF
<1>1. accounts \in Seq(A!Account)
  BY DEF A!TypeOK
<1>2. DOMAIN accounts = 1..Len(accounts) /\ Len(accounts) \in Nat
  BY <1>1
<1>3. areq \in [Client -> AccountRequest]
  BY DEF A!TypeOK, AccountRequest
<1> QED
  BY <1>1, <1>2, <1>3 DEF A!Ids

LEMMA AccountsInit == AccountsSetting /\ A!Init => AccountsInv
PROOF
<1> SUFFICES ASSUME AccountsSetting, A!Init PROVE AccountsInv
  OBVIOUS
<1>1. A!NoMail \in A!Email /\ A!NoMail.stamp = 0
  BY DEF AccountsSetting, A!FormsAssumption, A!NoMail, A!Mail, A!Email
<1>2. A!Idle \in AccountRequest
  BY <1>1 DEF A!Idle, AccountRequest
<1>3. accounts = << >> /\ clock = 1 /\ areq = [c \in Client |-> A!Idle]
  BY DEF A!Init
<1>4. A!Ids = {} /\ A!Live = {} /\ accounts \in Seq(A!Account) /\ Len(accounts) = 0
  BY <1>3 DEF A!Ids, A!Live
<1>5. A!TypeOK
  BY <1>2, <1>3, <1>4 DEF A!TypeOK, AccountRequest
<1>6. Informed(A!Idle)
  BY <1>1, <1>4 DEF Informed, A!Idle
<1> QED
  BY <1>3, <1>4, <1>5, <1>6 DEF AccountsInv, KeysAreUnique, LiveIsPlain

\* A step that leaves the table alone and after which the request is informed.
LEMMA AccountLook ==
  ASSUME AccountsInv, NEW c \in Client, NEW r \in AccountRequest, Informed(r),
         areq' = [areq EXCEPT ![c] = r], UNCHANGED <<accounts, clock>>
  PROVE  AccountsInv'
PROOF
<1>1. areq' \in [Client -> AccountRequest]
  BY AccountTable DEF AccountsInv
<1>2. A!TypeOK'
  BY <1>1 DEF AccountsInv, A!TypeOK, AccountRequest
<1>3. A!Ids' = A!Ids /\ A!Live' = A!Live
  BY DEF A!Ids, A!Live
<1>4. KeysAreUnique' /\ LiveIsPlain' /\ (clock > 0)'
  BY <1>3 DEF AccountsInv, KeysAreUnique, LiveIsPlain
<1>5. ASSUME NEW d \in Client PROVE Informed(areq[d])'
  <2>1. areq'[d] = IF d = c THEN r ELSE areq[d]
    BY AccountTable DEF AccountsInv
  <2>2. Informed(areq'[d])
    BY <2>1 DEF AccountsInv
  <2> QED
    BY <1>3, <2>2 DEF Informed, Seen
<1> QED
  BY <1>2, <1>4, <1>5 DEF AccountsInv

LEMMA AccountAnswer ==
  ASSUME AccountsSetting, AccountsInv, NEW c \in Client, A!Answer(c),
         UNCHANGED <<accounts, clock>>
  PROVE  AccountsInv'
PROOF
<1>1. A!NoMail \in A!Email /\ A!NoMail.stamp = 0
  BY DEF AccountsSetting, A!FormsAssumption, A!NoMail, A!Mail, A!Email
<1>2. A!Idle \in AccountRequest
  BY <1>1 DEF A!Idle, AccountRequest
<1>3. Informed(A!Idle)
  BY <1>1, AccountTable DEF AccountsInv, Informed, A!Idle
<1> QED
  BY <1>2, <1>3, AccountLook DEF A!Answer

LEMMA AccountCreationLook ==
  ASSUME AccountsSetting, AccountsInv, NEW c \in Client, NEW r \in AccountRequest,
         r.pc = "create", r.mail.stamp = 0, r.google = NoValue,
         A!ByMail(r.mail) \union A!ByPhone(r.phone) = {},
         A!Begin(c, r), UNCHANGED <<accounts, clock>>
  PROVE  AccountsInv'
PROOF
<1> DEFINE q == [r EXCEPT !.seen = Len(accounts)]
<1>1. q \in AccountRequest
  BY AccountTable DEF AccountsInv, AccountRequest
<1>2. /\ q.pc = "create" /\ q.mail = r.mail /\ q.phone = r.phone /\ q.google = NoValue
      /\ q.seen = Len(accounts)
  BY DEF AccountRequest
<1>3. \A j \in A!Live : /\ accounts[j].email = r.mail => r.mail = A!NoMail
                        /\ accounts[j].phone = r.phone => r.phone = NoValue
  BY DEF A!ByMail, A!ByPhone
<1>4. Informed(q)
  BY <1>2, <1>3, AccountTable DEF AccountsInv, Informed, Seen
<1> QED
  BY <1>1, <1>4, AccountLook DEF A!Begin

LEMMA MailTypes ==
  ASSUME AccountsSetting
  PROVE  /\ A!NoMail \in A!Email
         /\ \A mail \in A!Mails : /\ mail \in A!Email /\ A!Lower(mail) \in A!Email
                                  /\ mail.stamp = 0 /\ A!Lower(mail).stamp = 0
         /\ \A g \in Google : A!Mail(MailOf[g], "lower") \in A!Mails
BY DEF AccountsSetting, A!FormsAssumption, A!MailAssumption, A!Mails, A!NoMail, A!Mail,
       A!Email, A!Lower

\* Rows that were there before a write and are live after it were live, with the
\* same address and phone number.
OldRowsKeep ==
  \A j \in A!Live' : j <= Len(accounts) =>
    /\ j \in A!Live
    /\ accounts'[j].email = accounts[j].email
    /\ accounts'[j].phone = accounts[j].phone

LEMMA WriteTypes ==
  ASSUME AccountsSetting, AccountsInv, NEW c \in Client, A!Writing(c)
  PROVE  /\ A!Place(c) \in 1..(Len(accounts) + 1)
         /\ A!AtPc(c, "create") => A!Place(c) = Len(accounts) + 1
         /\ ~A!AtPc(c, "create") => A!Place(c) = areq[c].target /\ A!Place(c) \in A!Ids
         /\ A!Written(c) \in A!Account
PROOF
<1>1. areq[c] \in AccountRequest /\ Informed(areq[c])
  BY AccountTable DEF AccountsInv
<1>2. clock \in Nat
  BY DEF AccountsInv, A!TypeOK
<1>3. CASE areq[c].pc = "create"
  <2>1. A!Written(c) = A!Created(c) /\ A!Place(c) = Len(accounts) + 1
    BY <1>3 DEF A!Written, A!AtPc, A!Place
  <2> QED
    BY <1>1, <1>3, <2>1, AccountTable
    DEF AccountsInv, A!Created, A!Account, AccountRequest, A!AtPc
<1>4. CASE areq[c].pc = "link"
  <2>1. A!Written(c) = A!Linked(c) /\ A!Place(c) = areq[c].target
    BY <1>4 DEF A!Written, A!AtPc, A!Place
  <2>2. areq[c].target \in A!Ids
    BY <1>1, <1>4 DEF Informed
  <2>3. accounts[areq[c].target] \in A!Account
    BY <2>2, AccountTable DEF AccountsInv
  <2>4. A!Linked(c) \in A!Account
    BY <1>1, <2>3 DEF A!Linked, A!Account, AccountRequest
  <2> QED
    BY <1>4, <2>1, <2>2, <2>4, AccountTable DEF AccountsInv, A!AtPc
<1>5. CASE areq[c].pc = "delete"
  <2>1. A!Written(c) = A!Deleted(c) /\ A!Place(c) = areq[c].target
    BY <1>5 DEF A!Written, A!AtPc, A!Place
  <2>2. areq[c].target \in A!Ids
    BY <1>1, <1>5 DEF Informed
  <2>3. accounts[areq[c].target] \in A!Account
    BY <2>2, AccountTable DEF AccountsInv
  <2>4. A!Deleted(c) \in A!Account
    BY <1>2, <2>3 DEF A!Deleted, A!Account, A!Email
  <2> QED
    BY <1>5, <2>1, <2>2, <2>4, AccountTable DEF AccountsInv, A!AtPc
<1> QED
  BY <1>3, <1>4, <1>5 DEF A!Writing, A!AtPc

LEMMA WriteRows ==
  ASSUME AccountsSetting, AccountsInv, NEW c \in Client, A!Write(c)
  PROVE  /\ accounts' \in Seq(A!Account)
         /\ A!Ids \subseteq A!Ids' /\ Len(accounts) <= Len(accounts')
         /\ A!Ids' = A!Ids \union {A!Place(c)}
         /\ accounts'[A!Place(c)] = A!Written(c)
         /\ \A j \in A!Ids : j # A!Place(c) => accounts'[j] = accounts[j]
PROOF
<1> DEFINE place == A!Place(c)
<1>1. A!Writing(c) /\ accounts' = [i \in A!Ids \union {place} |->
                                    IF i = place THEN A!Written(c) ELSE accounts[i]]
  BY DEF A!Write
<1>2. /\ place \in 1..(Len(accounts) + 1) /\ A!Written(c) \in A!Account
      /\ A!Ids = 1..Len(accounts) /\ Len(accounts) \in Nat
      /\ \A i \in A!Ids : accounts[i] \in A!Account
  BY <1>1, WriteTypes, AccountTable DEF AccountsInv
<1> HIDE DEF place
<1>3. PICK n \in Nat : A!Ids \union {place} = 1..n /\ Len(accounts) <= n
  <2>1. CASE place \in A!Ids
    BY <1>2, <2>1
  <2>2. CASE place \notin A!Ids
    <3>1. place = Len(accounts) + 1
      BY <1>2, <2>2
    <3>2. A!Ids \union {place} = 1..(Len(accounts) + 1)
      BY <1>2, <3>1
    <3> QED
      BY <1>2, <3>2
  <2> QED
    BY <2>1, <2>2
<1>4. accounts' \in [1..n -> A!Account]
  BY <1>1, <1>2, <1>3
<1>5. accounts' \in Seq(A!Account) /\ Len(accounts') = n
  BY <1>4, SeqDef, LenProperties
<1>6. A!Ids' = A!Ids \union {place}
  BY <1>1, <1>3, <1>4 DEF A!Ids
<1> QED
  BY <1>1, <1>3, <1>5, <1>6 DEF place

\* A write leaves the row deleted, or with the address of the target.
LEMMA WrittenRow ==
  ASSUME AccountsSetting, AccountsInv, NEW c \in Client, A!Writing(c)
  PROVE  LET row == A!Written(c)
             place == A!Place(c)
         IN  ~row.isDeleted =>
               /\ row.email.stamp = 0
               /\ row.google # NoValue => row.email = A!Mail(MailOf[row.google], "lower")
               /\ place <= Len(accounts) =>
                    /\ place \in A!Live
                    /\ row.email = accounts[place].email /\ row.phone = accounts[place].phone
PROOF
<1>1. areq[c] \in AccountRequest /\ Informed(areq[c]) /\ LiveIsPlain
  BY AccountTable DEF AccountsInv
<1>2. Len(accounts) \in Nat /\ \A i \in A!Ids : accounts[i] \in A!Account
  BY AccountTable DEF AccountsInv
<1>3. CASE areq[c].pc = "create"
  <2>1. A!Written(c) = A!Created(c) /\ A!Place(c) = Len(accounts) + 1
    BY <1>3 DEF A!Written, A!AtPc, A!Place
  <2> QED
    BY <1>1, <1>2, <2>1 DEF A!Created, Informed
<1>4. CASE areq[c].pc = "link"
  <2> DEFINE i == areq[c].target
  <2>1. A!Written(c) = A!Linked(c) /\ A!Place(c) = i
    BY <1>4 DEF A!Written, A!AtPc, A!Place
  <2>2. i \in A!Ids /\ accounts[i] \in A!Account
    BY <1>1, <1>2, <1>4 DEF Informed
  <2>3. /\ A!Linked(c).email = accounts[i].email /\ A!Linked(c).phone = accounts[i].phone
        /\ A!Linked(c).isDeleted = accounts[i].isDeleted
        /\ A!Linked(c).google = areq[c].google
    BY <2>2 DEF A!Linked, A!Account
  <2>4. i \in A!Live => /\ accounts[i].email.stamp = 0
                        /\ accounts[i].email = A!Mail(MailOf[areq[c].google], "lower")
    BY <1>1, <1>4 DEF Informed, LiveIsPlain
  <2> QED
    BY <2>1, <2>2, <2>3, <2>4 DEF A!Live
<1>5. CASE areq[c].pc = "delete"
  <2>1. A!Written(c) = A!Deleted(c)
    BY <1>5 DEF A!Written, A!AtPc
  <2>2. accounts[areq[c].target] \in A!Account
    BY <1>1, <1>2, <1>5 DEF Informed
  <2>3. A!Deleted(c).isDeleted
    BY <2>2 DEF A!Deleted, A!Account
  <2> QED
    BY <2>1, <2>3
<1> QED
  BY <1>3, <1>4, <1>5 DEF A!Writing, A!AtPc

LEMMA WriteKeeps ==
  ASSUME AccountsSetting, AccountsInv, NEW c \in Client, A!Write(c)
  PROVE  AccountsInv'
PROOF
<1> DEFINE place == A!Place(c)
           row == A!Written(c)
<1>1. A!Writing(c) /\ A!Clashes(place, row) = {} /\ A!Answer(c) /\ clock' = clock
  BY DEF A!Write
<1>2. /\ accounts' \in Seq(A!Account)
      /\ A!Ids \subseteq A!Ids' /\ Len(accounts) <= Len(accounts')
      /\ A!Ids' = A!Ids \union {place}
      /\ accounts'[place] = row
      /\ \A j \in A!Ids : j # place => accounts'[j] = accounts[j]
  BY WriteRows
<1>3. /\ place \in Nat /\ row \in A!Account /\ A!Ids = 1..Len(accounts)
      /\ Len(accounts) \in Nat /\ Len(accounts') \in Nat
  BY <1>1, <1>2, WriteTypes, AccountTable DEF AccountsInv
<1>4. ~row.isDeleted =>
        /\ row.email.stamp = 0
        /\ row.google # NoValue => row.email = A!Mail(MailOf[row.google], "lower")
        /\ place <= Len(accounts) =>
             /\ place \in A!Live
             /\ row.email = accounts[place].email /\ row.phone = accounts[place].phone
  BY <1>1, WrittenRow
<1>5. \A j \in A!Ids \ {place} :
        /\ row.email = accounts[j].email => row.email = A!NoMail
        /\ row.phone = accounts[j].phone => row.phone = NoValue
        /\ row.google = accounts[j].google => row.google = NoValue
  BY <1>1 DEF A!Clashes
<1>6. A!Idle \in AccountRequest
  BY MailTypes DEF A!Idle, AccountRequest
<1>7. areq \in [Client -> AccountRequest] /\ areq' = [areq EXCEPT ![c] = A!Idle]
  BY <1>1, AccountTable DEF AccountsInv, A!Answer
<1> HIDE DEF place, row
<1>8. A!TypeOK'
  <2>1. areq' \in [Client -> AccountRequest]
    BY <1>6, <1>7
  <2> QED
    BY <1>1, <1>2, <2>1 DEF AccountsInv, A!TypeOK, AccountRequest
<1>9. KeysAreUnique'
  <2> SUFFICES ASSUME NEW i \in A!Ids', NEW j \in A!Ids', i # j
               PROVE  /\ accounts'[i].email = accounts'[j].email =>
                           accounts'[i].email = A!NoMail
                      /\ accounts'[i].phone = accounts'[j].phone =>
                           accounts'[i].phone = NoValue
                      /\ accounts'[i].google = accounts'[j].google =>
                           accounts'[i].google = NoValue
    BY DEF KeysAreUnique, A!NoMail, A!Mail
  <2>1. CASE i = place
    <3>1. j \in A!Ids \ {place} /\ accounts'[i] = row /\ accounts'[j] = accounts[j]
      BY <1>2, <2>1
    <3> QED
      BY <1>5, <3>1
  <2>2. CASE j = place
    <3>1. i \in A!Ids \ {place} /\ accounts'[j] = row /\ accounts'[i] = accounts[i]
      BY <1>2, <2>2
    <3> QED
      BY <1>5, <3>1
  <2>3. CASE i # place /\ j # place
    <3>1. /\ i \in A!Ids /\ accounts'[i] = accounts[i]
          /\ j \in A!Ids /\ accounts'[j] = accounts[j]
      BY <1>2, <2>3
    <3> QED
      BY <3>1 DEF AccountsInv, KeysAreUnique
  <2> QED
    BY <2>1, <2>2, <2>3
<1>10. \A j \in A!Live' : j \in A!Ids' /\ ~accounts'[j].isDeleted
  BY DEF A!Live
<1>11. \A j \in A!Ids : j # place => (j \in A!Live' <=> j \in A!Live)
  BY <1>2 DEF A!Live
<1>12. LiveIsPlain'
  <2> SUFFICES ASSUME NEW i \in A!Live'
               PROVE  /\ accounts'[i].email.stamp = 0
                      /\ accounts'[i].google # NoValue =>
                           accounts'[i].email = A!Mail(MailOf[accounts'[i].google], "lower")
    BY DEF LiveIsPlain, A!Mail
  <2>1. CASE i = place
    BY <1>2, <1>4, <1>10, <2>1
  <2>2. CASE i # place
    <3>1. i \in A!Live /\ accounts'[i] = accounts[i]
      BY <1>2, <1>10, <1>11, <2>2
    <3> QED
      BY <3>1 DEF AccountsInv, LiveIsPlain
  <2> QED
    BY <2>1, <2>2
<1>13. OldRowsKeep
  <2> SUFFICES ASSUME NEW j \in A!Live', j <= Len(accounts)
               PROVE  /\ j \in A!Live
                      /\ accounts'[j].email = accounts[j].email
                      /\ accounts'[j].phone = accounts[j].phone
    BY DEF OldRowsKeep
  <2>1. CASE j = place
    BY <1>2, <1>4, <1>10, <2>1
  <2>2. CASE j # place
    BY <1>2, <1>10, <1>11, <2>2
  <2> QED
    BY <2>1, <2>2
<1>14. ASSUME NEW d \in Client PROVE Informed(areq[d])'
  <2>1. CASE d = c
    <3>1. areq'[d] = A!Idle
      BY <1>7, <2>1
    <3>2. A!NoMail.stamp = 0
      BY DEF A!NoMail, A!Mail
    <3> QED
      BY <1>3, <3>1, <3>2 DEF Informed, A!Idle
  <2>2. CASE d # c
    <3> DEFINE r == areq[d]
    <3>1. areq'[d] = r /\ r \in AccountRequest /\ Informed(r)
      BY <1>7, <2>2 DEF AccountsInv
    <3>2. r.seen \in Nat /\ r.seen <= Len(accounts) /\ r.seen <= Len(accounts')
      BY <1>2, <1>3, <3>1 DEF Informed, AccountRequest
    <3> HIDE DEF r
    <3>3. \A j \in A!Live' : j <= r.seen => j <= Len(accounts)
      BY <1>2, <1>3, <1>10, <3>2
    <3>4. r.pc = "link" =>
            \A j \in A!Live' :
              IF j = r.target THEN accounts'[j].email = r.mail
              ELSE j <= r.seen => accounts'[j].email # r.mail
      <4> SUFFICES ASSUME r.pc = "link", NEW j \in A!Live'
                   PROVE  IF j = r.target THEN accounts'[j].email = r.mail
                          ELSE j <= r.seen => accounts'[j].email # r.mail
        OBVIOUS
      <4>1. r.target \in A!Ids
        BY <3>1 DEF Informed
      <4>2. j = r.target => j <= Len(accounts)
        BY <1>3, <4>1
      <4> QED
        BY <1>13, <3>1, <3>3, <4>2 DEF OldRowsKeep, Informed
    <3>5. r.pc = "create" =>
            \A j \in A!Live' : j <= r.seen =>
              /\ accounts'[j].email = r.mail => r.mail = A!NoMail
              /\ accounts'[j].phone = r.phone => r.phone = NoValue
      BY <1>13, <3>1, <3>3 DEF OldRowsKeep, Informed, Seen
    <3> QED
      BY <1>2, <3>1, <3>2, <3>4, <3>5 DEF Informed, Seen, A!NoMail, A!Mail
  <2> QED
    BY <2>1, <2>2
<1> QED
  BY <1>1, <1>8, <1>9, <1>12, <1>14 DEF AccountsInv

LEMMA AccountsNext == AccountsSetting /\ AccountsInv /\ [A!Next]_(A!vars) => AccountsInv'
PROOF
<1> SUFFICES ASSUME AccountsSetting, AccountsInv, [A!Next]_(A!vars) PROVE AccountsInv'
  OBVIOUS
<1> USE AccountTable DEF AccountsInv
<1>1. ASSUME NEW c \in Client, NEW mail \in A!Mails, NEW phone \in Phone \union {NoValue},
             A!Register(c, mail, phone)
      PROVE  AccountsInv'
  <2> DEFINE r == [A!Idle EXCEPT !.pc = "create", !.mail = A!Lower(mail), !.phone = phone,
                                 !.typed = mail]
  <2>1. /\ r \in AccountRequest /\ r.pc = "create" /\ r.mail.stamp = 0
        /\ r.google = NoValue /\ r.mail = A!Lower(mail) /\ r.phone = phone
    BY MailTypes DEF A!Idle, AccountRequest
  <2>2. /\ A!ByMail(A!Lower(mail)) \union A!ByPhone(phone) = {}
        /\ A!Begin(c, r) /\ UNCHANGED <<accounts, clock>>
    BY <1>1 DEF A!Register
  <2> HIDE DEF r
  <2> QED
    BY <2>1, <2>2, AccountCreationLook
<1>2. ASSUME NEW c \in Client, NEW mail \in A!Mails, NEW phone \in Phone \union {NoValue},
             A!AddUser(c, mail, phone)
      PROVE  AccountsInv'
  <2> DEFINE r == [A!Idle EXCEPT !.pc = "create", !.mail = mail, !.phone = phone]
  <2>1. /\ r \in AccountRequest /\ r.pc = "create" /\ r.mail.stamp = 0
        /\ r.google = NoValue /\ r.mail = mail /\ r.phone = phone
    BY MailTypes DEF A!Idle, AccountRequest
  <2>2. /\ A!ByMail(mail) \union A!ByPhone(phone) = {}
        /\ A!Begin(c, r) /\ UNCHANGED <<accounts, clock>>
    BY <1>2 DEF A!AddUser
  <2> HIDE DEF r
  <2> QED
    BY <2>1, <2>2, AccountCreationLook
<1>3. ASSUME NEW c \in Client, NEW g \in Google, A!GoogleLogin(c, g)
      PROVE  AccountsInv'
  <2> DEFINE r == [A!Idle EXCEPT !.pc = "byMail", !.google = g,
                                 !.mail = A!Mail(MailOf[g], "lower")]
             q == [r EXCEPT !.seen = Len(accounts)]
  <2>1. A!Mail(MailOf[g], "lower") \in A!Email /\ A!Mail(MailOf[g], "lower").stamp = 0
    BY MailTypes
  <2>2. q \in AccountRequest
    BY <2>1, MailTypes DEF A!Idle, AccountRequest
  <2>3. /\ q.pc = "byMail" /\ q.mail = A!Mail(MailOf[g], "lower") /\ q.google = g
        /\ q.phone = NoValue /\ q.seen = Len(accounts)
    BY DEF A!Idle
  <2>4. g # NoValue
    BY DEF AccountsSetting, A!NoneAssumption
  <2>5. areq' = [areq EXCEPT ![c] = q] /\ UNCHANGED <<accounts, clock>>
    BY <1>3 DEF A!GoogleLogin, A!Begin
  <2> HIDE DEF q
  <2>6. Informed(q)
    BY <2>1, <2>3, <2>4 DEF Informed
  <2> QED
    BY <2>2, <2>5, <2>6, AccountLook
<1>4. ASSUME NEW c \in Client, A!FindByMail(c)
      PROVE  AccountsInv'
  <2>1. /\ areq[c] \in AccountRequest /\ Informed(areq[c]) /\ areq[c].pc = "byMail"
        /\ UNCHANGED <<accounts, clock>>
    BY <1>4 DEF A!FindByMail, A!AtPc
  <2>2. areq[c].phone = NoValue /\ areq[c].mail.stamp = 0 /\ areq[c].google # NoValue
    BY <2>1 DEF Informed
  <2>3. CASE A!ByMail(areq[c].mail) = {}
    <3> DEFINE q == [areq[c] EXCEPT !.pc = "create"]
    <3>1. areq' = [areq EXCEPT ![c] = q]
      BY <1>4, <2>3 DEF A!FindByMail
    <3>2. /\ q \in AccountRequest /\ q.pc = "create" /\ q.mail = areq[c].mail
          /\ q.phone = NoValue /\ q.google = areq[c].google /\ q.seen = areq[c].seen
      BY <2>1, <2>2 DEF AccountRequest
    <3> HIDE DEF q
    <3>3. Informed(q)
      BY <2>1, <2>2, <2>3, <3>2 DEF Informed, Seen, A!ByMail
    <3> QED
      BY <2>1, <3>1, <3>2, <3>3, AccountLook
  <2>4. CASE A!ByMail(areq[c].mail) # {}
    <3>1. PICK i \in A!ByMail(areq[c].mail) :
            areq' = [areq EXCEPT ![c].pc = "link", ![c].target = i]
      BY <1>4, <2>4 DEF A!FindByMail
    <3> DEFINE q == [areq[c] EXCEPT !.pc = "link", !.target = i]
    <3>2. areq' = [areq EXCEPT ![c] = q]
      BY <3>1, <2>1 DEF AccountRequest
    <3>3. i \in A!Live /\ i \in A!Ids /\ i \in Nat
          /\ accounts[i].email = areq[c].mail /\ areq[c].mail # A!NoMail
      BY DEF A!ByMail, A!Live
    <3>4. /\ q \in AccountRequest /\ q.pc = "link" /\ q.mail = areq[c].mail /\ q.target = i
          /\ q.phone = NoValue /\ q.google = areq[c].google /\ q.seen = areq[c].seen
      BY <2>1, <2>2, <3>3 DEF AccountRequest
    <3> HIDE DEF q
    <3>5. \A j \in A!Live : j # i => accounts[j].email # areq[c].mail
      BY <3>3 DEF KeysAreUnique, A!Live
    <3>6. Informed(q)
      BY <2>1, <2>2, <3>3, <3>4, <3>5 DEF Informed
    <3> QED
      BY <2>1, <3>2, <3>4, <3>6, AccountLook
  <2> QED
    BY <2>3, <2>4
<1>5. ASSUME NEW c \in Client, NEW i \in A!Ids, A!FindToDelete(c, i)
      PROVE  AccountsInv'
  <2> DEFINE q == [[A!Idle EXCEPT !.pc = "delete", !.target = i] EXCEPT !.seen = Len(accounts)]
  <2>1. areq' = [areq EXCEPT ![c] = q] /\ UNCHANGED <<accounts, clock>>
    BY <1>5 DEF A!FindToDelete, A!Begin
  <2>2. /\ q \in AccountRequest /\ q.pc = "delete" /\ q.mail = A!NoMail /\ q.target = i
        /\ q.google = NoValue /\ q.seen = Len(accounts)
    <3>1. i \in Nat /\ Len(accounts) \in Nat
      BY AccountTable
    <3> QED
      BY <3>1, MailTypes DEF A!Idle, AccountRequest
  <2>3. A!NoMail.stamp = 0
    BY DEF A!NoMail, A!Mail
  <2> HIDE DEF q
  <2>4. Informed(q)
    BY <2>2, <2>3 DEF Informed
  <2> QED
    BY <2>1, <2>2, <2>4, AccountLook
<1>6. ASSUME NEW c \in Client, A!Write(c) PROVE AccountsInv'
  BY <1>6, WriteKeeps
<1>7. ASSUME NEW c \in Client, A!WriteFails(c) \/ A!DeleteFindsNothing(c)
      PROVE  AccountsInv'
  <2>1. A!Answer(c) /\ UNCHANGED <<accounts, clock>>
    BY <1>7 DEF A!WriteFails, A!DeleteFindsNothing
  <2> QED
    BY <2>1, AccountAnswer
<1>8. ASSUME UNCHANGED <<accounts, areq>>, clock' \in Nat, clock' > 0 PROVE AccountsInv'
  <2>1. A!TypeOK'
    BY <1>8 DEF A!TypeOK
  <2>2. A!Ids' = A!Ids /\ A!Live' = A!Live
    BY <1>8 DEF A!Ids, A!Live
  <2>3. KeysAreUnique' /\ LiveIsPlain'
    BY <1>8, <2>2 DEF KeysAreUnique, LiveIsPlain
  <2>4. \A c \in Client : Informed(areq[c])'
    BY <1>8, <2>2 DEF Informed, Seen
  <2> QED
    BY <1>8, <2>1, <2>3, <2>4
<1>9. CASE A!Tick
  <2>1. clock \in Nat
    BY DEF A!TypeOK
  <2> QED
    BY <1>8, <1>9, <2>1 DEF A!Tick
<1>10. CASE UNCHANGED A!vars
  <2>1. clock \in Nat
    BY DEF A!TypeOK
  <2> QED
    BY <1>8, <1>10, <2>1 DEF A!vars
<1> QED
  BY <1>1, <1>2, <1>3, <1>4, <1>5, <1>6, <1>7, <1>9, <1>10 DEF A!Next

LEMMA AccountsKeepInv ==
  ASSUME AccountsSetting
  PROVE  A!Spec => []AccountsInv
PROOF
<1>1. A!Init => AccountsInv
  BY AccountsInit
<1>2. AccountsInv /\ [A!Next]_(A!vars) => AccountsInv'
  BY AccountsNext
<1> QED
  BY <1>1, <1>2, PTL DEF A!Spec

(* The shape of the accounts, deleted ones included, and of the requests   *)
(* in flight, for any addresses, phone numbers, Google accounts, clients.  *)
THEOREM AccountsTypes == ASSUME AccountsSetting PROVE A!Spec => []A!TypeOK
PROOF
<1>1. AccountsInv => A!TypeOK
  BY DEF AccountsInv
<1> QED
  BY <1>1, AccountsKeepInv, PTL

(* Nothing but the unique keys of the table guards an address: with        *)
(* addresses in lower case, whoever registers, is added, logs in with      *)
(* Google or is deleted, no two accounts in use share one.                 *)
THEOREM AddressesAreUnique ==
  ASSUME AccountsSetting, Forms = {"lower"}
  PROVE  A!Spec => []A!OneAccountPerAddress
PROOF
<1>1. AccountsInv => A!OneAccountPerAddress
  <2> SUFFICES ASSUME AccountsInv, NEW i \in A!Live, NEW j \in A!Live, i # j,
                      accounts[i].email.address # NoValue,
                      accounts[i].email.address = accounts[j].email.address
               PROVE  FALSE
    BY DEF A!OneAccountPerAddress
  <2>1. /\ i \in A!Ids /\ accounts[i].email \in A!Email /\ accounts[i].email.stamp = 0
        /\ j \in A!Ids /\ accounts[j].email \in A!Email /\ accounts[j].email.stamp = 0
    BY AccountTable DEF AccountsInv, LiveIsPlain, A!Live, A!Account
  <2>2. accounts[i].email = accounts[j].email
    BY <2>1 DEF A!Email
  <2>3. accounts[i].email = A!NoMail
    BY <2>1, <2>2 DEF AccountsInv, KeysAreUnique
  <2> QED
    BY <2>3 DEF A!NoMail, A!Mail
<1> QED
  BY <1>1, AccountsKeepInv, PTL

(* A creation, a link or a deletion fails only because of a row that is    *)
(* deleted or was created after the request looked.                        *)
THEOREM AccountFailuresExplained ==
  ASSUME AccountsSetting
  PROVE  A!Spec => A!FailuresAreExplained
PROOF
<1>1. ASSUME AccountsInv, NEW c \in Client, A!WriteFails(c)
      PROVE  \E j \in A!Clashes(A!Place(c), A!Written(c)) :
               accounts[j].isDeleted \/ j > areq[c].seen
  <2> DEFINE r == areq[c]
             row == A!Written(c)
             place == A!Place(c)
  <2>1. A!Writing(c)
    BY <1>1 DEF A!WriteFails
  <2>2. PICK j \in A!Ids \ {place} :
           /\ j \in A!Clashes(place, row)
           /\ \/ row.email # A!NoMail /\ accounts[j].email = row.email
              \/ row.phone # NoValue /\ accounts[j].phone = row.phone
              \/ row.google # NoValue /\ accounts[j].google = row.google
    BY <1>1 DEF A!WriteFails, A!Clashes
  <2>3. /\ r \in AccountRequest /\ Informed(r) /\ r.seen \in Nat /\ j \in Nat
        /\ accounts[j] \in A!Account
    BY <1>1, AccountTable DEF AccountsInv, AccountRequest
  <2> SUFFICES ASSUME ~accounts[j].isDeleted, j <= r.seen
               PROVE  FALSE
    BY <2>2, <2>3
  <2>4. /\ j \in A!Live /\ j \in Seen(r) /\ accounts[j].email.stamp = 0
        /\ accounts[j].google # NoValue =>
             accounts[j].email = A!Mail(MailOf[accounts[j].google], "lower")
    BY <1>1 DEF A!Live, Seen, AccountsInv, LiveIsPlain
  <2>5. \A g \in Google : A!Mail(MailOf[g], "lower") # A!NoMail
    BY DEF AccountsSetting, A!NoneAssumption, A!MailAssumption, A!NoMail, A!Mail
  <2>6. CASE r.pc = "create"
    <3>1. row.email = r.mail /\ row.phone = r.phone /\ row.google = r.google
      BY <2>6 DEF A!Written, A!AtPc, A!Created
    <3>2. r.google # NoValue => r.mail # A!NoMail
      BY <2>3, <2>5 DEF Informed, AccountRequest
    <3> HIDE DEF row
    <3> QED
      BY <2>2, <2>3, <2>4, <2>6, <3>1, <3>2 DEF Informed
  <2>7. CASE r.pc = "link"
    <3> DEFINE i == r.target
    <3>1. row = A!Linked(c) /\ place = i /\ i \in A!Ids /\ accounts[i] \in A!Account
      BY <1>1, <2>3, <2>7, AccountTable
      DEF A!Written, A!AtPc, A!Place, Informed, AccountsInv
    <3>2. /\ row.email = accounts[i].email /\ row.phone = accounts[i].phone
          /\ row.google = r.google
      BY <3>1 DEF A!Linked, A!Account
    <3> HIDE DEF row, place
    <3>3. row.google # NoValue /\ accounts[j].google = row.google
      BY <1>1, <2>2, <3>1, <3>2 DEF AccountsInv, KeysAreUnique
    <3>4. accounts[j].email = r.mail
      BY <2>3, <2>4, <3>2, <3>3 DEF Informed
    <3> QED
      BY <2>2, <2>3, <2>4, <2>7, <3>1, <3>4 DEF Informed
  <2>8. CASE r.pc = "delete"
    <3> DEFINE i == r.target
    <3>1. row = A!Deleted(c) /\ place = i /\ i \in A!Ids /\ accounts[i] \in A!Account
      BY <1>1, <2>3, <2>8, AccountTable
      DEF A!Written, A!AtPc, A!Place, Informed, AccountsInv
    <3>2. accounts[i].email \in A!Email /\ clock \in Nat /\ clock > 0
      BY <1>1, <3>1 DEF A!Account, AccountsInv, A!TypeOK
    <3>3. /\ row.email.stamp = clock /\ row.phone = accounts[i].phone
          /\ row.google = accounts[i].google
      BY <3>1, <3>2 DEF A!Deleted, A!Account, A!Email
    <3> HIDE DEF row, place
    <3>4. accounts[j].email = row.email
      BY <1>1, <2>2, <3>1, <3>3 DEF AccountsInv, KeysAreUnique
    <3> QED
      BY <2>4, <3>2, <3>3, <3>4
  <2> QED
    BY <2>1, <2>6, <2>7, <2>8 DEF A!Writing, A!AtPc
<1>2. AccountsInv /\ [A!Next]_(A!vars) =>
        [\A c \in Client : A!WriteFails(c) =>
           \E j \in A!Clashes(A!Place(c), A!Written(c)) :
             accounts[j].isDeleted \/ j > areq[c].seen]_(A!vars)
  BY <1>1
<1> QED
  BY <1>2, AccountsKeepInv, PTL DEF A!Spec, A!FailuresAreExplained

-----------------------------------------------------------------------------
(* Roles *)

RolesSetting == R!RoleAssumption /\ R!HolderAssumption

RoleRequest ==
  [pc : {"idle", "create", "remove", "assign", "own", "insert"}, name : Name \union {""},
   user : User \union {""}, roles : SUBSET R!Ids, permissions : SUBSET Permission,
   known : SUBSET Permission, before : (SUBSET Nat) \union (SUBSET Permission)]

\* What roles with these ids grant.
GrantedBy(ids) == UNION {roles[i].granted : i \in ids}

(* What a request relies on: the name it looked for is that of no live     *)
(* role it saw, and what it takes as known the user has itself or from the *)
(* roles it had.                                                           *)
Relies(r) ==
  /\ r.pc = "create" =>
       /\ r.name \in Name /\ r.before \subseteq R!Ids
       /\ \A i \in r.before \intersect R!Live : roles[i].name # r.name
  /\ r.pc = "assign" => r.user \in User /\ r.roles \in RoleLists
  /\ r.pc \in {"own", "insert"} =>
       /\ r.user \in User
       /\ r.known \subseteq own[r.user] \union GrantedBy(r.roles)
  /\ r.pc = "insert" => r.before \subseteq r.known

RolesInv ==
  /\ R!TypeOK
  /\ rreq \in [Client -> RoleRequest]
  /\ \A c \in Client : Relies(rreq[c])

LEMMA IdleRole == R!Idle \in RoleRequest /\ Relies(R!Idle) /\ R!Idle.pc = "idle"
BY DEF R!Idle, RoleRequest, Relies

LEMMA RolesInit == RolesSetting /\ R!Init => RolesInv
PROOF
<1> SUFFICES ASSUME RolesSetting, R!Init PROVE RolesInv
  OBVIOUS
<1>1. /\ roles \in Seq(R!RoleRow) /\ hasRoles \in [User -> SUBSET R!Ids]
      /\ own = [u \in User |-> {}]
      /\ rreq = [c \in Client |-> R!Idle]
  BY DEF R!Init, RolesSetting, R!RoleAssumption, R!HolderAssumption, R!Ids
<1>2. rreq \in [Client -> RoleRequest] /\ \A c \in Client : rreq[c] = R!Idle
  BY <1>1, IdleRole
<1>3. R!TypeOK
  BY <1>1, <1>2 DEF R!TypeOK, R!Idle
<1> QED
  BY <1>2, <1>3, IdleRole DEF RolesInv

LEMMA RequestTypes ==
  ASSUME NEW S \in [Client -> RoleRequest], NEW c \in Client
  PROVE  /\ S[c].pc \in {"idle", "create", "remove", "assign", "own", "insert"}
         /\ S[c].roles \subseteq R!Ids /\ S[c].permissions \subseteq Permission
BY DEF RoleRequest

\* A step that only looks.
LEMMA RoleLook ==
  ASSUME RolesInv, NEW c \in Client, NEW r \in RoleRequest, Relies(r),
         R!Send(c, r), UNCHANGED <<roles, hasRoles, own>>
  PROVE  RolesInv'
PROOF
<1>1. rreq' = [rreq EXCEPT ![c] = r] /\ rreq' \in [Client -> RoleRequest]
  BY DEF RolesInv, R!Send
<1>2. R!Ids' = R!Ids /\ R!Live' = R!Live
  BY DEF R!Ids, R!Live
<1>3. RoleRequest' = RoleRequest
  BY <1>2 DEF RoleRequest
<1>4. R!TypeOK'
  BY <1>1, <1>2, RequestTypes DEF RolesInv, R!TypeOK
<1>5. \A d \in Client : Relies(rreq'[d])
  BY <1>1 DEF RolesInv
<1>6. \A d \in Client : Relies(rreq[d])'
  BY <1>2, <1>5 DEF Relies, GrantedBy
<1> QED
  BY <1>1, <1>3, <1>4, <1>6 DEF RolesInv

\* A role keeps its permissions and its name, and no deletion is undone.
RolesOnlyGrow ==
  /\ R!Ids \subseteq R!Ids'
  /\ \A i \in R!Ids :
       /\ roles'[i].granted = roles[i].granted /\ roles'[i].name = roles[i].name
       /\ roles[i].isDeleted => roles'[i].isDeleted

\* A step that answers, after which every user has at least its own permissions.
LEMMA RoleWrite ==
  ASSUME RolesInv, NEW c \in Client, R!Answer(c),
         RolesOnlyGrow, roles' \in Seq(R!RoleRow), hasRoles' \in [User -> SUBSET R!Ids],
         own' \in [User -> SUBSET Permission], \A u \in User : own[u] \subseteq own'[u]
  PROVE  RolesInv'
PROOF
<1>1. rreq' = [rreq EXCEPT ![c] = R!Idle]
  BY DEF R!Answer, R!Send
<1>2. R!Ids \subseteq R!Ids' /\ \A i \in R!Ids : i \in R!Live' => i \in R!Live
  BY DEF RolesOnlyGrow, R!Live
<1>3. RoleRequest \subseteq RoleRequest'
  BY <1>2 DEF RoleRequest
<1>4. rreq' \in [Client -> RoleRequest]
  BY <1>1, IdleRole DEF RolesInv
<1>5. (rreq \in [Client -> RoleRequest])'
  BY <1>3, <1>4
<1>6. R!TypeOK'
  <2>1. \A d \in Client :
          /\ rreq'[d].pc \in {"idle", "create", "remove", "assign", "own", "insert"}
          /\ rreq'[d].roles \subseteq R!Ids /\ rreq'[d].permissions \subseteq Permission
    BY <1>4, RequestTypes
  <2>2. hasRoles' \in [User -> SUBSET R!Ids']
    BY <1>2
  <2> QED
    BY <1>2, <2>1, <2>2 DEF R!TypeOK
<1>7. ASSUME NEW d \in Client PROVE Relies(rreq[d])'
  <2>1. PICK r \in RoleRequest : r = rreq'[d]
    BY <1>4
  <2>2. Relies(r)
    BY <1>1, <2>1, IdleRole DEF RolesInv
  <2>3. GrantedBy(r.roles) \subseteq UNION {roles'[i].granted : i \in r.roles}
    <3>1. \A i \in r.roles : roles'[i].granted = roles[i].granted
      BY DEF RolesOnlyGrow, RoleRequest
    <3> QED
      BY <3>1 DEF GrantedBy
  <2>4. Relies(r)'
    BY <1>2, <2>2, <2>3 DEF Relies, RolesOnlyGrow, GrantedBy
  <2> QED
    BY <2>1, <2>4 DEF Relies, GrantedBy
<1> QED
  BY <1>5, <1>6, <1>7 DEF RolesInv

LEMMA RolesNext == RolesInv /\ [R!Next]_(R!vars) => RolesInv'
PROOF
<1> SUFFICES ASSUME RolesInv, [R!Next]_(R!vars) PROVE RolesInv'
  OBVIOUS
<1>1. /\ roles \in Seq(R!RoleRow) /\ R!Ids = 1..Len(roles) /\ Len(roles) \in Nat
      /\ \A i \in R!Ids : roles[i] \in R!RoleRow
      /\ own \in [User -> SUBSET Permission]
      /\ hasRoles \in [User -> SUBSET R!Ids]
  BY DEF RolesInv, R!TypeOK, R!Ids
<1>2. \A c \in Client : rreq[c] \in RoleRequest /\ Relies(rreq[c])
  BY DEF RolesInv
\* A request is answered and nothing is written.
<1>3. ASSUME NEW c \in Client, R!Answer(c), UNCHANGED <<roles, hasRoles, own>>
      PROVE  RolesInv'
  BY <1>3, IdleRole, RoleLook DEF R!Answer
<1>4. ASSUME NEW c \in Client, NEW n \in Name, NEW permissions \in SUBSET Permission,
             R!Create(c, n, permissions)
      PROVE  RolesInv'
  <2> DEFINE r == [R!Idle EXCEPT !.pc = "create", !.name = n, !.permissions = permissions,
                                 !.before = R!Ids]
  <2>1. R!NotNamed(n) /\ R!Send(c, r) /\ UNCHANGED <<roles, hasRoles, own>>
    BY <1>4 DEF R!Create
  <2>2. r \in RoleRequest /\ r.pc = "create" /\ r.before = R!Ids /\ r.name = n
    <3>1. R!Ids \in SUBSET Nat
      BY <1>1
    <3> QED
      BY <3>1 DEF R!Idle, RoleRequest
  <2> HIDE DEF r
  <2>3. Relies(r)
    BY <2>1, <2>2 DEF Relies, R!NotNamed
  <2> QED
    BY <2>1, <2>2, <2>3, RoleLook
<1>5. ASSUME NEW c \in Client, R!InsertRole(c) PROVE RolesInv'
  <2> DEFINE row == [name |-> rreq[c].name, isDeleted |-> FALSE,
                     granted |-> R!PermissionsRead(rreq[c].permissions)]
  <2>1. /\ rreq[c].pc = "create" /\ R!Answer(c)
        /\ roles' = Append(roles, row) /\ UNCHANGED <<hasRoles, own>>
    BY <1>5 DEF R!InsertRole, R!AtPc
  <2>2. row \in R!RoleRow
    BY <1>2, <2>1 DEF Relies, R!RoleRow, R!PermissionsRead
  <2> HIDE DEF row
  <2>3. /\ roles' \in Seq(R!RoleRow)
        /\ R!Ids \subseteq R!Ids' /\ \A i \in R!Ids : roles'[i] = roles[i]
    BY <1>1, <2>1, <2>2 DEF R!Ids
  <2>4. RolesOnlyGrow
    BY <2>3 DEF RolesOnlyGrow
  <2> QED
    BY <1>1, <2>1, <2>3, <2>4, RoleWrite
<1>6. ASSUME NEW c \in Client, NEW i \in R!Ids, R!FindToRemove(c, i) PROVE RolesInv'
  <2> DEFINE r == [R!Idle EXCEPT !.pc = "remove", !.roles = {i}]
  <2>1. r \in RoleRequest /\ Relies(r)
    BY DEF R!Idle, RoleRequest, Relies
  <2>2. R!Send(c, r) /\ UNCHANGED <<roles, hasRoles, own>>
    BY <1>6 DEF R!FindToRemove
  <2> QED
    BY <2>1, <2>2, RoleLook
<1>7. ASSUME NEW c \in Client, R!Remove(c) PROVE RolesInv'
  <2>1. /\ R!Answer(c) /\ UNCHANGED <<hasRoles, own>>
        /\ roles' = [i \in R!Ids |-> IF i \in rreq[c].roles
                                     THEN [roles[i] EXCEPT !.isDeleted = TRUE] ELSE roles[i]]
    BY <1>7 DEF R!Remove
  <2>2. \A i \in R!Ids : /\ roles'[i] \in R!RoleRow
                         /\ roles'[i].granted = roles[i].granted
                         /\ roles'[i].name = roles[i].name
                         /\ roles[i].isDeleted => roles'[i].isDeleted
    BY <1>1, <2>1 DEF R!RoleRow
  <2>3. roles' \in [1..Len(roles) -> R!RoleRow]
    BY <1>1, <2>1, <2>2
  <2>4. roles' \in Seq(R!RoleRow)
    BY <1>1, <2>3, SeqDef
  <2>5. R!Ids' = R!Ids
    BY <1>1, <2>3 DEF R!Ids
  <2>6. RolesOnlyGrow
    BY <2>2, <2>5 DEF RolesOnlyGrow
  <2> QED
    BY <1>1, <2>1, <2>4, <2>6, RoleWrite
<1>8. ASSUME NEW c \in Client, NEW u \in User, NEW list \in RoleLists,
             R!AssignRoles(c, u, list)
      PROVE  RolesInv'
  <2> DEFINE r == [R!Idle EXCEPT !.pc = "assign", !.user = u, !.roles = list]
  <2>1. /\ list \subseteq R!Ids
        /\ R!Send(c, r) /\ UNCHANGED <<roles, hasRoles, own>>
    BY <1>8 DEF R!AssignRoles, R!Live
  <2>2. r \in RoleRequest /\ Relies(r)
    BY <2>1 DEF R!Idle, RoleRequest, Relies
  <2> QED
    BY <2>1, <2>2, RoleLook
<1>9. ASSUME NEW c \in Client, R!WriteRoles(c) PROVE RolesInv'
  <2>1. rreq[c].pc = "assign" /\ rreq[c].user \in User /\ rreq[c].roles \in RoleLists
    BY <1>2, <1>9 DEF R!WriteRoles, R!AtPc, Relies
  <2>2. R!Answer(c) /\ UNCHANGED <<roles, own>>
    BY <1>9 DEF R!WriteRoles
  <2>3. hasRoles' \in [User -> SUBSET R!Ids]
    BY <1>1, <1>2, <1>9, <2>1 DEF R!WriteRoles, RoleRequest
  <2>4. RolesOnlyGrow
    BY <2>2 DEF RolesOnlyGrow, R!Ids
  <2> QED
    BY <1>1, <2>2, <2>3, <2>4, RoleWrite
<1>10. ASSUME NEW c \in Client, NEW u \in User, NEW permissions \in SUBSET Permission,
              R!AssignPermissions(c, u, permissions)
       PROVE  RolesInv'
  <2> DEFINE r == [R!Idle EXCEPT !.pc = "own", !.user = u, !.permissions = permissions,
                                 !.roles = hasRoles[u], !.known = R!RolePermissions(u)]
  <2>1. R!Send(c, r) /\ UNCHANGED <<roles, hasRoles, own>>
    BY <1>10 DEF R!AssignPermissions
  <2>2. R!RolePermissions(u) \subseteq Permission
    BY <1>1 DEF R!RolePermissions, R!RoleRow
  <2>3. /\ r \in RoleRequest /\ r.pc = "own" /\ r.user = u
        /\ r.roles = hasRoles[u] /\ r.known = R!RolePermissions(u)
    BY <1>1, <2>2 DEF R!Idle, RoleRequest
  <2> HIDE DEF r
  <2>4. Relies(r)
    BY <2>3 DEF Relies, R!RolePermissions, GrantedBy
  <2> QED
    BY <2>1, <2>3, <2>4, RoleLook
<1>11. ASSUME NEW c \in Client, R!ReadOwn(c) PROVE RolesInv'
  <2> DEFINE u == rreq[c].user
             r == [rreq[c] EXCEPT !.pc = "insert", !.known = @ \union own[u],
                                  !.before = own[u]]
  <2>1. /\ rreq[c].pc = "own" /\ R!Send(c, r)
        /\ UNCHANGED <<roles, hasRoles, own>>
    BY <1>11 DEF R!ReadOwn, R!AtPc
  <2>2. /\ u \in User /\ own[u] \subseteq Permission /\ rreq[c] \in RoleRequest
        /\ rreq[c].known \subseteq own[u] \union GrantedBy(rreq[c].roles)
    BY <1>1, <1>2, <2>1 DEF Relies
  <2>3. /\ r \in RoleRequest /\ r.pc = "insert" /\ r.user = u
        /\ r.known = rreq[c].known \union own[u] /\ r.before = own[u]
        /\ r.roles = rreq[c].roles
    BY <2>2 DEF RoleRequest
  <2> HIDE DEF r
  <2>4. Relies(r)
    BY <2>2, <2>3 DEF Relies
  <2> QED
    BY <2>1, <2>3, <2>4, RoleLook
<1>12. ASSUME NEW c \in Client, R!InsertPermissions(c) PROVE RolesInv'
  <2> DEFINE u == rreq[c].user
             missing == rreq[c].permissions \ rreq[c].known
  <2>1. /\ rreq[c].pc = "insert" /\ R!Answer(c) /\ UNCHANGED <<roles, hasRoles>>
        /\ own' = [own EXCEPT ![u] = @ \union missing]
    BY <1>12 DEF R!InsertPermissions, R!AtPc, R!Missing
  <2>2. u \in User /\ rreq[c].permissions \subseteq Permission
    BY <1>2, <2>1 DEF Relies, RoleRequest
  <2>3. own' \in [User -> SUBSET Permission] /\ \A v \in User : own[v] \subseteq own'[v]
    BY <1>1, <2>1, <2>2
  <2>4. RolesOnlyGrow /\ roles' \in Seq(R!RoleRow)
    BY <1>1, <2>1 DEF RolesOnlyGrow, R!Ids
  <2> QED
    BY <1>1, <2>1, <2>3, <2>4, RoleWrite
<1>13. ASSUME NEW c \in Client, R!InsertRoleFails(c) \/ R!InsertPermissionsFails(c)
       PROVE  RolesInv'
  BY <1>3, <1>13 DEF R!InsertRoleFails, R!InsertPermissionsFails
<1>14. CASE UNCHANGED R!vars
  <2>1. UNCHANGED <<roles, hasRoles, own, rreq>>
    BY <1>14 DEF R!vars
  <2>2. R!Ids' = R!Ids /\ R!Live' = R!Live
    BY <2>1 DEF R!Ids, R!Live
  <2>3. RoleRequest' = RoleRequest
    BY <2>2 DEF RoleRequest
  <2>4. R!TypeOK'
    BY <2>1, <2>2 DEF RolesInv, R!TypeOK
  <2>5. \A d \in Client : Relies(rreq[d])'
    BY <1>2, <2>1, <2>2 DEF Relies, GrantedBy
  <2> QED
    BY <2>1, <2>3, <2>4, <2>5 DEF RolesInv
<1> QED
  BY <1>4, <1>5, <1>6, <1>7, <1>8, <1>9, <1>10, <1>11, <1>12, <1>13, <1>14 DEF R!Next

LEMMA RolesKeepInv ==
  ASSUME RolesSetting
  PROVE  R!Spec => []RolesInv
PROOF
<1>1. R!Init => RolesInv
  BY RolesInit
<1>2. RolesInv /\ [R!Next]_(R!vars) => RolesInv'
  BY RolesNext
<1> QED
  BY <1>1, <1>2, PTL DEF R!Spec

(* The shape of the roles, the users' permissions and the requests in      *)
(* flight, for any roles, permissions and clients.                         *)
THEOREM RolesTypes == ASSUME RolesSetting PROVE R!Spec => []R!TypeOK
PROOF
<1>1. RolesInv => R!TypeOK
  BY DEF RolesInv
<1> QED
  BY <1>1, RolesKeepInv, PTL

(* assignPermissionToUser stores only what no role of the user gave it,    *)
(* and yet leaves the user with everything it was asked for: roles keep    *)
(* what they grant, deleted ones too.  The user's roles are those that     *)
(* were read; the empty list of roles may have taken them away since.      *)
THEOREM AssignedPermissionsHeld ==
  ASSUME RolesSetting
  PROVE  R!Spec => R!AssignedIsHeld
PROOF
<1>1. ASSUME RolesInv, NEW c \in Client, NEW u \in User, R!InsertPermissions(c),
             rreq[c].user = u, rreq[c].roles = hasRoles[u]
      PROVE  rreq[c].permissions \subseteq R!UserPermissions(u)'
  <2>1. /\ own'[u] = own[u] \union (rreq[c].permissions \ rreq[c].known)
        /\ UNCHANGED <<roles, hasRoles>>
    BY <1>1 DEF R!InsertPermissions, R!Missing, RolesInv, R!TypeOK
  <2>2. rreq[c].known \subseteq own[u] \union GrantedBy(hasRoles[u])
    BY <1>1 DEF RolesInv, Relies, R!InsertPermissions, R!AtPc
  <2>3. R!UserPermissions(u)' = GrantedBy(hasRoles[u]) \union own'[u]
    BY <2>1 DEF R!UserPermissions, R!RolePermissions, GrantedBy
  <2> QED
    BY <2>1, <2>2, <2>3
<1>2. RolesInv /\ [R!Next]_(R!vars) =>
        [\A c \in Client, u \in User :
           R!InsertPermissions(c) /\ rreq[c].user = u /\ rreq[c].roles = hasRoles[u] =>
             rreq[c].permissions \subseteq R!UserPermissions(u)']_(R!vars)
  BY <1>1
<1> QED
  BY <1>2, RolesKeepInv, PTL DEF R!Spec, R!AssignedIsHeld

\* Every step but the acceptance of the empty list leaves users what they have.
LEMMA RolesStep ==
  ASSUME RolesInv, [R!Next]_(R!vars), NEW u \in User,
         ~\E c \in Client : R!WriteRoles(c) /\ rreq[c].user = u /\ rreq[c].roles = {}
  PROVE  R!UserPermissions(u) \subseteq R!UserPermissions(u)'
PROOF
<1>1. /\ roles \in Seq(R!RoleRow) /\ R!Ids = 1..Len(roles) /\ Len(roles) \in Nat
      /\ hasRoles \in [User -> SUBSET R!Ids] /\ own \in [User -> SUBSET Permission]
  BY DEF RolesInv, R!TypeOK, R!Ids
<1>2. SUFFICES /\ hasRoles'[u] = hasRoles[u] /\ own[u] \subseteq own'[u]
               /\ \A i \in R!Ids : roles'[i].granted = roles[i].granted
  <2>1. hasRoles[u] \subseteq R!Ids
    BY <1>1
  <2>2. ASSUME NEW i \in hasRoles[u], roles'[i].granted = roles[i].granted,
               hasRoles'[u] = hasRoles[u]
        PROVE  roles[i].granted \subseteq R!RolePermissions(u)'
    BY <2>2 DEF R!RolePermissions
  <2> QED
    BY <2>1, <2>2 DEF R!UserPermissions, R!RolePermissions
<1>3. CASE UNCHANGED <<roles, hasRoles, own>>
  BY <1>3
<1>4. ASSUME NEW c \in Client, R!InsertRole(c)
      PROVE  /\ hasRoles' = hasRoles /\ own' = own
             /\ \A i \in R!Ids : roles'[i].granted = roles[i].granted
  BY <1>1, <1>4 DEF R!InsertRole
<1>5. ASSUME NEW c \in Client, R!Remove(c)
      PROVE  /\ hasRoles' = hasRoles /\ own' = own
             /\ \A i \in R!Ids : roles'[i].granted = roles[i].granted
  BY <1>1, <1>5 DEF R!Remove, R!RoleRow
<1>6. ASSUME NEW c \in Client, R!WriteRoles(c)
      PROVE  UNCHANGED <<roles, own>> /\ hasRoles'[u] = hasRoles[u]
  BY <1>1, <1>6 DEF R!WriteRoles, R!AssignRolesAccepted
<1>7. ASSUME NEW c \in Client, R!InsertPermissions(c)
      PROVE  UNCHANGED <<roles, hasRoles>> /\ own[u] \subseteq own'[u]
  BY <1>1, <1>7 DEF R!InsertPermissions
<1> QED
  BY <1>3, <1>4, <1>5, <1>6, <1>7
     DEF R!Next, R!vars, R!Create, R!InsertRoleFails, R!FindToRemove, R!AssignRoles,
         R!AssignPermissions, R!ReadOwn, R!InsertPermissionsFails

(* What userHasPermissions grants it goes on granting, whatever roles are  *)
(* created, deleted or refused, until the empty list of roles is assigned. *)
THEOREM PermissionsStay ==
  ASSUME RolesSetting
  PROVE  R!Spec => R!OnlyEmptyListTakes
PROOF
<1>1. RolesInv /\ [R!Next]_(R!vars) =>
        [\A u \in User, permissions \in SUBSET Permission :
           R!UserHasPermissions(u, permissions) =>
             \/ R!UserHasPermissions(u, permissions)'
             \/ \E c \in Client :
                  R!WriteRoles(c) /\ rreq[c].user = u /\ rreq[c].roles = {}]_(R!vars)
  BY RolesStep DEF R!UserHasPermissions
<1> QED
  BY <1>1, RolesKeepInv, PTL DEF R!Spec, R!OnlyEmptyListTakes

(* An assignment fails only because of a row created after it looked, a    *)
(* creation also because of the name of a deleted role.                    *)
THEOREM RoleFailuresExplained ==
  ASSUME RolesSetting
  PROVE  R!Spec => R!FailuresAreExplained
PROOF
<1>1. ASSUME RolesInv, NEW c \in Client, R!InsertPermissionsFails(c)
      PROVE  ~(own[rreq[c].user] \subseteq rreq[c].before)
  <2>1. rreq[c].before \subseteq rreq[c].known
    BY <1>1 DEF RolesInv, Relies, R!InsertPermissionsFails, R!AtPc
  <2> QED
    BY <1>1, <2>1 DEF R!InsertPermissionsFails, R!Missing
<1>2. ASSUME RolesInv, NEW c \in Client, R!InsertRoleFails(c)
      PROVE  \E i \in R!NameTaken(rreq[c].name) : i \notin rreq[c].before \/ roles[i].isDeleted
  <2>1. \A i \in rreq[c].before \intersect R!Live : roles[i].name # rreq[c].name
    BY <1>2 DEF RolesInv, Relies, R!InsertRoleFails, R!AtPc
  <2> QED
    BY <1>2, <2>1 DEF R!InsertRoleFails, R!NameTaken, R!Live
<1>3. RolesInv /\ [R!Next]_(R!vars) =>
        [\A c \in Client :
           /\ R!InsertPermissionsFails(c) => ~(own[rreq[c].user] \subseteq rreq[c].before)
           /\ R!InsertRoleFails(c) =>
                \E r \in R!NameTaken(rreq[c].name) :
                  r \notin rreq[c].before \/ roles[r].isDeleted]_(R!vars)
  BY <1>1, <1>2
<1> QED
  BY <1>3, RolesKeepInv, PTL DEF R!Spec, R!FailuresAreExplained
=============================================================================
