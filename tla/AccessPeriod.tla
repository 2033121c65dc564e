---------------------------- MODULE AccessPeriod ----------------------------
(***************************************************************************)
(* The period in which a user has access: set when the user is created,    *)
(* changed by administrators (setUserAccessPeriod, updateUserAccessPeriod, *)
(* removeUserAccessPeriod, whose routes are commented out at present), and *)
(* read by three copies of one rule: login, AuthGuard and checkUserAccess. *)
(* An administrator's request reads the user, checks, and writes only what *)
(* it was given.                                                           *)
(***************************************************************************)
EXTENDS Naturals

CONSTANTS
  Time,       \* the values of the clock and of the dates
  None,       \* no date: null in the row, undefined in a request
  Month,      \* the period given by default
  Admin,
  Creation,   \* the dates given to create: [start, end]
  Role        \* roles of the user

ASSUME TimeAssumption == Time \subseteq Nat /\ Month \in Nat \ {0}
ASSUME NoneAssumption == None \notin Nat /\ None \notin {"admin", "super_admin"}

Date == Nat \union {None}
Given == [start : Time \union {None}, end : Time \union {None}]
ASSUME CreationAssumption == Creation \subseteq Given

VARIABLES
  today,
  period,   \* accessStartAt and accessEndAt of the user
  role,     \* None before the user is created
  req       \* what each administrator has in flight

vars == <<today, period, role, req>>

Nothing == [start |-> None, end |-> None]
Idle == [pc |-> "idle", given |-> Nothing]
Or(date, other) == IF date = None THEN other ELSE date

\* A refusal needs two dates; an absent one compares as false.
InOrder(start, end) == start # None /\ end # None => start < end

-----------------------------------------------------------------------------
(* Reading the period *)

\* login refuses before the start and after the end.
LoginAdmitsStrictly(p, t) == \* faulty: refuses at the end itself
  ~(p.start # None /\ p.start > t) /\ ~(p.end # None /\ p.end <= t)
LoginAdmits(p, t) ==
  ~(p.start # None /\ p.start > t) /\ ~(p.end # None /\ p.end < t)

\* checkUserAccess.
HasAccess(p, t) ==
  \/ p = Nothing
  \/ (p.start = None \/ t >= p.start) /\ (p.end = None \/ t <= p.end)

\* getAllUsersWithAccessPeriods, accessStatus.
Status(p, t) ==
  CASE p.start # None /\ t < p.start -> "Not started"
    [] ~(p.start # None /\ t < p.start) /\ p.end # None /\ t > p.end -> "Expired"
    [] OTHER -> IF p.end # None THEN "days remaining" ELSE "Active"

\* AuthGuard asks the role of the request's user, which JwtStrategy builds
\* from the token: id, email, sessionId and isVerified, no role.
RoleInRequest == None
GuardAdmits(p, t) ==
  \/ RoleInRequest \in {"admin", "super_admin"}
  \/ p = Nothing
  \/ (p.start = None \/ t >= p.start) /\ (p.end = None \/ t <= p.end)

-----------------------------------------------------------------------------
\* create: the period begins now and lasts a month unless dates are given.
Created(given, t) ==
  LET start == Or(given.start, t)
  IN [start |-> start, end |-> Or(given.end, start + Month)]

Init ==
  /\ today \in Time
  /\ period = Nothing
  /\ role = None
  /\ req = [a \in Admin |-> Idle]

Create(given) ==
  /\ role = None
  /\ InOrder(given.start, given.end)
  /\ role' \in Role
  /\ period' = Created(given, today)
  /\ UNCHANGED <<today, req>>

\* What the check compares: dates not given are those of the row as read.
Checked(given) == [start |-> Or(given.start, period.start),
                   end |-> Or(given.end, period.end)]

\* setUserAccessPeriod and updateUserAccessPeriod.
AskAsGiven(a, given) == \* faulty: compares only what is given
  /\ role # None /\ req[a].pc = "idle"
  /\ InOrder(given.start, given.end)
  /\ req' = [req EXCEPT ![a] = [pc |-> "write", given |-> given]]
  /\ UNCHANGED <<today, period, role>>
Ask(a, given) ==
  /\ role # None /\ req[a].pc = "idle"
  /\ InOrder(Checked(given).start, Checked(given).end)
  /\ req' = [req EXCEPT ![a] = [pc |-> "write", given |-> given]]
  /\ UNCHANGED <<today, period, role>>

WriteOnce(a) == \* faulty: no further request is taken
  /\ req[a].pc = "write"
  /\ period' = Checked(req[a].given)
  /\ req' = [req EXCEPT ![a].pc = "done"]
  /\ UNCHANGED <<today, role>>
Write(a) ==
  /\ req[a].pc = "write"
  /\ period' = Checked(req[a].given)
  /\ req' = [req EXCEPT ![a] = Idle]
  /\ UNCHANGED <<today, role>>

\* removeUserAccessPeriod: also two statements, the first only looks.
Remove(a) ==
  /\ role # None /\ req[a].pc = "idle"
  /\ period' = Nothing
  /\ UNCHANGED <<today, role, req>>

Tick ==
  /\ today + 1 \in Time
  /\ today' = today + 1
  /\ UNCHANGED <<period, role, req>>

Next ==
  \/ \E given \in Creation : Create(given)
  \/ \E a \in Admin : (\E given \in Given : Ask(a, given)) \/ Write(a) \/ Remove(a)
  \/ Tick

Spec == Init /\ [][Next]_vars

-----------------------------------------------------------------------------
TypeOK ==
  /\ today \in Time
  /\ period \in [start : Date, end : Date]
  /\ role \in Role \union {None}
  /\ req \in [Admin -> [pc : {"idle", "write"}, given : Given]]

(* "Access start date must be before end date": for one administrator at a *)
(* time.                                                                   *)
PeriodOrdered == InOrder(period.start, period.end)

(* login, AuthGuard, checkUserAccess and the list of users agree on whom   *)
(* to admit, whatever dates are missing and also at the dates themselves.  *)
AccessAgrees ==
  /\ LoginAdmits(period, today) <=> GuardAdmits(period, today)
  /\ HasAccess(period, today) <=> GuardAdmits(period, today)
  /\ Status(period, today) \in {"Not started", "Expired"} <=> ~HasAccess(period, today)

(* The period of a user is in order and read by all in the same way.       *)
AccessIsSound == PeriodOrdered /\ AccessAgrees
=============================================================================
