-------------------------------- MODULE PoolBook --------------------------------
(***************************************************************************)
(* What a pool promises to its administrator, without transactions, locks  *)
(* or goroutines: a book that keeps everything and shows a part of it.  An *)
(* account joins whole and is counted at once; its signup is entered under *)
(* a month at most once, or lost; its logins are entered one by one.       *)
(*                                                                         *)
(* Provisioning, which keeps only what is shown, implements this book; see *)
(* Provisioning!Book.                                                      *)
(***************************************************************************)
EXTENDS Naturals, Sequences, FiniteSets

CONSTANTS
  Users, Addresses, Months, Logins,
  MonthsShown, LoginsShown

VARIABLES
  accounts,   \* the address of each account
  toEnter,    \* accounts whose signup is still to be entered
  entered,    \* signups entered so far, by month
  logged,     \* logins entered so far, the last first
  count,      \* shown: how many accounts there are
  months,     \* shown: the signups of the newest months
  last        \* shown: the last logins of each user

bookVars == <<accounts, toEnter, entered, logged, count, months, last>>

NewestMonths(book) ==
  LET some == {m \in Months : book[m] > 0}
  IN  [m \in {m \in some : Cardinality({n \in some : n > m}) < MonthsShown} |-> book[m]]

LastLogins(events) == SubSeq(events, 1, IF Len(events) < LoginsShown THEN Len(events) ELSE LoginsShown)

BookInit ==
  /\ accounts = << >> /\ toEnter = {} /\ count = 0
  /\ entered = [m \in Months |-> 0] /\ months = NewestMonths(entered)
  /\ logged = [u \in Users |-> << >>] /\ last = logged

\* An address has one account.
Join(u, address) ==
  /\ u \notin DOMAIN accounts /\ \A v \in DOMAIN accounts : accounts[v] # address
  /\ accounts' = [v \in DOMAIN accounts \union {u} |-> IF v = u THEN address ELSE accounts[v]]
  /\ count' = count + 1
  /\ toEnter' = toEnter \union {u}
  /\ UNCHANGED <<entered, logged, months, last>>

EnterSignup(u, m) ==
  /\ u \in toEnter /\ toEnter' = toEnter \ {u}
  /\ entered' = [entered EXCEPT ![m] = @ + 1]
  /\ months' = NewestMonths(entered')
  /\ UNCHANGED <<accounts, logged, count, last>>

LoseSignup(u) ==
  /\ u \in toEnter /\ toEnter' = toEnter \ {u}
  /\ UNCHANGED <<accounts, entered, logged, count, months, last>>

EnterLogin(u, login) ==
  /\ u \in DOMAIN accounts
  /\ logged' = [logged EXCEPT ![u] = <<login>> \o @]
  /\ last' = [last EXCEPT ![u] = LastLogins(<<login>> \o logged[u])]
  /\ UNCHANGED <<accounts, toEnter, entered, count, months>>

BookNext ==
  \E u \in Users :
    \/ \E address \in Addresses : Join(u, address)
    \/ \E m \in Months : EnterSignup(u, m)
    \/ LoseSignup(u)
    \/ \E login \in Logins : EnterLogin(u, login)

BookSpec == BookInit /\ [][BookNext]_bookVars
=============================================================================
