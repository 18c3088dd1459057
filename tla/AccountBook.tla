------------------------------ MODULE AccountBook ------------------------------
(***************************************************************************)
(* What the codes promise about accounts, without handlers, rows, clocks   *)
(* or detached goroutines: a book of the addresses accounts have, in which *)
(* an address is written, or a flag set, for one of three reasons only.    *)
(*                                                                         *)
(*   a proof     whoever reads the mail of that very address presented a   *)
(*               code that was mailed to it for that very purpose          *)
(*   a password  the address is taken on faith, and not verified           *)
(*   a voucher   an administrator wrote it, and answers for the account    *)
(*                                                                         *)
(* Otp implements this book; see Otp!Book.                                 *)
(***************************************************************************)
CONSTANTS Users, Addresses, NoAddress

VARIABLES
  email,        \* the address of each account, NoAddress before it is opened
  verified,     \* the flag that opens the protected routes
  vouched,      \* accounts an administrator answers for
  mailed,       \* <<purpose, address>> of the codes that reached their address
  proven        \* <<purpose, address>> of the codes that were presented

bookVars == <<email, verified, vouched, mailed, proven>>

Purposes == {"REGISTER", "LOGIN", "FORGOT_PASSWORD", "VERIFY_EMAIL", "CHANGE_EMAIL"}

IsOpen(u) == email[u] # NoAddress
IsFree(c) == \A u \in Users : email[u] # c

BookInit ==
  /\ email = [u \in Users |-> NoAddress]
  /\ verified = [u \in Users |-> FALSE]
  /\ vouched = {}
  /\ mailed = {}
  /\ proven = {}

Mail(purpose, c) ==
  /\ mailed' = mailed \union {<<purpose, c>>}
  /\ UNCHANGED <<email, verified, vouched, proven>>

Prove(purpose, c) ==
  /\ <<purpose, c>> \in mailed
  /\ proven' = proven \union {<<purpose, c>>}
  /\ UNCHANGED <<email, verified, vouched, mailed>>

\* Account u gets address c, which no other has.
Gets(u, c) ==
  /\ IsFree(c)
  /\ email' = [email EXCEPT ![u] = c]
  /\ UNCHANGED <<mailed, proven>>

\* An account opened with a password.
Open(u, c) ==
  /\ ~IsOpen(u)
  /\ Gets(u, c)
  /\ UNCHANGED <<verified, vouched>>

\* An account opened with a code.
Join(u, c) ==
  /\ ~IsOpen(u)
  /\ <<"REGISTER", c>> \in proven
  /\ Gets(u, c)
  /\ verified' = [verified EXCEPT ![u] = TRUE]
  /\ UNCHANGED vouched

\* The holder changes the address: nobody has to answer for it any more.
Move(u, c) ==
  /\ IsOpen(u)
  /\ <<"CHANGE_EMAIL", c>> \in proven
  /\ Gets(u, c)
  /\ verified' = [verified EXCEPT ![u] = TRUE]
  /\ vouched' = vouched \ {u}

\* The holder verifies the address the account has now.
VerifyAccount(u) ==
  /\ IsOpen(u)
  /\ <<"VERIFY_EMAIL", email[u]>> \in proven \/ u \in vouched
  /\ verified' = [verified EXCEPT ![u] = TRUE]
  /\ UNCHANGED <<email, vouched, mailed, proven>>

Administer(u, c, v) ==
  /\ IsOpen(u)
  /\ c # email[u] => IsFree(c)
  /\ email' = [email EXCEPT ![u] = c]
  /\ verified' = [verified EXCEPT ![u] = v]
  /\ vouched' = vouched \union {u}
  /\ UNCHANGED <<mailed, proven>>

BookNext ==
  \/ \E purpose \in Purposes, c \in Addresses : Mail(purpose, c) \/ Prove(purpose, c)
  \/ \E u \in Users, c \in Addresses :
       \/ Open(u, c) \/ Join(u, c) \/ Move(u, c)
       \/ \E v \in BOOLEAN : Administer(u, c, v)
  \/ \E u \in Users : VerifyAccount(u)

BookSpec == BookInit /\ [][BookNext]_bookVars
=============================================================================
